----------------------------- MODULE MCCalendar -----------------------------
\* The runs of Calendar.
EXTENDS Calendar, MCCalendarData
=============================================================================
