------------------------------- MODULE Papers -------------------------------
(***************************************************************************)
(* The LLPs of a firm and their Form 11 and Form 8 working papers          *)
(* (routes/llps.py, models/llps.py).                                       *)
(*                                                                         *)
(* A request is one READ COMMITTED transaction with one write, made from   *)
(* the row it loaded; the write waits for the row and is applied at the    *)
(* commit.  Any number of requests may load a row before one commits.      *)
(***************************************************************************)
EXTENDS Integers, Transactions

CONSTANTS
    Llps,      \* llp rows (their ids)
    Llpins,
    Returns,   \* the (fy, form) a working paper is for
    Payloads,  \* the payloads that pass _validate_payload
    Srns

VARIABLES
    llp,    \* [Llps -> the llp row, or None]
    paper   \* [Llps \X Returns -> the llp_working_paper row, or None]

llpVars == <<llp, paper, req>>

Llp == [llpin: Llpins, deleted: BOOLEAN]
Paper == [payload: Payloads, status: {"draft", "finalized"}, srn: Srns \cup {None}]
Keys == Llps \X Returns

ASSUME PapersAssumption == None \notin Srns /\ None \notin Llp /\ None \notin Paper

LlpRequest ==
         {Idle}
    \cup [step: {"insert llp"}, at: Llps, row: Llp]
    \cup [step: {"llpin"}, at: Llps, llpin: Llpins]
    \cup [step: {"delete"}, at: Llps]
    \cup [step: {"insert paper"}, at: Keys, row: Paper]
    \cup [step: {"paper"}, at: Keys, body: Paper, loaded: Paper]

LlpTypeOK ==
    /\ llp \in [Llps -> Llp \cup {None}]
    /\ paper \in [Keys -> Paper \cup {None}]
    /\ req \in [Requests -> LlpRequest]

LlpInit ==
    /\ llp = [i \in Llps |-> None]
    /\ paper = [k \in Keys |-> None]
    /\ req = [q \in Requests |-> Idle]

Goes(q, r) == req' = [req EXCEPT ![q] = r]
Loads(q, r) == At(q, "idle") /\ Goes(q, r) /\ UNCHANGED <<llp, paper>>

\* _owned_llp
LiveLlp(i) == llp[i] # None /\ ~llp[i].deleted
Holders(pin) == {i \in Llps : LiveLlp(i) /\ llp[i].llpin = pin}

-----------------------------------------------------------------------------
(* The LLP master.                                                         *)

CreateLlp(q, i, pin) ==
    /\ llp[i] = None /\ Holders(pin) = {}
    /\ Loads(q, [step |-> "insert llp", at |-> i, row |-> [llpin |-> pin, deleted |-> FALSE]])

\* The new LLPIN is not compared with those of the other LLPs.
UpdateLlp(q, i, pin) ==
    /\ LiveLlp(i) /\ llp[i].llpin # pin
    /\ Loads(q, [step |-> "llpin", at |-> i, llpin |-> pin])

DeleteLlp(q, i) ==
    /\ LiveLlp(i)
    /\ Loads(q, [step |-> "delete", at |-> i])

\* Mutant: no partial index; only create_llp looks for the LLPIN.
PinFreeNever(i, pin) == TRUE

\* uq_llp_firm_llpin: unique among the rows that are not deleted.
PinFree(i, pin) == Holders(pin) \subseteq {i}

WriteLlp(q) ==
    /\ LET r == req[q] IN
           \/ /\ At(q, "insert llp") /\ llp[r.at] = None /\ PinFree(r.at, r.row.llpin)
              /\ llp' = [llp EXCEPT ![r.at] = r.row]
           \/ /\ At(q, "llpin") /\ (llp[r.at].deleted \/ PinFree(r.at, r.llpin))
              /\ llp' = [llp EXCEPT ![r.at].llpin = r.llpin]
           \/ /\ At(q, "delete")
              /\ llp' = [llp EXCEPT ![r.at].deleted = TRUE]
    /\ Goes(q, Idle) /\ UNCHANGED paper

-----------------------------------------------------------------------------
(* The working papers.                                                     *)

\* 422: finalising requires the SRN.
Bodies == {b \in Paper : b.status = "finalized" => b.srn # None}

\* Mutant: the check that answers 409 is left out.
EditableAny(loaded) == TRUE

\* 409: a finalised working paper is read-only.
Editable(loaded) == loaded.status = "draft"

UpsertPaper(q, k, body) ==
    /\ LiveLlp(k[1])
    /\ paper[k] # None => Editable(paper[k])
    /\ Loads(q, IF paper[k] = None THEN [step |-> "insert paper", at |-> k, row |-> body]
                ELSE [step |-> "paper", at |-> k, body |-> body, loaded |-> paper[k]])

\* Mutant: the UPDATE writes every column of the row.
MergedWhole(row, loaded, body) == body

\* The UPDATE writes the columns whose value is not the one that was loaded.
Merged(row, loaded, body) ==
    [c \in DOMAIN row |-> IF body[c] = loaded[c] THEN row[c] ELSE body[c]]

WritePaper(q) ==
    /\ LET r == req[q] IN
           \/ /\ At(q, "insert paper") /\ paper[r.at] = None  \* UNIQUE (llp_id, fy, form)
              /\ paper' = [paper EXCEPT ![r.at] = r.row]
           \/ /\ At(q, "paper")
              /\ paper' = [paper EXCEPT ![r.at] = Merged(@, r.loaded, r.body)]
    /\ Goes(q, Idle) /\ UNCHANGED llp

-----------------------------------------------------------------------------
\* An IntegrityError, or a client or process that goes away: the transaction ends.
Fail(q) == ~At(q, "idle") /\ Goes(q, Idle) /\ UNCHANGED <<llp, paper>>

\* A handler that only reads, or that answers 404, 409 or 422.
Answer(q) == At(q, "idle") /\ UNCHANGED llpVars

LlpNext ==
    \E q \in Requests :
        \/ \E i \in Llps, pin \in Llpins : CreateLlp(q, i, pin) \/ UpdateLlp(q, i, pin)
        \/ \E i \in Llps : DeleteLlp(q, i)
        \/ \E k \in Keys, body \in Bodies : UpsertPaper(q, k, body)
        \/ WriteLlp(q) \/ WritePaper(q) \/ Fail(q) \/ Answer(q)

LlpSpec == LlpInit /\ [][LlpNext]_llpVars

-----------------------------------------------------------------------------
Finalised(k) == paper[k] # None /\ paper[k].status = "finalized"

(* A finalised working paper is never a draft again, although a request    *)
(* that loaded the draft may write to it after it was finalised            *)
(* (upsert_working_paper).                                                 *)
FinalisedStays == [][\A k \in Keys : Finalised(k) => Finalised(k)']_llpVars

(* No two LLPs that are not deleted have one LLPIN, although update_llp    *)
(* does not look for the new one and create_llp looks before it writes.    *)
OneLlpin == \A pin \in Llpins : \A i, j \in Holders(pin) : i = j
=============================================================================
