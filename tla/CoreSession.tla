----------------------------- MODULE CoreSession -----------------------------
(***************************************************************************)
(* What core/server promises a client that waits for each answer: Start    *)
(* and Stop look atomic, at most one sing-box is up at any moment, and an  *)
(* answer tells the truth about it.  CoreLifecycle implements it.          *)
(***************************************************************************)
CONSTANT Req

VARIABLES
    kind,   \* what each request asks for
    up,     \* the requests whose sing-box is up
    reply   \* what each request was answered

vars == <<kind, up, reply>>

Init ==
    /\ kind = [r \in Req |-> "none"]
    /\ up = {}
    /\ reply = [r \in Req |-> "none"]

Asked(r) == kind[r] # "none" /\ reply[r] = "none"

Ask(r, k) ==
    /\ kind[r] = "none"
    /\ \A s \in Req : ~Asked(s)
    /\ (up = {}) <=> (k = "start")
    /\ kind' = [kind EXCEPT ![r] = k]
    /\ UNCHANGED <<up, reply>>

BringUp(r) ==
    /\ Asked(r)
    /\ kind[r] = "start"
    /\ up = {}
    /\ up' = {r}
    /\ UNCHANGED <<kind, reply>>

\* A box goes down in its own Start, which then fails, or in a Stop.
TakeDown(r) ==
    /\ Asked(r)
    /\ kind[r] = "start" => up = {r}
    /\ up' = {}
    /\ UNCHANGED <<kind, reply>>

AnswerStart(r) ==
    /\ Asked(r)
    /\ kind[r] = "start"
    /\ \E what \in IF up = {r} THEN {"ok"} ELSE {"failed", "panicked"} :
          reply' = [reply EXCEPT ![r] = what]
    /\ UNCHANGED <<kind, up>>

AnswerStop(r) ==
    /\ Asked(r)
    /\ kind[r] = "stop"
    /\ up = {}
    /\ reply' = [reply EXCEPT ![r] = "ok"]
    /\ UNCHANGED <<kind, up>>

Next ==
    \E r \in Req :
        \/ \E k \in {"start", "stop"} : Ask(r, k)
        \/ BringUp(r) \/ TakeDown(r) \/ AnswerStart(r) \/ AnswerStop(r)

Spec == Init /\ [][Next]_vars
=============================================================================
