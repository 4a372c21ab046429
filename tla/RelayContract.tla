---------------------------- MODULE RelayContract ----------------------------
(***************************************************************************)
(* What one relay session promises, without goroutines, channels, locks or *)
(* a map.  A request is new until the session takes it on; then it waits;  *)
(* it runs once the local model API may see it; it is settled when its     *)
(* outcome, a refusal included, is decided; and it may then be answered,   *)
(* once.  A request dies when it is cancelled, when its deadline passes or *)
(* when the session ends.                                                  *)
(***************************************************************************)
EXTENDS Naturals

CONSTANTS
    Requests,   \* the request messages of the session
    Ids,        \* the ids they carry
    IdOf,       \* IdOf[r] is the id of request r
    Replayable  \* the requests the model API may see more than once

VARIABLES
    status,     \* how far each request has come
    called,     \* how often the model API has seen it
    dead,       \* the requests whose context is done
    over        \* has the session returned?

contractVars == <<status, called, dead, over>>

ContractTypeOK ==
    /\ status \in [Requests -> {"new", "waiting", "running", "settled", "answered"}]
    /\ called \in [Requests -> Nat]
    /\ dead \subseteq Requests
    /\ over \in BOOLEAN

ContractInit ==
    /\ status = [r \in Requests |-> "new"]
    /\ called = [r \in Requests |-> 0]
    /\ dead = {}
    /\ over = FALSE

InSession(r) == status[r] \in {"waiting", "running"}

Move(r, from, to) ==
    /\ status[r] \in from
    /\ status' = [status EXCEPT ![r] = to]
    /\ UNCHANGED <<called, over>>

\* The session takes on r, unless a request with the same id is in the session.
Admit(r) ==
    /\ \A q \in Requests : InSession(q) => IdOf[q] # IdOf[r]
    /\ Move(r, {"new"}, "waiting")

\* r is turned away.
Decline(r) == Move(r, {"new"}, "settled")

\* r may from now on be shown to the model API.  A dead request never is.
Start(r) ==
    /\ r \notin dead
    /\ Move(r, {"waiting"}, "running")

\* The model API sees r, only once when seeing it twice could matter.
Show(r) ==
    /\ status[r] = "running"
    /\ r \in Replayable \/ called[r] = 0
    /\ called' = [called EXCEPT ![r] = @ + 1]
    /\ UNCHANGED <<status, over>>

\* The outcome of r is decided.
Conclude(r) == Move(r, {"waiting", "running"}, "settled")

\* The one response to r.
Reply(r) == Move(r, {"settled"}, "answered")

\* The session returns, with no request in it.
End ==
    /\ \A r \in Requests : ~InSession(r)
    /\ over' = TRUE
    /\ UNCHANGED <<status, called>>

\* Any step may also kill requests; nothing brings one back to life, and
\* nothing happens to a request after the session has returned.
ContractNext ==
    /\ dead \subseteq dead' /\ dead' \subseteq Requests
    /\ ~over
    /\ \/ UNCHANGED <<status, called, over>>
       \/ \E r \in Requests : \/ Admit(r) \/ Decline(r) \/ Start(r) \/ Show(r)
                              \/ Conclude(r) \/ Reply(r)
       \/ End

ContractSpec == ContractInit /\ [][ContractNext]_contractVars
=============================================================================
