--------------------------- MODULE RelayRefinement ---------------------------
(***************************************************************************)
(* relay.Serve, as RelaySession models it, keeps the promises of           *)
(* RelayContract: the refinement mapping.                                  *)
(***************************************************************************)
EXTENDS RelaySession

\* r has been admitted and nothing of it can have reached the model API yet.
Waits(r) ==
    \/ Queued(r)
    \/ \E w \in Workers :
          /\ workerJob[w] = r
          /\ \/ workerAt[w] = "forward"
             \/ workerAt[w] = "connect" /\ w \notin written

\* The Forward call for r has a connection to the model API, or had one.
Runs(r) ==
    \E w \in Workers :
        /\ workerJob[w] = r
        /\ \/ workerAt[w] \in {"write", "await"}
           \/ workerAt[w] = "connect" /\ w \in written

Fresh(r) ==
    \/ r \in unread
    \/ readerReq = r /\ readerAt \in {"register", "offer"}

statusBar ==
    [r \in Requests |->
        CASE responses[r] > 0 -> "answered"
          [] responses[r] = 0 /\ Waits(r) -> "waiting"
          [] responses[r] = 0 /\ ~Waits(r) /\ Runs(r) -> "running"
          [] responses[r] = 0 /\ ~Waits(r) /\ ~Runs(r) /\ Fresh(r) -> "new"
          [] OTHER -> "settled"]

deadBar == {r \in Requests : CtxErr(r) \in {"canceled", "expired"}}

Contract ==
    INSTANCE RelayContract WITH
        status <- statusBar, called <- calls, dead <- deadBar,
        over <- (serve = "returned")

\* A session never has two requests of one id in it, shows a request that died
\* while it waited to nobody, shows no inference request twice, answers a request
\* at most once and only when its outcome is settled, and is empty when it
\* returns.
ImplementsContract == Contract!ContractSpec
=============================================================================
