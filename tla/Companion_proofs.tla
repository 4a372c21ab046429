-------------------------- MODULE Companion_proofs --------------------------
(***************************************************************************)
(* The daemon beside the commands takes nothing away from what holds of    *)
(* the commands alone.                                                     *)
(***************************************************************************)
EXTENDS Companion, Pairing_proofs

\* A step of the companion is a step of the commands, or one of the daemon,
\* which changes nothing of theirs.
LEMMA StepIsPairingStep == [CompanionNext]_companionVars => [Next]_vars
<1> SUFFICES ASSUME [CompanionNext]_companionVars PROVE [Next]_vars
  OBVIOUS
<1>1. ASSUME NEW t \in Terminals, Command(t) PROVE Next
  BY <1>1 DEF Command, Next
<1>2. ASSUME NEW d \in Devices, AdminRevokes(d) PROVE Next
  BY <1>2 DEF Next
<1>3. CASE Daemon
  BY <1>3 DEF Daemon, Enable, Load, LoadFails, Dial, DialFails, SessionEnds, Stop,
     KillDaemon, companionVars
<1>4. CASE UNCHANGED companionVars
  BY <1>4 DEF companionVars
<1> QED
  BY <1>1, <1>2, <1>3, <1>4 DEF CompanionNext

\* The companion implements Pairing, so whatever is proved of Pairing holds of
\* it, for any number of terminals and devices.
THEOREM ImplementsPairing == CompanionSpec => Spec
<1>1. CompanionInit => Init
  BY DEF CompanionInit
<1> QED
  BY <1>1, StepIsPairingStep, PTL DEF CompanionSpec, Spec

\* A daemon takes its device from a well typed config.json only.
LEMMA DaemonTypeOK ==
  ASSUME CompanionTypeOK, Daemon
  PROVE  CompanionTypeOK'
<1> USE PairingAssumption DEF CompanionTypeOK
<1>1. TypeOK'
  <2>1. UNCHANGED vars
    BY DEF Daemon, Enable, Load, LoadFails, Dial, DialFails, SessionEnds, Stop,
       KillDaemon, companionVars
  <2> QED
    BY <2>1, StepTypeOK
<1>2. CASE Enable
  BY <1>1, <1>2 DEF Enable, fileVars
<1>3. CASE Load
  <2>1. config.device \in Devices
    BY <1>3 DEF Load, LoadMaySucceed, TypeOK, Configs
  <2> QED
    BY <1>1, <1>3, <2>1 DEF Load, fileVars
<1>4. CASE LoadFails
  BY <1>1, <1>4 DEF LoadFails, companionVars, daemonVars, fileVars
<1>5. CASE Dial
  BY <1>1, <1>5 DEF Dial, SaveStatus, PairedAs, fileVars
<1>6. CASE DialFails
  BY <1>1, <1>6 DEF DialFails, SaveStatus, PairedAs, daemonVars, fileVars
<1>7. CASE SessionEnds
  BY <1>1, <1>7 DEF SessionEnds, SaveStatus, PairedAs, fileVars
<1>8. CASE Stop
  BY <1>1, <1>8 DEF Stop, SaveStatus, PairedAs, fileVars
<1>9. CASE KillDaemon
  BY <1>1, <1>9 DEF KillDaemon, fileVars
<1> QED
  BY <1>2, <1>3, <1>4, <1>5, <1>6, <1>7, <1>8, <1>9 DEF Daemon

\* Every reachable state is well typed: a process has a device loaded exactly
\* while it runs, and run never exits with status 0 by itself.
THEOREM CompanionTypeCorrect == CompanionSpec => []CompanionTypeOK
<1>1. CompanionInit => CompanionTypeOK
  BY InitTypeOK DEF CompanionInit, CompanionTypeOK
<1>2. CompanionTypeOK /\ [CompanionNext]_companionVars => CompanionTypeOK'
  <2> SUFFICES ASSUME CompanionTypeOK, [CompanionNext]_companionVars
               PROVE  CompanionTypeOK'
    OBVIOUS
  <2>1. TypeOK'
    BY StepIsPairingStep, StepTypeOK DEF CompanionTypeOK
  <2>2. ASSUME NEW t \in Terminals, Command(t) PROVE CompanionTypeOK'
    BY <2>1, <2>2 DEF Command, StatusRemoved, LeavesStatus, daemonVars, CompanionTypeOK
  <2>3. ASSUME NEW d \in Devices, UNCHANGED <<daemonVars, fileVars>>
        PROVE  CompanionTypeOK'
    BY <2>1, <2>3 DEF daemonVars, fileVars, CompanionTypeOK
  <2>4. CASE UNCHANGED companionVars
    BY <2>1, <2>4 DEF companionVars, daemonVars, fileVars, CompanionTypeOK
  <2> QED
    BY <2>2, <2>3, <2>4, DaemonTypeOK DEF CompanionNext
<1> QED
  BY <1>1, <1>2, PTL DEF CompanionSpec

\* unpair keeps its word with the daemon running beside it: when it reports
\* success the school has revoked the device.
THEOREM CompanionUnpairRevokes == CompanionSpec => []RemovedMeansRevoked
  BY ImplementsPairing, UnpairRevokes, PTL

-----------------------------------------------------------------------------
(***************************************************************************)
(* One command at a time, with the daemon beside it                        *)
(***************************************************************************)

\* The daemon interleaves with a command at every step, and yet what the
\* commands keep, one at a time, stays kept: each enrolled device is accounted
\* for, and the token config.json refers to is in the keyring.
THEOREM CompanionKeepsPairing ==
  CompanionSpec /\ []OneAtATime =>
      []EnrolledIsAccountedFor /\ []KeyringBacksConfig
  BY ImplementsPairing, NothingElseOrphaned, KeyringInStep, PTL

\* A status.json that has not strayed is about the paired device, or unpair is
\* between removing config.json and removing it.
StatusInv ==
    status # None /\ ~strayed =>
        PairedAs(status) \/ \E t \in Terminals : at[t] = "removeStatus"

\* The daemon knows whether what it writes is about the paired device.
LEMMA DaemonStatusInv ==
  ASSUME StatusInv, Daemon
  PROVE  StatusInv'
<1>1. UNCHANGED vars
  BY DEF Daemon, Enable, Load, LoadFails, Dial, DialFails, SessionEnds, Stop,
     KillDaemon, companionVars
<1>2. UNCHANGED <<at, config>>
  BY <1>1 DEF vars, commandVars, historyVars
<1>3. SaveStatus \/ UNCHANGED fileVars
  BY DEF Daemon, Enable, Load, LoadFails, Dial, DialFails, SessionEnds, Stop,
     KillDaemon, companionVars
<1>4. CASE UNCHANGED fileVars
  BY <1>2, <1>4 DEF fileVars, StatusInv, PairedAs
<1>5. CASE status' = daemon /\ strayed' = ~PairedAs(daemon)
  BY <1>2, <1>5 DEF StatusInv, PairedAs
<1> QED
  BY <1>3, <1>4, <1>5 DEF SaveStatus

\* A command alone leaves status.json behind only where it is removing it.
LEMMA CommandStatusInv ==
  ASSUME PairingInv, StatusInv, OneAtATime, NEW t \in Terminals, Command(t),
         \A u \in Terminals : u # t => at'[u] = at[u]
  PROVE  StatusInv'
<1> USE DEF StatusInv
<1>0. TypeOK /\ AloneInv(t)
  BY DEF PairingInv, RevokedInv
<1>1. CASE RemoveStatus(t)
  <2>1. status' # None => LeavesStatus(t)
    BY <1>1 DEF Command, StatusRemoved, LeavesStatus, RemoveStatus
  <2> QED
    BY <2>1 DEF Command
<1>2. CASE ~RemoveStatus(t)
  <2>1. status' = status /\ (status # None /\ ~strayed' => ~strayed /\ ~LeavesStatus(t))
    BY <1>2 DEF Command
  <2> SUFFICES ASSUME status # None, ~strayed, ~LeavesStatus(t)
               PROVE  PairedAs(status)' \/ \E u \in Terminals : at'[u] = "removeStatus"
    BY <2>1
  <2>2. CASE \E u \in Terminals : u # t /\ at[u] = "removeStatus"
    BY <2>2
  <2>3. CASE at[t] = "removeStatus"
    <3>1. ~Pair(t)
      BY <2>3 DEF Pair, BeginPair, Begin, RefusePair, EnrollFails, SchoolEnrolls, EnrollReturns,
         EnrollLost, EnrollRejects, KeepInKeyring, KeyringRefuses, KeepInFile, WriteConfig, WriteFails,
         UndoKeyring, GiveUp
    <3>2. ~Unpair(t)
      BY <1>2, <2>3 DEF Unpair, BeginUnpair, BeginUnpairBlind, Begin, RevokeDevice, HearsFromSchool,
         DeleteLoads, ClearKeyring, RemoveConfig, RemoveFails
    <3>3. Kill(t)
      BY <3>1, <3>2 DEF Command
    <3>4. report'[t] = "killed"
      BY <1>0, <3>3 DEF Kill, Finish, TypeOK
    <3> QED
      BY <2>3, <3>4 DEF LeavesStatus
  <2>4. CASE PairedAs(status)
    <3>1. at[t] # "write"
      BY <1>0, <2>4 DEF AloneInv, PairedAs
    <3>2. CASE RemoveConfig(t)
      BY <1>0, <3>2 DEF RemoveConfig, Goto, TypeOK
    <3>3. CASE config' = config
      BY <2>1, <2>4, <3>3 DEF PairedAs
    <3>4. Pair(t) => config' = config
      BY <3>1 DEF Pair, BeginPair, RefusePair, EnrollFails, SchoolEnrolls, EnrollReturns,
         EnrollLost, EnrollRejects, KeepInKeyring, KeyringRefuses, KeepInFile, WriteConfig, WriteFails,
         UndoKeyring, GiveUp
    <3>5. Unpair(t) => RemoveConfig(t) \/ config' = config
      BY DEF Unpair, BeginUnpair, BeginUnpairBlind, RevokeDevice, HearsFromSchool, DeleteLoads,
         ClearKeyring, RemoveFails, RemoveStatus
    <3> QED
      BY <3>2, <3>3, <3>4, <3>5 DEF Command, Kill
  <2> QED
    BY <2>2, <2>3, <2>4
<1> QED
  BY <1>1, <1>2

\* `status` shows a pairing and a status.json of the same device as long as
\* commands do not overlap, whenever the daemon writes and whatever is killed,
\* except for the two cases that strayed records.
THEOREM StatusAgrees == CompanionSpec /\ []OneAtATime => []StatusNamesPaired
<1>1. CompanionInit => StatusInv
  BY DEF CompanionInit, StatusInv
<1>2. PairingInv /\ StatusInv /\ OneAtATime /\ [CompanionNext]_companionVars => StatusInv'
  <2> SUFFICES ASSUME PairingInv, StatusInv, OneAtATime, [CompanionNext]_companionVars
               PROVE  StatusInv'
    OBVIOUS
  <2>1. ASSUME NEW t \in Terminals, Command(t) PROVE StatusInv'
    <3>1. TypeOK
      BY DEF PairingInv, RevokedInv
    <3>2. \A u \in Terminals : u # t => at'[u] = at[u]
      BY <2>1, <3>1, StepOfOne DEF Command
    <3> QED
      BY <2>1, <3>2, CommandStatusInv
  <2>2. ASSUME NEW d \in Devices, AdminRevokes(d), UNCHANGED fileVars PROVE StatusInv'
    BY <2>2 DEF AdminRevokes, commandVars, historyVars, fileVars, StatusInv, PairedAs
  <2>3. CASE UNCHANGED companionVars
    BY <2>3 DEF companionVars, vars, commandVars, historyVars, fileVars, StatusInv, PairedAs
  <2> QED
    BY <2>1, <2>2, <2>3, DaemonStatusInv DEF CompanionNext
<1>3. PairingInv /\ StatusInv => StatusNamesPaired
  <2> SUFFICES ASSUME PairingInv, StatusInv, config # None, status # None,
                      ~PairedAs(status), ~strayed
               PROVE  FALSE
    BY DEF StatusNamesPaired
  <2>1. PICK t \in Terminals : at[t] = "removeStatus"
    BY DEF StatusInv
  <2> QED
    BY <2>1 DEF PairingInv, AloneInv
<1> QED
  BY <1>1, <1>2, <1>3, ImplementsPairing, PairingInductive, PTL DEF CompanionSpec

=============================================================================
