------------------------------ MODULE Companion ------------------------------
(***************************************************************************)
(* The commands of Pairing and the daemon (`run` under the systemd user    *)
(* unit) over one configuration directory.  The daemon loads the pairing   *)
(* once, when it starts, and goes on with it whatever the commands do to   *)
(* config.json; it writes the status.json that unpair removes.             *)
(*                                                                         *)
(* RunLoop has the reconnect loop in detail; here a session, a failed dial *)
(* and a wait are what the other processes can see of them.                *)
(***************************************************************************)
EXTENDS Pairing

VARIABLES
    proc,    \* the service: "down" until systemd starts it (again), "looping",
             \* "serving", or "stopped" by the user ("exited" by itself with
             \* status 0, which systemd accepts, it never is)
    daemon,  \* the device whose pairing the process has loaded
    status,  \* the device in status.json
    strayed  \* history: status.json was written for a device that was not the
             \* paired one, or has outlived its config.json

daemonVars == <<proc, daemon>>
fileVars == <<status, strayed>>
companionVars == <<vars, daemonVars, fileVars>>

PairedAs(d) == config # None /\ config.device = d

\* The type invariant.  A process has a device loaded exactly while it runs.
CompanionTypeOK ==
    /\ TypeOK
    /\ proc \in {"down", "looping", "serving", "stopped"}
    /\ daemon \in Devices \cup {None}
    /\ daemon # None <=> proc \in {"looping", "serving"}
    /\ status \in Devices \cup {None}
    /\ strayed \in BOOLEAN

CompanionInit ==
    /\ Init
    /\ proc = "stopped"
    /\ daemon = None
    /\ status = None
    /\ strayed = FALSE

-----------------------------------------------------------------------------
(***************************************************************************)
(* The daemon                                                              *)
(***************************************************************************)

\* SaveStatus in the name of the daemon's device; run ignores it if it fails.
SaveStatus ==
    \/ /\ status' = daemon
       /\ strayed' = ~PairedAs(daemon)
    \/ UNCHANGED fileVars

\* The user enables or starts the unit.
Enable ==
    /\ proc = "stopped"
    /\ proc' = "down"
    /\ UNCHANGED <<vars, daemon, fileVars>>

\* run loads the pairing and its token.
Load ==
    /\ proc = "down"
    /\ LoadMaySucceed
    /\ proc' = "looping"
    /\ daemon' = config.device
    /\ UNCHANGED <<vars, fileVars>>

\* Mutant: a pairing that cannot be loaded is no error of run.
LoadFailsQuietly ==
    /\ proc = "down"
    /\ LoadMayFail
    /\ proc' = "exited"
    /\ UNCHANGED <<vars, daemon, fileVars>>

\* It cannot, and exits with status 1: systemd tries again in five seconds.
LoadFails ==
    /\ proc = "down"
    /\ LoadMayFail
    /\ UNCHANGED companionVars

\* The gateway accepts the credential, of an enrolled device.
Dial ==
    /\ proc = "looping"
    /\ school[daemon] = "enrolled"
    /\ proc' = "serving"
    /\ SaveStatus
    /\ UNCHANGED <<vars, daemon>>

DialFails ==
    /\ proc = "looping"
    /\ SaveStatus
    /\ UNCHANGED <<vars, daemonVars>>

SessionEnds ==
    /\ proc = "serving"
    /\ proc' = "looping"
    /\ SaveStatus
    /\ UNCHANGED <<vars, daemon>>

\* SIGTERM: run writes the status, unless the signal comes in the backoff, and
\* exits with status 0.
Stop ==
    /\ proc # "stopped"
    /\ proc' = "stopped"
    /\ daemon' = None
    /\ IF daemon = None THEN UNCHANGED fileVars ELSE SaveStatus
    /\ UNCHANGED vars

\* Mutant: a process that is killed leaves its pairing behind.
KillDaemonOnly ==
    /\ daemon # None
    /\ proc' = "down"
    /\ UNCHANGED <<vars, daemon, fileVars>>

KillDaemon ==
    /\ daemon # None
    /\ proc' = "down"
    /\ daemon' = None
    /\ UNCHANGED <<vars, fileVars>>

Daemon == \/ Enable \/ Load \/ LoadFails \/ Dial \/ DialFails \/ SessionEnds
          \/ Stop \/ KillDaemon

-----------------------------------------------------------------------------
(***************************************************************************)
(* The commands, and the specification                                     *)
(***************************************************************************)

\* Mutant: Delete leaves status.json where it is.
StatusKept(t) == UNCHANGED status

\* The part of RemoveStatus that Pairing leaves out.
StatusRemoved(t) == status' = IF report'[t] = "error" THEN status ELSE None

\* It succeeds.
RemovesStatus(t) == RemoveStatus(t) /\ report'[t] # "error"

\* Delete fails or is killed with config.json gone and status.json there.
LeavesStatus(t) == at[t] = "removeStatus" /\ report'[t] \in {"error", "killed"}

Command(t) ==
    /\ Pair(t) \/ Unpair(t) \/ Kill(t)
    /\ IF RemoveStatus(t) THEN StatusRemoved(t) ELSE UNCHANGED status
    /\ strayed' = (status' # None /\ (strayed \/ LeavesStatus(t)))
    /\ UNCHANGED daemonVars

CompanionNext ==
    \/ \E t \in Terminals : Command(t)
    \/ \E d \in Devices : AdminRevokes(d) /\ UNCHANGED <<daemonVars, fileVars>>
    \/ Daemon

CompanionSpec == CompanionInit /\ [][CompanionNext]_companionVars

\* systemd starts the process every five seconds, which stays below its start
\* limit; run retries for ever.  Neither the keyring nor the gateway is out of
\* reach every time.
ServiceRuns == SF_companionVars(Load) /\ SF_companionVars(Dial)

\* A user keeps trying to end the pairing, and the removal of status.json goes
\* through every so often.
UserRetries ==
    \A t \in Terminals :
        RetriesUnpair(t) /\ SF_companionVars(Command(t) /\ RemovesStatus(t))

FairCompanionSpec == CompanionSpec /\ CommandsEnd

-----------------------------------------------------------------------------
(***************************************************************************)
(* Properties                                                              *)
(***************************************************************************)

\* `status` prints the pairing and status.json side by side.  They speak of the
\* same device, unless a daemon with an earlier pairing wrote the one, or an
\* unpair was stopped between removing the two.
StatusNamesPaired ==
    config # None /\ status # None /\ ~PairedAs(status) => strayed

\* A paired device is served in the end, though the process and the network
\* fail again and again, unless the user has stopped the service or gives up the
\* pairing, the school revokes the device, its token is gone from the keyring,
\* or a daemon with an earlier pairing is still there, which nothing restarts.
PairedGetsServed ==
    ServiceRuns =>
        (config # None ~>
            \/ config = None
            \/ proc = "serving" /\ PairedAs(daemon)
            \/ daemon # None /\ ~PairedAs(daemon)
            \/ config.place = "keyring" /\ config.device \notin keyring
            \/ school[config.device] # "enrolled"
            \/ proc = "stopped")

\* A user who keeps trying gets config.json and status.json removed: with plain
\* unpair as long as the pairing can be loaded, though answers of the school get
\* lost after the revocation or an administrator has revoked the device before,
\* and with --local-only when the token is gone or only status.json is left,
\* whatever kills and failures of Save and Delete there were.  (A daemon that
\* still runs may write status.json again, and the token may stay in the keyring:
\* CredentialsRemoved.)
RetriesRemoveFiles ==
    UserRetries => []<>(config = None /\ status = None)
=============================================================================
