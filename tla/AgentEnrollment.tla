--------------------------- MODULE AgentEnrollment ---------------------------
(***************************************************************************)
(* Enrollment and check-in of endpoint agents: the server's handlers       *)
(* (src/src/modules/agents) and the agent's commands and its check-in loop *)
(* (src/agent/src).                                                        *)
(*                                                                         *)
(* One run of `jupiter-agent enroll` generates a key pair and sends one    *)
(* request, for which the server generates one device id.  An enrollment   *)
(* stands for all three: the key file that holds x is the private key of   *)
(* that run, the Device row x has its public key.                          *)
(*                                                                         *)
(* The config and the key lie in the profile of the OS account a command   *)
(* runs as (config.rs, storage.rs).  The installed service runs as an      *)
(* account of its own: LocalSystem on Windows, root elsewhere.             *)
(***************************************************************************)
EXTENDS Naturals

CONSTANTS
  Token,       \* enrollment tokens (bound: POST devices/enrollment-tokens)
  Enrollment,  \* runs of the enroll command that got as far as their request
  Account,     \* the OS accounts of the machines that run the agent
  Login,       \* those that commands are typed as; nobody logs in as LocalSystem
  ServiceAccount, \* the account that the service installed by each account runs as
  Tries,       \* attempts of a check-in, the length of CHECKIN_RETRY_DELAYS_SECS
  NoToken, NoEnrollment,
  Torn         \* what a config.json holds that was truncated and not yet written

ASSUME EnrollmentAssumption ==
  /\ NoToken \notin Token
  /\ NoEnrollment \notin Enrollment /\ Torn \notin Enrollment \cup {NoEnrollment}
  /\ Tries \in Nat \ {0}
  /\ Login \subseteq Account
  /\ ServiceAccount \in [Account -> Account]

VARIABLES
  token,    \* whether each token exists, and whether expiresAt has passed
  usedBy,   \* usedByDeviceId of each token (usedAt is set with it)
  device,   \* the status of each Device row
  request,  \* where the enroll request of each enrollment is in its handler
  disk,     \* each account's stored private key and config.json
  command,  \* the command each account is running
  daemon,   \* the check-in loop that runs as each account
  signed    \* signed requests under way to or in requireDeviceAuth's handlers

agentVars == <<token, usedBy, device, request, disk, command, daemon, signed>>
serverRows == <<token, usedBy, device>>

MaybeEnrollment == Enrollment \cup {NoEnrollment}

IdleCommand == [pc |-> "idle", x |-> NoEnrollment]
IdleDaemon == [pc |-> "idle", config |-> NoEnrollment, key |-> NoEnrollment, tries |-> 0]

\* A request signed with a key in the name of a device.
Signed == [device : Enrollment, key : Enrollment, accepted : BOOLEAN]

RequestState == [pc : {"none", "received", "signing", "consuming", "enrolled", "denied"},
                 token : Token \cup {NoToken}]
DiskState == [key : MaybeEnrollment, config : MaybeEnrollment \cup {Torn}]
CommandState == [pc : {"idle", "waiting", "saving key", "saving config", "writing config", "whoami",
                       "saving interval", "writing interval", "starting service", "removing config",
                       "removing key"},
                 x : MaybeEnrollment]
DaemonState == [pc : {"off", "idle", "configured", "ready"}, config : MaybeEnrollment,
                key : MaybeEnrollment, tries : 0..Tries]

AgentTypeOK ==
  /\ token \in [Token -> {"none", "valid", "expired"}]
  /\ usedBy \in [Token -> MaybeEnrollment]
  /\ device \in [Enrollment -> {"none", "ACTIVE", "REVOKED"}]
  /\ request \in [Enrollment -> RequestState]
  /\ disk \in [Account -> DiskState]
  /\ command \in [Account -> CommandState]
  /\ daemon \in [Account -> DaemonState]
  /\ signed \subseteq Signed

AgentInit ==
  /\ token = [t \in Token |-> "none"]
  /\ usedBy = [t \in Token |-> NoEnrollment]
  /\ device = [x \in Enrollment |-> "none"]
  /\ request = [x \in Enrollment |-> [pc |-> "none", token |-> NoToken]]
  /\ disk = [a \in Account |-> [key |-> NoEnrollment, config |-> NoEnrollment]]
  /\ command = [a \in Account |-> IdleCommand]
  /\ daemon = [a \in Account |-> [IdleDaemon EXCEPT !.pc = "off"]]
  /\ signed = {}

(***************************************************************************)
(* Server: tokens, enrollment, revocation                                  *)
(***************************************************************************)
\* A fresh id.
NewToken == CHOOSE t \in Token : token[t] = "none"

IssueToken(t) ==
  /\ token[t] = "none" /\ t = NewToken
  /\ token' = [token EXCEPT ![t] = "valid"]
  /\ UNCHANGED <<usedBy, device, request, disk, command, daemon, signed>>

ExpireToken(t) ==
  /\ token[t] = "valid"
  /\ token' = [token EXCEPT ![t] = "expired"]
  /\ UNCHANGED <<usedBy, device, request, disk, command, daemon, signed>>

\* Mutant: a token is redeemed for as long as it has not expired.
RedeemableTwice(t) == token[t] = "valid"

Redeemable(t) == token[t] = "valid" /\ usedBy[t] = NoEnrollment

RequestGoes(x, pc) == request' = [request EXCEPT ![x].pc = pc]

\* The early exit before a signature is spent on the credential.
EnrollPreCheck(x) ==
  /\ request[x].pc = "received"
  /\ RequestGoes(x, IF Redeemable(request[x].token) THEN "signing" ELSE "denied")
  /\ UNCHANGED <<serverRows, disk, command, daemon, signed>>

\* The transaction reads the token again.  It runs at the database's default
\* isolation, READ COMMITTED, and takes no lock on the row.
EnrollTxRead(x) ==
  /\ request[x].pc = "signing"
  /\ RequestGoes(x, IF Redeemable(request[x].token) THEN "consuming" ELSE "denied")
  /\ UNCHANGED <<serverRows, disk, command, daemon, signed>>

\* Mutant: the token is marked with itself instead of the device.
EnrollCommitWrongId(x) ==
  /\ request[x].pc = "consuming"
  /\ device' = [device EXCEPT ![x] = "ACTIVE"]
  /\ usedBy' = [usedBy EXCEPT ![request[x].token] = request[x].token]
  /\ RequestGoes(x, "enrolled")
  /\ UNCHANGED <<token, disk, command, daemon, signed>>

\* It creates the Device and marks the token by id, whatever it now holds;
\* other transactions see both or neither.
EnrollCommit(x) ==
  /\ request[x].pc = "consuming"
  /\ device' = [device EXCEPT ![x] = "ACTIVE"]
  /\ usedBy' = [usedBy EXCEPT ![request[x].token] = x]
  /\ RequestGoes(x, "enrolled")
  /\ UNCHANGED <<token, disk, command, daemon, signed>>

\* A server error or crash ends the request, and rolls its transaction back.
EnrollAbort(x) ==
  /\ request[x].pc \in {"received", "signing", "consuming"}
  /\ RequestGoes(x, "denied")
  /\ UNCHANGED <<serverRows, disk, command, daemon, signed>>

Revoke(x) ==
  /\ device[x] # "none"
  /\ device' = [device EXCEPT ![x] = "REVOKED"]
  /\ UNCHANGED <<token, usedBy, request, disk, command, daemon, signed>>

(***************************************************************************)
(* Server: requests signed by a device                                     *)
(***************************************************************************)
\* verifyDeviceSignature, with the key the device enrolled with.
Verifies(r) == r.key = r.device

\* requireDeviceAuth reads the row: it must be ACTIVE and its public key must
\* verify the signature.
AuthenticateDevice(r) ==
  /\ r \in signed /\ ~r.accepted
  /\ device[r.device] = "ACTIVE" /\ Verifies(r)
  /\ signed' = (signed \ {r}) \cup {[r EXCEPT !.accepted = TRUE]}
  /\ UNCHANGED <<serverRows, request, disk, command, daemon>>

\* The handler's update by id (the check-in columns are left out), or a lost,
\* refused or failed request: either way the request is over.
SignedRequestEnds(r) ==
  /\ r \in signed
  /\ signed' = signed \ {r}
  /\ UNCHANGED <<serverRows, request, disk, command, daemon>>

(***************************************************************************)
(* Agent: enroll                                                           *)
(***************************************************************************)
CommandGoes(a, pc) == command' = [command EXCEPT ![a].pc = pc]

\* A fresh key pair.
NewEnrollment == CHOOSE x \in Enrollment : request[x].pc = "none"

\* config::exists() is false; the request leaves for the server.
EnrollStart(a, t, x) ==
  /\ command[a].pc = "idle"
  /\ disk[a].config = NoEnrollment
  /\ request[x].pc = "none" /\ x = NewEnrollment
  /\ token[t] # "none"
  /\ request' = [request EXCEPT ![x] = [pc |-> "received", token |-> t]]
  /\ command' = [command EXCEPT ![a] = [pc |-> "waiting", x |-> x]]
  /\ UNCHANGED <<serverRows, disk, daemon, signed>>

\* Mutant: the config is saved before the key.
EnrollAnsweredConfigFirst(a) ==
  /\ command[a].pc = "waiting"
  /\ request[command[a].x].pc = "enrolled"
  /\ CommandGoes(a, "saving config")
  /\ UNCHANGED <<serverRows, request, disk, daemon, signed>>

EnrollAnswered(a) ==
  /\ command[a].pc = "waiting"
  /\ request[command[a].x].pc = "enrolled"
  /\ CommandGoes(a, "saving key")
  /\ UNCHANGED <<serverRows, request, disk, daemon, signed>>

SaveKey(a) ==
  /\ command[a].pc = "saving key"
  /\ disk' = [disk EXCEPT ![a].key = command[a].x]
  /\ CommandGoes(a, "saving config")
  /\ UNCHANGED <<serverRows, request, daemon, signed>>

\* config::save truncates config.json,
TruncateConfig(a) ==
  /\ command[a].pc \in {"saving config", "saving interval"}
  /\ disk' = [disk EXCEPT ![a].config = Torn]
  /\ CommandGoes(a, IF command[a].pc = "saving config" THEN "writing config" ELSE "writing interval")
  /\ UNCHANGED <<serverRows, request, daemon, signed>>

\* and then writes it.
SaveConfig(a) ==
  /\ command[a].pc \in {"writing config", "writing interval"}
  /\ disk' = [disk EXCEPT ![a].config = command[a].x]
  /\ CommandGoes(a, IF command[a].pc = "writing config" THEN "whoami" ELSE "starting service")
  /\ UNCHANGED <<serverRows, request, daemon, signed>>

\* The self-test is signed with the key pair in memory.
Whoami(a) ==
  /\ command[a].pc = "whoami"
  /\ signed' = signed \cup {[device |-> command[a].x, key |-> command[a].x, accepted |-> FALSE]}
  /\ command' = [command EXCEPT ![a] = IdleCommand]
  /\ UNCHANGED <<serverRows, request, disk, daemon>>

\* A config that can be loaded: the file is there and is not torn.
Loads(a) == disk[a].config \in Enrollment

\* The command of that name loads what is stored.
StoredWhoami(a) ==
  /\ command[a].pc = "idle" /\ Loads(a) /\ disk[a].key # NoEnrollment
  /\ signed' = signed \cup {[device |-> disk[a].config, key |-> disk[a].key, accepted |-> FALSE]}
  /\ UNCHANGED <<serverRows, request, disk, command, daemon>>

(***************************************************************************)
(* Agent: the OS service that runs the check-in loop                       *)
(***************************************************************************)
\* On Windows the config is read and, with the interval in it, written back.
ServiceInstall(a) ==
  /\ command[a].pc = "idle" /\ Loads(a)
  /\ command' = [command EXCEPT ![a] = [pc |-> "saving interval", x |-> disk[a].config]]
  /\ UNCHANGED <<serverRows, request, disk, daemon, signed>>

\* launchd and systemd are told the interval in the file they read.
UnitInstall(a) ==
  /\ command[a].pc = "idle"
  /\ CommandGoes(a, "starting service")
  /\ UNCHANGED <<serverRows, request, disk, daemon, signed>>

LoopStarts(a) ==
  daemon' = IF daemon[a].pc = "off" THEN [daemon EXCEPT ![a] = IdleDaemon] ELSE daemon

\* The manager starts the loop, as the account the service runs as.
ServiceStart(a) ==
  /\ command[a].pc = "starting service"
  /\ LoopStarts(ServiceAccount[a])
  /\ command' = [command EXCEPT ![a] = IdleCommand]
  /\ UNCHANGED <<serverRows, request, disk, signed>>

(***************************************************************************)
(* Agent: uninstall, and commands that fail or are killed                  *)
(***************************************************************************)
UninstallStart(a) ==
  /\ command[a].pc = "idle"
  /\ CommandGoes(a, "removing config")
  /\ UNCHANGED <<serverRows, request, disk, daemon, signed>>

RemoveConfig(a) ==
  /\ command[a].pc = "removing config"
  /\ disk' = [disk EXCEPT ![a].config = NoEnrollment]
  /\ CommandGoes(a, "removing key")
  /\ UNCHANGED <<serverRows, request, daemon, signed>>

RemoveKey(a) ==
  /\ command[a].pc = "removing key"
  /\ disk' = [disk EXCEPT ![a].key = NoEnrollment]
  /\ command' = [command EXCEPT ![a] = IdleCommand]
  /\ UNCHANGED <<serverRows, request, daemon, signed>>

\* A rejected or timed-out request, an I/O error, Ctrl-C or a power cut: what
\* is on disk stays, and so does the request in the server.
CommandDies(a) ==
  /\ command[a].pc # "idle"
  /\ command' = [command EXCEPT ![a] = IdleCommand]
  /\ UNCHANGED <<serverRows, request, disk, daemon, signed>>

(***************************************************************************)
(* Agent: the check-in loop                                                *)
(***************************************************************************)
\* `run` by hand, or the service at boot.
DaemonStart(a) ==
  /\ daemon[a].pc = "off"
  /\ LoopStarts(a)
  /\ UNCHANGED <<serverRows, request, disk, command, signed>>

\* A stop request, a crash, or the end of the process in any other way.
DaemonStop(a) ==
  /\ daemon[a].pc # "off"
  /\ daemon' = [daemon EXCEPT ![a] = [IdleDaemon EXCEPT !.pc = "off"]]
  /\ UNCHANGED <<serverRows, request, disk, command, signed>>

\* `service uninstall` asks the loop to stop.
ServiceUninstall(a) == command[a].pc = "idle" /\ DaemonStop(ServiceAccount[a])

\* config::load() fails when there is no config, and the cycle is over.
LoadConfig(a) ==
  /\ daemon[a].pc = "idle"
  /\ Loads(a)
  /\ daemon' = [daemon EXCEPT ![a] = [@ EXCEPT !.pc = "configured", !.config = disk[a].config]]
  /\ UNCHANGED <<serverRows, request, disk, command, signed>>

LoadKey(a) ==
  /\ daemon[a].pc = "configured"
  /\ daemon' = IF disk[a].key = NoEnrollment
               THEN [daemon EXCEPT ![a] = IdleDaemon]
               ELSE [daemon EXCEPT ![a] = [@ EXCEPT !.pc = "ready", !.key = disk[a].key,
                                                         !.tries = Tries]]
  /\ UNCHANGED <<serverRows, request, disk, command, signed>>

\* Mutant: a check-in is retried until it succeeds.
AfterFailureForever(d) == d

\* Where the loop is after a failed attempt: the snapshot, the config and the
\* key are the same for every retry, and after the last one they are dropped.
AfterFailure(d) == IF d.tries > 1 THEN [d EXCEPT !.tries = @ - 1] ELSE IdleDaemon

\* One attempt.  It succeeds, or it fails or looks as if it failed.
SendCheckin(a) ==
  /\ daemon[a].pc = "ready"
  /\ signed' = signed \cup {[device |-> daemon[a].config, key |-> daemon[a].key,
                             accepted |-> FALSE]}
  /\ \E after \in {IdleDaemon, AfterFailure(daemon[a])} : daemon' = [daemon EXCEPT ![a] = after]
  /\ UNCHANGED <<serverRows, request, disk, command>>

ServerSteps ==
  \/ \E t \in Token : IssueToken(t) \/ ExpireToken(t)
  \/ \E x \in Enrollment : \/ EnrollPreCheck(x) \/ EnrollTxRead(x) \/ EnrollCommit(x)
                           \/ EnrollAbort(x) \/ Revoke(x)
  \/ \E r \in Signed : AuthenticateDevice(r) \/ SignedRequestEnds(r)

CommandSteps(a) ==
  \/ \E t \in Token, x \in Enrollment : EnrollStart(a, t, x)
  \/ EnrollAnswered(a) \/ SaveKey(a) \/ TruncateConfig(a) \/ SaveConfig(a) \/ Whoami(a) \/ StoredWhoami(a)
  \/ ServiceInstall(a) \/ UnitInstall(a) \/ ServiceStart(a) \/ ServiceUninstall(a)
  \/ UninstallStart(a) \/ RemoveConfig(a) \/ RemoveKey(a) \/ CommandDies(a)

CheckinStep(a) == LoadConfig(a) \/ LoadKey(a) \/ SendCheckin(a)

AgentNext ==
  \/ ServerSteps
  \/ \E a \in Login : CommandSteps(a)
  \/ \E a \in Account : DaemonStart(a) \/ DaemonStop(a) \/ CheckinStep(a)

AgentSpec == AgentInit /\ [][AgentNext]_agentVars

(***************************************************************************)
(* Fairness: the loop wakes up after every interval, and a network that is *)
(* tried again and again sometimes delivers a request to a server that     *)
(* answers.                                                                *)
(***************************************************************************)
CheckinArrives(x) == AuthenticateDevice([device |-> x, key |-> x, accepted |-> FALSE])
CheckinEnds(x) == SignedRequestEnds([device |-> x, key |-> x, accepted |-> TRUE])

AgentFairSpec ==
  /\ AgentSpec
  /\ \A a \in Account : WF_agentVars(CheckinStep(a))
  /\ \A x \in Enrollment : SF_agentVars(CheckinArrives(x)) /\ WF_agentVars(CheckinEnds(x))

(***************************************************************************)
(* Properties                                                              *)
(***************************************************************************)
\* "Never leave a config pointing at a key that was never actually written":
\* whatever step of enroll, service install or uninstall an account's command died in,
\* and whatever was tried again afterwards, a config that can be read names a
\* device the server has a row for, and the stored key is the one that device
\* enrolled with.
ConfigHasCredential ==
  \A a \in Account :
    Loads(a) =>
      disk[a].key = disk[a].config /\ device[disk[a].config] # "none"

\* A retried request never enrolls a second device: one whose transaction has
\* not yet read the token when it is used by another never creates a Device,
\* in whatever state the first request left the agent.
LateRetryDenied ==
  \A x \in Enrollment :
    [](request[x].pc \in {"received", "signing"} /\ usedBy[request[x].token] # NoEnrollment
         => [](device[x] = "none"))

\* "A retried or raced request can never enroll two devices from one token."
TokenEnrollsOneDevice ==
  \A x, y \in Enrollment :
    device[x] # "none" /\ device[y] # "none" /\ request[x].token = request[y].token => x = y

\* An account that stays enrolled as an active device, with a loop running as
\* that account, is accepted by the server again and again: an attempt with a
\* config read before an uninstall and a new enrollment does not stick.  Of a
\* loop that runs as another account than the one that enrolled it says nothing.
CheckinsContinue ==
  \A a \in Account, x \in Enrollment :
    <>[](daemon[a].pc # "off" /\ disk[a].config = x /\ device[x] = "ACTIVE") =>
      []<>(\E r \in signed : r.device = x /\ r.accepted)

\* `service install` writes the interval into the config "so run_service() can
\* read it back": the loop it starts finds that config.
ServiceReadsConfig ==
  \A a \in Account :
    command[a].pc = "starting service" /\ command[a].x # NoEnrollment =>
      disk[ServiceAccount[a]].config = command[a].x

=============================================================================
