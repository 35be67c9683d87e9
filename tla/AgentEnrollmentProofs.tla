------------------------ MODULE AgentEnrollmentProofs ------------------------
(***************************************************************************)
(* Proofs about AgentEnrollment: types, the stored credential, and late    *)
(* retries of an enrollment, for any number of accounts and tokens.        *)
(***************************************************************************)
EXTENDS AgentEnrollment, TLAPS

(***************************************************************************)
(* The inductive invariant: what each step of a command has left on disk   *)
(* and in the server's rows.                                               *)
(***************************************************************************)
NotYetADevice == \A x \in Enrollment : request[x].pc # "enrolled" => device[x] = "none"

\* A device the server has a row for, whose key is stored.
KeyStored(a, x) == x \in Enrollment /\ disk[a].key = x /\ device[x] # "none"

CommandLeaves(a) ==
  LET x == command[a].x  pc == command[a].pc
  IN  /\ pc = "waiting" => x \in Enrollment /\ disk[a].config = NoEnrollment
      /\ pc = "saving key" => x \in Enrollment /\ device[x] # "none" /\ disk[a].config = NoEnrollment
      /\ pc = "saving config" => KeyStored(a, x) /\ disk[a].config = NoEnrollment
      /\ pc \in {"writing config", "writing interval"} => KeyStored(a, x) /\ disk[a].config = Torn
      /\ pc = "saving interval" => KeyStored(a, x)
      /\ pc = "whoami" => x \in Enrollment
      /\ pc = "removing key" => disk[a].config = NoEnrollment

ConfigLoads(a) == Loads(a) => KeyStored(a, disk[a].config)

EnrolledHaveDevice == \A x \in Enrollment : request[x].pc = "enrolled" => device[x] # "none"

DaemonHolds(a) ==
  /\ daemon[a].pc \in {"configured", "ready"} => daemon[a].config \in Enrollment
  /\ daemon[a].pc = "ready" => daemon[a].key \in Enrollment /\ daemon[a].tries > 0

AgentIInv ==
  /\ AgentTypeOK
  /\ NotYetADevice /\ EnrolledHaveDevice
  /\ \A x \in Enrollment : request[x].pc # "none" => request[x].token \in Token
  /\ \A a \in Account : CommandLeaves(a) /\ ConfigLoads(a) /\ DaemonHolds(a)

(***************************************************************************)
(* Frames                                                                  *)
(***************************************************************************)
\* Devices stay, and the account's disk and command are as they were.
LEMMA AccountKept ==
  ASSUME NEW a \in Account, CommandLeaves(a), ConfigLoads(a),
         disk'[a] = disk[a], command'[a] = command[a],
         \A x \in Enrollment : device[x] # "none" => device'[x] # "none"
  PROVE  CommandLeaves(a)' /\ ConfigLoads(a)'
BY DEF CommandLeaves, ConfigLoads, KeyStored, Loads

LEMMA DaemonKept ==
  ASSUME NEW a \in Account, DaemonHolds(a), daemon'[a] = daemon[a]
  PROVE  DaemonHolds(a)'
BY DEF DaemonHolds


(***************************************************************************)
(* Steps of the server                                                     *)
(***************************************************************************)
LEMMA AgentInitIInv == AgentInit => AgentIInv
<1> SUFFICES ASSUME AgentInit PROVE AgentIInv  OBVIOUS
<1>1. AgentTypeOK
  BY EnrollmentAssumption
     DEF AgentInit, AgentTypeOK, RequestState, DiskState, CommandState, DaemonState, MaybeEnrollment,
         IdleCommand, IdleDaemon, Signed
<1>2. QED
  BY <1>1, EnrollmentAssumption
     DEF AgentInit, AgentIInv, NotYetADevice, EnrolledHaveDevice, CommandLeaves, ConfigLoads, Loads,
         KeyStored, DaemonHolds, IdleCommand, IdleDaemon

\* A step that leaves the accounts' disks, commands and loops alone.
LEMMA ServerOnly ==
  ASSUME AgentIInv, AgentTypeOK', NotYetADevice', EnrolledHaveDevice',
         \A x \in Enrollment : request'[x].pc # "none" => request'[x].token \in Token,
         UNCHANGED <<disk, command, daemon>>,
         \A x \in Enrollment : device[x] # "none" => device'[x] # "none"
  PROVE  AgentIInv'
<1>1. ASSUME NEW a \in Account PROVE CommandLeaves(a)' /\ ConfigLoads(a)' /\ DaemonHolds(a)'
  BY AccountKept, DaemonKept DEF AgentIInv
<1>2. QED  BY <1>1 DEF AgentIInv

LEMMA RequestGoesEffect ==
  ASSUME AgentTypeOK, NEW x \in Enrollment,
         NEW pc \in {"none", "received", "signing", "consuming", "enrolled", "denied"}, RequestGoes(x, pc)
  PROVE  /\ request' \in [Enrollment -> RequestState]
         /\ \A y \in Enrollment : y # x => request'[y] = request[y]
         /\ request'[x].pc = pc /\ request'[x].token = request[x].token
<1> DEFINE new == [request[x] EXCEPT !.pc = pc]
<1>1. request[x] \in RequestState  BY DEF AgentTypeOK
<1>2. new \in RequestState /\ new.pc = pc /\ new.token = request[x].token  BY <1>1 DEF RequestState
<1>3. request' = [request EXCEPT ![x] = new]  BY DEF RequestGoes
<1> HIDE DEF new
<1>4. request' \in [Enrollment -> RequestState]  BY <1>2, <1>3 DEF AgentTypeOK
<1>5. request'[x] = new /\ \A y \in Enrollment : y # x => request'[y] = request[y]
  BY <1>3 DEF AgentTypeOK
<1>6. QED  BY <1>2, <1>4, <1>5

\* A handler's step to its next point, or to its end.
LEMMA RequestStep ==
  ASSUME AgentIInv, NEW x \in Enrollment, request[x].pc # "none", request[x].pc # "enrolled",
         NEW pc \in {"signing", "consuming", "denied"}, RequestGoes(x, pc),
         UNCHANGED <<serverRows, disk, command, daemon, signed>>
  PROVE  AgentIInv'
<1>0. AgentTypeOK  BY DEF AgentIInv
<1>1. AgentTypeOK'  BY <1>0, RequestGoesEffect DEF AgentTypeOK, serverRows
<1>2. /\ \A y \in Enrollment : y # x => request'[y] = request[y]
      /\ request'[x].pc = pc /\ request'[x].token = request[x].token
  BY <1>0, RequestGoesEffect
<1>3. UNCHANGED device  BY DEF serverRows
<1>4. NotYetADevice' /\ EnrolledHaveDevice'
  BY <1>2, <1>3 DEF AgentIInv, NotYetADevice, EnrolledHaveDevice
<1>5. \A y \in Enrollment : request'[y].pc # "none" => request'[y].token \in Token
  BY <1>2 DEF AgentIInv
<1>6. QED  BY <1>1, <1>3, <1>4, <1>5, ServerOnly

LEMMA ServerIInv == ASSUME AgentIInv, ServerSteps PROVE AgentIInv'
<1>0. AgentTypeOK /\ NotYetADevice /\ EnrolledHaveDevice
      /\ \A x \in Enrollment : request[x].pc # "none" => request[x].token \in Token
  BY DEF AgentIInv
<1>1. ASSUME NEW t \in Token, IssueToken(t) \/ ExpireToken(t) PROVE AgentIInv'
  <2>1. UNCHANGED <<device, request, disk, command, daemon>>  BY <1>1 DEF IssueToken, ExpireToken
  <2>2. AgentTypeOK'  BY <1>0, <1>1 DEF AgentTypeOK, IssueToken, ExpireToken
  <2>3. NotYetADevice' /\ EnrolledHaveDevice'  BY <1>0, <2>1 DEF NotYetADevice, EnrolledHaveDevice
  <2>4. QED  BY <1>0, <2>1, <2>2, <2>3, ServerOnly
<1>2. ASSUME NEW x \in Enrollment, EnrollPreCheck(x) \/ EnrollTxRead(x) \/ EnrollAbort(x)
      PROVE  AgentIInv'
  <2>1. PICK pc \in {"signing", "consuming", "denied"} : RequestGoes(x, pc)
    BY <1>2 DEF EnrollPreCheck, EnrollTxRead, EnrollAbort
  <2>2. request[x].pc # "none" /\ request[x].pc # "enrolled"
        /\ UNCHANGED <<serverRows, disk, command, daemon, signed>>
    BY <1>2 DEF EnrollPreCheck, EnrollTxRead, EnrollAbort
  <2>3. QED  BY <2>1, <2>2, RequestStep
<1>3. ASSUME NEW x \in Enrollment, EnrollCommit(x) PROVE AgentIInv'
  <2>1. UNCHANGED <<disk, command, daemon>>  BY <1>3 DEF EnrollCommit
  <2>2. AgentTypeOK'
    <3>1. RequestGoes(x, "enrolled")  BY <1>3 DEF EnrollCommit
    <3>2. device' \in [Enrollment -> {"none", "ACTIVE", "REVOKED"}]
          /\ usedBy' \in [Token -> MaybeEnrollment]
      BY <1>0, <1>3 DEF AgentTypeOK, EnrollCommit, MaybeEnrollment
    <3>3. UNCHANGED <<token, signed>>  BY <1>3 DEF EnrollCommit
    <3>4. QED  BY <1>0, <2>1, <3>1, <3>2, <3>3, RequestGoesEffect DEF AgentTypeOK
  <2>3. /\ \A y \in Enrollment : y # x => request'[y] = request[y] /\ device'[y] = device[y]
        /\ request'[x].pc = "enrolled" /\ request'[x].token = request[x].token
        /\ device'[x] = "ACTIVE" /\ request[x].pc = "consuming"
    BY <1>0, <1>3 DEF AgentTypeOK, EnrollCommit, RequestGoes
  <2>4. NotYetADevice' /\ EnrolledHaveDevice'
    BY <1>0, <2>3 DEF NotYetADevice, EnrolledHaveDevice
  <2>5. \A y \in Enrollment : request'[y].pc # "none" => request'[y].token \in Token
    BY <1>0, <2>3
  <2>6. QED  BY <2>1, <2>2, <2>3, <2>4, <2>5, ServerOnly
<1>4. ASSUME NEW x \in Enrollment, Revoke(x) PROVE AgentIInv'
  <2>1. UNCHANGED <<request, disk, command, daemon>>  BY <1>4 DEF Revoke
  <2>2. AgentTypeOK'  BY <1>0, <1>4 DEF AgentTypeOK, Revoke
  <2>3. \A y \in Enrollment : device'[y] # "none" <=> device[y] # "none"
    BY <1>0, <1>4 DEF AgentTypeOK, Revoke
  <2>4. NotYetADevice' /\ EnrolledHaveDevice'
    BY <1>0, <2>1, <2>3 DEF NotYetADevice, EnrolledHaveDevice
  <2>5. QED  BY <1>0, <2>1, <2>2, <2>3, <2>4, ServerOnly
<1>5. ASSUME NEW r \in Signed, AuthenticateDevice(r) \/ SignedRequestEnds(r) PROVE AgentIInv'
  <2>1. UNCHANGED <<device, request, disk, command, daemon>>
    BY <1>5 DEF AuthenticateDevice, SignedRequestEnds, serverRows
  <2>2. [r EXCEPT !.accepted = TRUE] \in Signed  BY DEF Signed
  <2>3. signed' \subseteq Signed
    BY <1>0, <1>5, <2>2 DEF AgentTypeOK, AuthenticateDevice, SignedRequestEnds
  <2>4. AgentTypeOK'
    BY <1>0, <1>5, <2>3 DEF AgentTypeOK, AuthenticateDevice, SignedRequestEnds, serverRows
  <2>5. NotYetADevice' /\ EnrolledHaveDevice'  BY <1>0, <2>1 DEF NotYetADevice, EnrolledHaveDevice
  <2>6. QED  BY <1>0, <2>1, <2>4, <2>5, ServerOnly
<1>6. QED  BY <1>1, <1>2, <1>3, <1>4, <1>5 DEF ServerSteps

(***************************************************************************)
(* Steps of an account                                                     *)
(***************************************************************************)
RequestsIInv ==
  /\ NotYetADevice /\ EnrolledHaveDevice
  /\ \A x \in Enrollment : request[x].pc # "none" => request[x].token \in Token

LEMMA RequestsKept == ASSUME AgentIInv, UNCHANGED <<request, device>> PROVE RequestsIInv'
BY DEF AgentIInv, RequestsIInv, NotYetADevice, EnrolledHaveDevice

\* A step of one account that keeps the rows of the server.
LEMMA AccountOnly ==
  ASSUME AgentIInv, AgentTypeOK', RequestsIInv', NEW a \in Account, UNCHANGED device,
         \A n \in Account : n # a =>
           disk'[n] = disk[n] /\ command'[n] = command[n] /\ daemon'[n] = daemon[n],
         CommandLeaves(a)', ConfigLoads(a)', DaemonHolds(a)'
  PROVE  AgentIInv'
<1>1. ASSUME NEW n \in Account PROVE CommandLeaves(n)' /\ ConfigLoads(n)' /\ DaemonHolds(n)'
  <2>1. CASE n = a  BY <2>1
  <2>2. CASE n # a  BY <2>2, AccountKept, DaemonKept DEF AgentIInv
  <2>3. QED  BY <2>1, <2>2
<1>2. QED  BY <1>1 DEF AgentIInv, RequestsIInv

\* What a command and its disk may be, once it has done a step.
CommandMay(c, d) ==
  /\ c \in CommandState /\ d \in DiskState
  /\ c.pc = "waiting" => c.x \in Enrollment /\ d.config = NoEnrollment
  /\ c.pc \in {"saving key", "saving config", "writing config", "saving interval", "writing interval"} =>
       c.x \in Enrollment /\ device[c.x] # "none"
  /\ c.pc \in {"saving config", "writing config", "saving interval", "writing interval"} => d.key = c.x
  /\ c.pc \in {"saving key", "saving config", "removing key"} => d.config = NoEnrollment
  /\ c.pc \in {"writing config", "writing interval"} => d.config = Torn
  /\ c.pc = "whoami" => c.x \in Enrollment
  /\ d.config \in Enrollment => d.key = d.config /\ device[d.config] # "none"

LEMMA CommandNow ==
  ASSUME AgentIInv, NEW a \in Account
  PROVE  CommandMay(command[a], disk[a])
BY DEF AgentIInv, AgentTypeOK, CommandMay, CommandLeaves, ConfigLoads, KeyStored, Loads

LEMMA CommandOnly ==
  ASSUME AgentIInv, RequestsIInv', request' \in [Enrollment -> RequestState], NEW a \in Account,
         UNCHANGED serverRows, signed' \subseteq Signed, UNCHANGED daemon,
         NEW c, command' = [command EXCEPT ![a] = c], NEW d, disk' = [disk EXCEPT ![a] = d],
         CommandMay(c, d)
  PROVE  AgentIInv'
<1>0. AgentTypeOK /\ UNCHANGED <<token, usedBy, device>>  BY DEF AgentIInv, serverRows
<1>1. AgentTypeOK'  BY <1>0 DEF AgentTypeOK, CommandMay
<1>2. command'[a] = c /\ disk'[a] = d  BY <1>0 DEF AgentTypeOK
<1>3. \A n \in Account : n # a => disk'[n] = disk[n] /\ command'[n] = command[n]
  BY <1>0 DEF AgentTypeOK
<1>4. CommandLeaves(a)'  BY <1>0, <1>2 DEF CommandLeaves, KeyStored, CommandMay
<1>5. ConfigLoads(a)'  BY <1>0, <1>2 DEF ConfigLoads, KeyStored, Loads, CommandMay
<1>6. DaemonHolds(a)'  BY DaemonKept DEF AgentIInv
<1>7. QED  BY <1>0, <1>1, <1>3, <1>4, <1>5, <1>6, AccountOnly

\* A step of the command that keeps the disk.
LEMMA CommandStep ==
  ASSUME AgentIInv, NEW a \in Account, UNCHANGED <<serverRows, request, disk, daemon>>,
         signed' \subseteq Signed, NEW c, command' = [command EXCEPT ![a] = c], CommandMay(c, disk[a])
  PROVE  AgentIInv'
<1>1. disk' = [disk EXCEPT ![a] = disk[a]]  BY DEF AgentIInv, AgentTypeOK
<1>2. RequestsIInv'  BY RequestsKept DEF serverRows
<1>3. request' \in [Enrollment -> RequestState]  BY DEF AgentIInv, AgentTypeOK
<1>4. QED  BY <1>1, <1>2, <1>3, CommandOnly

\* One that writes to the disk.
LEMMA DiskStep ==
  ASSUME AgentIInv, NEW a \in Account, UNCHANGED <<serverRows, request, daemon, signed>>,
         NEW c, command' = [command EXCEPT ![a] = c], NEW d, disk' = [disk EXCEPT ![a] = d],
         CommandMay(c, d)
  PROVE  AgentIInv'
<1>1. RequestsIInv'  BY RequestsKept DEF serverRows
<1>2. request' \in [Enrollment -> RequestState] /\ signed' \subseteq Signed
  BY DEF AgentIInv, AgentTypeOK
<1>3. QED  BY <1>1, <1>2, CommandOnly

LEMMA EnrollStartIInv ==
  ASSUME AgentIInv, NEW a \in Account, NEW t \in Token, NEW x \in Enrollment, EnrollStart(a, t, x)
  PROVE  AgentIInv'
<1> DEFINE c == [pc |-> "waiting", x |-> x]
<1>0. AgentTypeOK  BY DEF AgentIInv
<1>1. /\ request' = [request EXCEPT ![x] = [pc |-> "received", token |-> t]]
      /\ request[x].pc = "none" /\ disk[a].config = NoEnrollment
      /\ command' = [command EXCEPT ![a] = c]
      /\ UNCHANGED <<serverRows, disk, daemon, signed>>
  BY DEF EnrollStart
<1>2. request' \in [Enrollment -> RequestState]  BY <1>0, <1>1 DEF AgentTypeOK, RequestState
<1>3. /\ request'[x] = [pc |-> "received", token |-> t]
      /\ \A y \in Enrollment : y # x => request'[y] = request[y]
  BY <1>0, <1>1 DEF AgentTypeOK
<1>4. RequestsIInv'
  BY <1>1, <1>3 DEF AgentIInv, RequestsIInv, NotYetADevice, EnrolledHaveDevice, serverRows
<1>5. disk' = [disk EXCEPT ![a] = disk[a]] /\ signed' \subseteq Signed
  BY <1>0, <1>1 DEF AgentTypeOK
<1>6. CommandMay(c, disk[a])
  <2>1. CommandMay(command[a], disk[a])  BY CommandNow
  <2>2. QED  BY <1>1, <2>1, EnrollmentAssumption DEF CommandMay, CommandState, MaybeEnrollment
<1> HIDE DEF c
<1>7. QED  BY <1>1, <1>2, <1>4, <1>5, <1>6, CommandOnly

LEMMA SignedIs ==
  ASSUME NEW x \in Enrollment, NEW y \in Enrollment
  PROVE  [device |-> x, key |-> y, accepted |-> FALSE] \in Signed
BY DEF Signed

LEMMA CommandIInv ==
  ASSUME AgentIInv, NEW a \in Account, CommandSteps(a), ~ServiceStart(a), ~ServiceUninstall(a)
  PROVE  AgentIInv'
<1> DEFINE c == command[a]
           d == disk[a]
<1>0. AgentTypeOK /\ CommandMay(c, d) /\ c \in CommandState /\ d \in DiskState
  BY CommandNow DEF AgentIInv, AgentTypeOK
<1>p. ASSUME NEW pc, CommandGoes(a, pc) PROVE command' = [command EXCEPT ![a] = [c EXCEPT !.pc = pc]]
  BY <1>p DEF CommandGoes
<1>s. signed \subseteq Signed  BY <1>0 DEF AgentTypeOK
<1>i. CommandMay(IdleCommand, d)  BY <1>0 DEF CommandMay, IdleCommand, CommandState, MaybeEnrollment
<1>1. ASSUME NEW t \in Token, NEW x \in Enrollment, EnrollStart(a, t, x) PROVE AgentIInv'
  BY <1>1, EnrollStartIInv
<1>2. CASE EnrollAnswered(a)
  <2> DEFINE new == [c EXCEPT !.pc = "saving key"]
  <2>1. CommandGoes(a, "saving key") /\ UNCHANGED <<serverRows, request, disk, daemon, signed>>
        /\ c.pc = "waiting" /\ request[c.x].pc = "enrolled"
    BY <1>2 DEF EnrollAnswered
  <2>2. c.x \in Enrollment /\ device[c.x] # "none" /\ d.config = NoEnrollment
    BY <1>0, <2>1 DEF CommandMay, AgentIInv, EnrolledHaveDevice
  <2>3. CommandMay(new, d)  BY <1>0, <2>2 DEF CommandMay, CommandState
  <2>4. QED  BY <1>p, <1>s, <2>1, <2>3, CommandStep
<1>3. CASE SaveKey(a)
  <2> DEFINE new == [c EXCEPT !.pc = "saving config"]
             store == [d EXCEPT !.key = c.x]
  <2>1. CommandGoes(a, "saving config") /\ UNCHANGED <<serverRows, request, daemon, signed>>
        /\ c.pc = "saving key" /\ disk' = [disk EXCEPT ![a] = store]
    BY <1>3 DEF SaveKey
  <2>2. CommandMay(new, store)
    BY <1>0, <2>1, EnrollmentAssumption DEF CommandMay, CommandState, DiskState
  <2>3. QED  BY <1>p, <2>1, <2>2, DiskStep
<1>4. CASE TruncateConfig(a)
  <2> DEFINE next == IF c.pc = "saving config" THEN "writing config" ELSE "writing interval"
             new == [c EXCEPT !.pc = next]
             store == [d EXCEPT !.config = Torn]
  <2>1. CommandGoes(a, next) /\ UNCHANGED <<serverRows, request, daemon, signed>>
        /\ c.pc \in {"saving config", "saving interval"} /\ disk' = [disk EXCEPT ![a] = store]
    BY <1>4 DEF TruncateConfig
  <2>2. CommandMay(new, store)
    BY <1>0, <2>1, EnrollmentAssumption DEF CommandMay, CommandState, DiskState
  <2>3. QED  BY <1>p, <2>1, <2>2, DiskStep
<1>5. CASE SaveConfig(a)
  <2> DEFINE next == IF c.pc = "writing config" THEN "whoami" ELSE "starting service"
             new == [c EXCEPT !.pc = next]
             store == [d EXCEPT !.config = c.x]
  <2>1. CommandGoes(a, next) /\ UNCHANGED <<serverRows, request, daemon, signed>>
        /\ c.pc \in {"writing config", "writing interval"} /\ disk' = [disk EXCEPT ![a] = store]
    BY <1>5 DEF SaveConfig
  <2>2. CommandMay(new, store)
    BY <1>0, <2>1, EnrollmentAssumption DEF CommandMay, CommandState, DiskState, MaybeEnrollment
  <2>3. QED  BY <1>p, <2>1, <2>2, DiskStep
<1>6. CASE Whoami(a)
  <2>1. command' = [command EXCEPT ![a] = IdleCommand] /\ UNCHANGED <<serverRows, request, disk, daemon>>
        /\ c.pc = "whoami" /\ signed' = signed \cup {[device |-> c.x, key |-> c.x, accepted |-> FALSE]}
    BY <1>6 DEF Whoami
  <2>2. signed' \subseteq Signed
    <3>1. c.x \in Enrollment  BY <1>0, <2>1 DEF CommandMay
    <3>2. [device |-> c.x, key |-> c.x, accepted |-> FALSE] \in Signed  BY <3>1, SignedIs
    <3> HIDE DEF c
    <3>3. QED  BY <1>s, <2>1, <3>2
  <2>3. QED  BY <1>i, <2>1, <2>2, CommandStep
<1>7. CASE StoredWhoami(a)
  <2>1. /\ command' = [command EXCEPT ![a] = c] /\ UNCHANGED <<serverRows, request, disk, daemon>>
        /\ d.config \in Enrollment
        /\ signed' = signed \cup {[device |-> d.config, key |-> d.key, accepted |-> FALSE]}
    BY <1>0, <1>7 DEF StoredWhoami, Loads, AgentTypeOK
  <2>2. signed' \subseteq Signed
    <3>1. d.key \in Enrollment  BY <1>0, <2>1 DEF CommandMay
    <3>2. [device |-> d.config, key |-> d.key, accepted |-> FALSE] \in Signed
      BY <2>1, <3>1, SignedIs
    <3> HIDE DEF d
    <3>3. QED  BY <1>s, <2>1, <3>2
  <2>3. QED  BY <1>0, <2>1, <2>2, CommandStep
<1>8. CASE ServiceInstall(a)
  <2> DEFINE new == [pc |-> "saving interval", x |-> d.config]
  <2>1. command' = [command EXCEPT ![a] = new] /\ UNCHANGED <<serverRows, request, disk, daemon, signed>>
        /\ d.config \in Enrollment
    BY <1>8 DEF ServiceInstall, Loads
  <2>2. CommandMay(new, d)  BY <1>0, <2>1 DEF CommandMay, CommandState, MaybeEnrollment
  <2>3. QED  BY <1>s, <2>1, <2>2, CommandStep
<1>9. ASSUME NEW pc \in {"starting service", "removing config"}, CommandGoes(a, pc),
             UNCHANGED <<serverRows, request, disk, daemon, signed>>
      PROVE  AgentIInv'
  <2> DEFINE new == [c EXCEPT !.pc = pc]
  <2>1. CommandMay(new, d)  BY <1>0 DEF CommandMay, CommandState
  <2>2. QED  BY <1>p, <1>s, <1>9, <2>1, CommandStep
<1>10. CASE UnitInstall(a) \/ UninstallStart(a)  BY <1>9, <1>10 DEF UnitInstall, UninstallStart
<1>11. CASE RemoveConfig(a)
  <2> DEFINE new == [c EXCEPT !.pc = "removing key"]
             store == [d EXCEPT !.config = NoEnrollment]
  <2>1. CommandGoes(a, "removing key") /\ UNCHANGED <<serverRows, request, daemon, signed>>
        /\ disk' = [disk EXCEPT ![a] = store]
    BY <1>11 DEF RemoveConfig
  <2>2. CommandMay(new, store)
    BY <1>0, <2>1, EnrollmentAssumption DEF CommandMay, CommandState, DiskState, MaybeEnrollment
  <2>3. QED  BY <1>p, <2>1, <2>2, DiskStep
<1>12. CASE RemoveKey(a)
  <2> DEFINE store == [d EXCEPT !.key = NoEnrollment]
  <2>1. command' = [command EXCEPT ![a] = IdleCommand] /\ UNCHANGED <<serverRows, request, daemon, signed>>
        /\ disk' = [disk EXCEPT ![a] = store] /\ c.pc = "removing key"
    BY <1>12 DEF RemoveKey
  <2>2. CommandMay(IdleCommand, store)
    BY <1>0, <2>1, EnrollmentAssumption DEF CommandMay, IdleCommand, CommandState, DiskState, MaybeEnrollment
  <2>3. QED  BY <2>1, <2>2, DiskStep
<1>13. CASE CommandDies(a)
  BY <1>13, <1>i, <1>s, CommandStep DEF CommandDies
<1>14. QED
  BY <1>1, <1>2, <1>3, <1>4, <1>5, <1>6, <1>7, <1>8, <1>10, <1>11, <1>12, <1>13 DEF CommandSteps

\* The loop of an account goes on, with what it has loaded.
LEMMA DaemonStep ==
  ASSUME AgentIInv, NEW a \in Account, UNCHANGED <<serverRows, request, disk, command>>,
         signed' \subseteq Signed, NEW e \in DaemonState, daemon' = [daemon EXCEPT ![a] = e],
         e.pc \in {"configured", "ready"} => e.config \in Enrollment,
         e.pc = "ready" => e.key \in Enrollment /\ e.tries > 0
  PROVE  AgentIInv'
<1>0. AgentTypeOK /\ UNCHANGED <<token, usedBy, device>>  BY DEF AgentIInv, serverRows
<1>1. AgentTypeOK'  BY <1>0 DEF AgentTypeOK
<1>2. daemon'[a] = e /\ \A n \in Account : n # a => daemon'[n] = daemon[n]
  BY <1>0 DEF AgentTypeOK
<1>3. DaemonHolds(a)'  BY <1>2 DEF DaemonHolds
<1>4. CommandLeaves(a)' /\ ConfigLoads(a)'
  <2>1. UNCHANGED <<device, disk, command>>  BY <1>0
  <2>2. QED  BY <2>1, AccountKept DEF AgentIInv
<1>5. RequestsIInv'  BY <1>0, RequestsKept
<1>6. QED  BY <1>0, <1>1, <1>2, <1>3, <1>4, <1>5, AccountOnly

LEMMA IdleLoops ==
  /\ IdleDaemon \in DaemonState /\ IdleDaemon.pc = "idle"
  /\ [IdleDaemon EXCEPT !.pc = "off"] \in DaemonState /\ [IdleDaemon EXCEPT !.pc = "off"].pc = "off"
BY EnrollmentAssumption DEF IdleDaemon, DaemonState, MaybeEnrollment

LEMMA DaemonIInv ==
  ASSUME AgentIInv, NEW a \in Account,
         DaemonStart(a) \/ DaemonStop(a) \/ CheckinStep(a)
  PROVE  AgentIInv'
<1> DEFINE e == daemon[a]
           d == disk[a]
<1>0. /\ AgentTypeOK /\ CommandMay(command[a], d) /\ e \in DaemonState /\ d \in DiskState
      /\ signed \subseteq Signed /\ DaemonHolds(a)
  BY CommandNow DEF AgentIInv, AgentTypeOK
<1>1. CASE DaemonStart(a)
  BY <1>0, <1>1, IdleLoops, DaemonStep DEF DaemonStart, LoopStarts
<1>2. CASE DaemonStop(a)
  BY <1>0, <1>2, IdleLoops, DaemonStep DEF DaemonStop
<1>3. CASE LoadConfig(a)
  <2> DEFINE new == [e EXCEPT !.pc = "configured", !.config = d.config]
  <2>1. daemon' = [daemon EXCEPT ![a] = new] /\ UNCHANGED <<serverRows, request, disk, command, signed>>
        /\ d.config \in Enrollment
    BY <1>3 DEF LoadConfig, Loads
  <2>2. new \in DaemonState /\ new.pc = "configured" /\ new.config = d.config
    BY <1>0, <2>1 DEF DaemonState, MaybeEnrollment
  <2> HIDE DEF new
  <2>3. QED  BY <1>0, <2>1, <2>2, DaemonStep
<1>4. CASE LoadKey(a)
  <2>1. UNCHANGED <<serverRows, request, disk, command, signed>> /\ e.config \in Enrollment
    BY <1>0, <1>4 DEF LoadKey, DaemonHolds
  <2>2. CASE d.key = NoEnrollment
    BY <1>0, <1>4, <2>1, <2>2, IdleLoops, DaemonStep DEF LoadKey
  <2>3. CASE d.key # NoEnrollment
    <3> DEFINE new == [e EXCEPT !.pc = "ready", !.key = d.key, !.tries = Tries]
    <3>1. daemon' = [daemon EXCEPT ![a] = new]  BY <1>4, <2>3 DEF LoadKey
    <3>2. /\ new \in DaemonState /\ new.config \in Enrollment
          /\ new.key \in Enrollment /\ new.tries > 0
      <4>1. d.key \in Enrollment  BY <1>0, <2>3 DEF DiskState, MaybeEnrollment
      <4>2. Tries \in 0..Tries /\ Tries > 0  BY EnrollmentAssumption
      <4>3. d.key \in MaybeEnrollment  BY <4>1 DEF MaybeEnrollment
      <4>4. new \in DaemonState  BY <1>0, <4>2, <4>3 DEF DaemonState
      <4>5. new.config = e.config /\ new.key = d.key /\ new.tries = Tries  BY <1>0 DEF DaemonState
      <4>6. QED  BY <2>1, <4>1, <4>2, <4>4, <4>5
    <3> HIDE DEF new
    <3>3. QED  BY <1>0, <2>1, <3>1, <3>2, DaemonStep
  <2>4. QED  BY <2>2, <2>3
<1>5. CASE SendCheckin(a)
  <2>1. PICK after \in {IdleDaemon, AfterFailure(e)} : daemon' = [daemon EXCEPT ![a] = after]
    BY <1>5 DEF SendCheckin
  <2>2. /\ UNCHANGED <<serverRows, request, disk, command>> /\ e.pc = "ready"
        /\ signed' = signed \cup {[device |-> e.config, key |-> e.key, accepted |-> FALSE]}
    BY <1>5 DEF SendCheckin
  <2>3. e.config \in Enrollment /\ e.key \in Enrollment  BY <1>0, <2>2 DEF DaemonHolds
  <2>4. [device |-> e.config, key |-> e.key, accepted |-> FALSE] \in Signed  BY <2>3, SignedIs
  <2>5. signed' \subseteq Signed
    <3> HIDE DEF e
    <3>1. QED  BY <1>0, <2>2, <2>4
  <2>6. /\ after \in DaemonState
        /\ after.pc \in {"configured", "ready"} => after.config \in Enrollment
        /\ after.pc = "ready" => after.key \in Enrollment /\ after.tries > 0
    <3>1. CASE after = IdleDaemon  BY <3>1, IdleLoops
    <3>2. CASE e.tries > 1 /\ after = [e EXCEPT !.tries = @ - 1]
      BY <1>0, <2>3, <3>2, EnrollmentAssumption DEF DaemonState
    <3>3. QED  BY <2>1, <3>1, <3>2 DEF AfterFailure
  <2>7. QED  BY <2>1, <2>2, <2>5, <2>6, DaemonStep
<1>6. QED  BY <1>1, <1>2, <1>3, <1>4, <1>5 DEF CheckinStep

\* A started service disturbs the loop of its own account, and the command of
\* the account that started it.
LEMMA ServiceStartIInv ==
  ASSUME AgentIInv, NEW a \in Account, ServiceStart(a)
  PROVE  AgentIInv'
<1> DEFINE s == ServiceAccount[a]
<1>0. AgentTypeOK /\ s \in Account  BY EnrollmentAssumption DEF AgentIInv
<1>1. UNCHANGED <<token, usedBy, device, request, disk, signed>>  BY DEF ServiceStart, serverRows
<1>2. command' = [command EXCEPT ![a] = IdleCommand]  BY DEF ServiceStart
<1>3. daemon' = daemon \/ daemon' = [daemon EXCEPT ![s] = IdleDaemon]
  BY DEF ServiceStart, LoopStarts
<1> HIDE DEF s
<1>4. command' \in [Account -> CommandState]
  BY <1>0, <1>2 DEF AgentTypeOK, IdleCommand, CommandState, MaybeEnrollment
<1>5. daemon' \in [Account -> DaemonState]  BY <1>0, <1>3, IdleLoops DEF AgentTypeOK
<1>6. AgentTypeOK'  BY <1>0, <1>1, <1>4, <1>5 DEF AgentTypeOK
<1>7. ASSUME NEW n \in Account PROVE CommandLeaves(n)' /\ ConfigLoads(n)' /\ DaemonHolds(n)'
  <2>1. CommandLeaves(n) /\ ConfigLoads(n) /\ DaemonHolds(n)  BY DEF AgentIInv
  <2>2. command'[n] = command[n] \/ command'[n] = IdleCommand  BY <1>0, <1>2 DEF AgentTypeOK
  <2>3. CommandLeaves(n)'
    <3>1. CASE command'[n] = command[n]  BY <1>1, <2>1, <3>1 DEF CommandLeaves, KeyStored
    <3>2. CASE command'[n] = IdleCommand  BY <3>2 DEF CommandLeaves, IdleCommand
    <3>3. QED  BY <2>2, <3>1, <3>2
  <2>4. daemon'[n] = daemon[n] \/ daemon'[n] = IdleDaemon  BY <1>0, <1>3 DEF AgentTypeOK
  <2>5. DaemonHolds(n)'  BY <2>1, <2>4, IdleLoops DEF DaemonHolds
  <2>6. ConfigLoads(n)'  BY <1>1, <2>1 DEF ConfigLoads, KeyStored, Loads
  <2>7. QED  BY <2>3, <2>5, <2>6
<1>8. RequestsIInv'  BY <1>1, RequestsKept
<1>9. QED  BY <1>6, <1>7, <1>8 DEF AgentIInv, RequestsIInv

LEMMA AgentNextIInv == ASSUME AgentIInv, AgentNext PROVE AgentIInv'
<1>1. ASSUME NEW a \in Account, CommandSteps(a) PROVE AgentIInv'
  <2>1. CASE ServiceStart(a)  BY <2>1, ServiceStartIInv
  <2>2. CASE ServiceUninstall(a)
    BY <2>2, EnrollmentAssumption, DaemonIInv DEF ServiceUninstall
  <2>3. CASE ~ServiceStart(a) /\ ~ServiceUninstall(a)  BY <1>1, <2>3, CommandIInv
  <2>4. QED  BY <2>1, <2>2, <2>3
<1>2. QED  BY <1>1, EnrollmentAssumption, ServerIInv, DaemonIInv DEF AgentNext

LEMMA AgentStutter == ASSUME AgentIInv, UNCHANGED agentVars PROVE AgentIInv'
<1>1. UNCHANGED <<token, usedBy, device, request, disk, command, daemon, signed>>  BY DEF agentVars
<1>2. AgentTypeOK'  BY <1>1 DEF AgentIInv, AgentTypeOK
<1>3. RequestsIInv'  BY <1>1, RequestsKept
<1>4. QED  BY <1>1, <1>2, <1>3, ServerOnly DEF RequestsIInv

(***************************************************************************)
(* Theorems                                                                *)
(***************************************************************************)
THEOREM AgentIInvHolds == AgentSpec => []AgentIInv
<1>1. AgentIInv /\ [AgentNext]_agentVars => AgentIInv'  BY AgentNextIInv, AgentStutter
<1>2. QED  BY AgentInitIInv, <1>1, PTL DEF AgentSpec

\* Types of the server's rows, of the accounts' disks and of the commands.
THEOREM AgentTypes == AgentSpec => []AgentTypeOK
<1>1. AgentIInv => AgentTypeOK  BY DEF AgentIInv
<1>2. QED  BY AgentIInvHolds, <1>1, PTL

\* A config that can be read names a device of the server whose private key is
\* of the account, at whatever step a command died: the key is written before
\* the config and removed after it, and a torn config blocks a new enrollment.
THEOREM ConfigsHaveCredentials == AgentSpec => []ConfigHasCredential
<1>1. AgentIInv => ConfigHasCredential
  BY DEF AgentIInv, ConfigHasCredential, ConfigLoads, KeyStored
<1>2. QED  BY AgentIInvHolds, <1>1, PTL

\* A request for a token that is used before its transaction has read it.
Late(x) == request[x].pc \in {"received", "signing"} /\ usedBy[request[x].token] # NoEnrollment

\* It stays late until it is denied, and never gets a Device.
LateOrDenied(x) == device[x] = "none" /\ (Late(x) \/ request[x].pc = "denied")

LEMMA LateStaysLate ==
  ASSUME NEW x \in Enrollment, AgentIInv, LateOrDenied(x), [AgentNext]_agentVars
  PROVE  LateOrDenied(x)'
<1>0. AgentTypeOK /\ x # NoEnrollment  BY EnrollmentAssumption DEF AgentIInv
<1>1. ASSUME request'[x] = request[x], device'[x] = device[x],
             \A t \in Token : usedBy[t] # NoEnrollment => usedBy'[t] # NoEnrollment
      PROVE  LateOrDenied(x)'
  BY <1>1 DEF AgentIInv, LateOrDenied, Late
<1>2. CASE UNCHANGED <<request, device, usedBy>>  BY <1>1, <1>2
<1>3. ASSUME NEW y \in Enrollment, EnrollPreCheck(y) \/ EnrollTxRead(y) \/ EnrollAbort(y)
      PROVE  LateOrDenied(x)'
  <2>1. UNCHANGED <<device, usedBy>>  BY <1>3 DEF EnrollPreCheck, EnrollTxRead, EnrollAbort, serverRows
  <2>2. PICK pc \in {"signing", "consuming", "denied"} : RequestGoes(y, pc)
    BY <1>3 DEF EnrollPreCheck, EnrollTxRead, EnrollAbort
  <2>3. /\ \A z \in Enrollment : z # y => request'[z] = request[z]
        /\ request'[y].pc = pc
    BY <1>0, <2>2, RequestGoesEffect
  <2>4. CASE y # x  BY <1>1, <2>1, <2>3, <2>4
  <2>5. CASE y = x
    <3>1. usedBy[request[x].token] # NoEnrollment
      BY <1>3, <2>5 DEF LateOrDenied, Late, EnrollPreCheck, EnrollTxRead, EnrollAbort
    <3>2. ~Redeemable(request[x].token)  BY <3>1 DEF Redeemable
    <3>3. RequestGoes(x, "denied")
      BY <1>3, <2>5, <3>2 DEF EnrollPreCheck, EnrollTxRead, EnrollAbort
    <3>4. request'[x].pc = "denied"  BY <1>0, <3>3, RequestGoesEffect
    <3>5. QED  BY <2>1, <3>4 DEF LateOrDenied
  <2>6. QED  BY <2>4, <2>5
<1>4. ASSUME NEW y \in Enrollment, EnrollCommit(y) PROVE LateOrDenied(x)'
  <2>1. y # x  BY <1>4 DEF EnrollCommit, LateOrDenied, Late
  <2>2. RequestGoes(y, "enrolled") /\ device' = [device EXCEPT ![y] = "ACTIVE"]
        /\ usedBy' = [usedBy EXCEPT ![request[y].token] = y]
    BY <1>4 DEF EnrollCommit
  <2>3. request'[x] = request[x]  BY <1>0, <2>1, <2>2, RequestGoesEffect
  <2>4. device'[x] = device[x]  BY <1>0, <2>1, <2>2 DEF AgentTypeOK
  <2>5. \A t \in Token : usedBy[t] # NoEnrollment => usedBy'[t] # NoEnrollment
    BY <1>0, <2>2, EnrollmentAssumption DEF AgentTypeOK
  <2>6. QED  BY <1>1, <2>3, <2>4, <2>5
<1>5. ASSUME NEW y \in Enrollment, Revoke(y) PROVE LateOrDenied(x)'
  <2>1. UNCHANGED <<request, usedBy>> /\ y # x  BY <1>5 DEF Revoke, LateOrDenied
  <2>2. device'[x] = device[x]  BY <1>0, <1>5, <2>1 DEF Revoke, AgentTypeOK
  <2>3. QED  BY <1>1, <2>1, <2>2
<1>6. ASSUME NEW a \in Account, NEW t \in Token, NEW y \in Enrollment, EnrollStart(a, t, y)
      PROVE  LateOrDenied(x)'
  <2>1. y # x  BY <1>6 DEF EnrollStart, LateOrDenied, Late
  <2>2. UNCHANGED <<device, usedBy>> /\ request'[x] = request[x]
    BY <1>0, <1>6, <2>1 DEF EnrollStart, serverRows, AgentTypeOK
  <2>3. QED  BY <1>1, <2>2
<1>7. CASE ServerSteps
  <2>1. ASSUME NEW t \in Token, IssueToken(t) \/ ExpireToken(t) PROVE UNCHANGED <<request, device, usedBy>>
    BY <2>1 DEF IssueToken, ExpireToken
  <2>2. ASSUME NEW r \in Signed, AuthenticateDevice(r) \/ SignedRequestEnds(r)
        PROVE  UNCHANGED <<request, device, usedBy>>
    BY <2>2 DEF AuthenticateDevice, SignedRequestEnds, serverRows
  <2>3. QED  BY <1>2, <1>3, <1>4, <1>5, <1>7, <2>1, <2>2 DEF ServerSteps
<1>8. ASSUME NEW a \in Account, CommandSteps(a) \/ DaemonStart(a) \/ DaemonStop(a) \/ CheckinStep(a)
      PROVE  LateOrDenied(x)'
  <2>1. ASSUME ~\E t \in Token, y \in Enrollment : EnrollStart(a, t, y)
        PROVE  UNCHANGED <<request, device, usedBy>>
    BY <1>8, <2>1
       DEF CommandSteps, EnrollAnswered, SaveKey, TruncateConfig, SaveConfig, Whoami, StoredWhoami,
           ServiceInstall, UnitInstall, ServiceStart, ServiceUninstall, UninstallStart, RemoveConfig,
           RemoveKey, CommandDies, DaemonStart, DaemonStop, CheckinStep, LoadConfig, LoadKey, SendCheckin,
           serverRows
  <2>2. QED  BY <1>2, <1>6, <2>1
<1>9. CASE UNCHANGED agentVars  BY <1>2, <1>9 DEF agentVars
<1>10. QED  BY <1>7, <1>8, <1>9, EnrollmentAssumption DEF AgentNext

\* A request that finds its token used when it reads it never creates a Device:
\* the check is repeated inside the transaction that creates it.
THEOREM LateRetriesAreDenied == AgentSpec => LateRetryDenied
<1> SUFFICES ASSUME NEW x \in Enrollment
             PROVE  AgentSpec => [](Late(x) => [](device[x] = "none"))
  BY DEF LateRetryDenied, Late
<1>1. AgentIInv /\ Late(x) => LateOrDenied(x)
  BY DEF AgentIInv, NotYetADevice, LateOrDenied, Late
<1>2. AgentIInv /\ LateOrDenied(x) /\ [AgentNext]_agentVars => LateOrDenied(x)'  BY LateStaysLate
<1>3. LateOrDenied(x) => device[x] = "none"  BY DEF LateOrDenied
<1>4. QED  BY AgentIInvHolds, <1>1, <1>2, <1>3, PTL DEF AgentSpec
=============================================================================
