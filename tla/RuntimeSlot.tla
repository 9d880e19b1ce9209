---------------------------- MODULE RuntimeSlot ----------------------------
(***************************************************************************)
(* The single-instance slot of internal/hub/ipc.go: the descriptor         *)
(* hub.json, the directory lock that guards it, the Hub processes that     *)
(* claim and release it, and the commands that read it to delegate their   *)
(* work to the Hub that runs.                                              *)
(*                                                                         *)
(* A descriptor is the process, the start time (here: the count of the     *)
(* process's generations) and the capability of the Hub that wrote it.     *)
(* Every transaction on it holds the lock, a directory made with Mkdir; a  *)
(* lock older than 30 s is abandoned.  No transaction lasts longer than    *)
(* the 200 ms probe, so only a crashed holder's lock gets that old (a      *)
(* process that is suspended for 30 s inside one is left out).             *)
(***************************************************************************)
EXTENDS Naturals, FiniteSets

CONSTANTS HubProcs,      \* the Hub processes that share one store directory
          Commands,      \* command-line calls that delegate to the Hub
          MaxBorn,       \* generations (Start calls) per process
          MaxMissed,     \* probes that may time out although the owner lives
          Mortal         \* callers that may die without releasing anything

ASSUME SlotAssumption ==
    /\ HubProcs \cap Commands = {}
    /\ MaxBorn \in Nat /\ MaxMissed \in Nat
    /\ Mortal \subseteq HubProcs \cup Commands

VARIABLES descriptor,  \* hub.json: the empty set, or the one descriptor
          dirLock,     \* the lock directory: absent, or made by one caller
          life,        \* what each Hub or command is doing
          at,          \* where a caller is in withRuntimeLock
          seenOwner,   \* the descriptor the caller has read or moved aside
          born,        \* generations each process has started
          ran,         \* the generation that executed each command, if any
          missed       \* probes that missed a live owner

slotVars == <<descriptor, dirLock, life, at, seenOwner, born, ran, missed>>

Callers == HubProcs \cup Commands

SlotInit ==
    /\ descriptor = {} /\ dirLock = {}
    /\ life = [c \in Callers |-> "off"]
    /\ at = [c \in Callers |-> "rest"]
    /\ seenOwner = [c \in Callers |-> {}]
    /\ born = [h \in HubProcs |-> 0]
    /\ ran = [c \in Commands |-> {}]
    /\ missed = 0

----------------------------------------------------------------------------
(* withRuntimeLock                                                         *)

Enter(c, what) ==
    /\ at[c] = "rest"
    /\ at' = [at EXCEPT ![c] = "wait"]
    /\ life' = [life EXCEPT ![c] = what]

Leave(c, what) ==
    /\ at' = [at EXCEPT ![c] = "rest"]
    /\ dirLock' = {}
    /\ life' = [life EXCEPT ![c] = what]

Alive(c) == life[c] # "crashed"

MakeLock(c) ==
    /\ Alive(c) /\ at[c] = "wait" /\ dirLock = {}
    /\ dirLock' = {c}
    /\ at' = [at EXCEPT ![c] = "locked"]
    /\ UNCHANGED <<descriptor, life, seenOwner, born, ran, missed>>

\* os.Stat shows a lock older than runtimeLockStale; RemoveAll comes later,
\* whatever the directory has become by then.
FindStale(c) ==
    /\ Alive(c) /\ at[c] = "wait"
    /\ \E d \in dirLock : ~ Alive(d)
    /\ at' = [at EXCEPT ![c] = "judged"]
    /\ UNCHANGED <<descriptor, dirLock, life, seenOwner, born, ran, missed>>

ReclaimLock(c) ==
    /\ Alive(c) /\ at[c] = "judged"
    /\ dirLock' = {}
    /\ at' = [at EXCEPT ![c] = "wait"]
    /\ UNCHANGED <<descriptor, life, seenOwner, born, ran, missed>>

\* "runtime metadata lock timeout": a claim is refused, a command has no Hub,
\* and a release gives up and leaves the descriptor where it is.
LockTimesOut(c) ==
    /\ Alive(c) /\ at[c] = "wait" /\ dirLock # {}
    /\ at' = [at EXCEPT ![c] = "rest"]
    /\ life' = [life EXCEPT ![c] = "off"]
    /\ UNCHANGED <<descriptor, dirLock, seenOwner, born, ran, missed>>

ReadRuntimeInfo(c) ==
    /\ Alive(c) /\ at[c] = "locked"
    /\ seenOwner' = [seenOwner EXCEPT ![c] = descriptor]
    /\ at' = [at EXCEPT ![c] = "looked"]
    /\ UNCHANGED <<descriptor, dirLock, life, born, ran, missed>>

----------------------------------------------------------------------------
(* The Hub                                                                 *)

FreshToken_Kept(h, n) == <<h, 1>>

\* rotateRuntimeCapabilities: a new secret for every generation.
FreshToken(h, n) == <<h, n>>

Info(h) == [proc |-> h, start |-> born[h], token |-> FreshToken(h, born[h])]

StartHub(h) ==
    /\ life[h] = "off" /\ born[h] < MaxBorn
    /\ Enter(h, "claiming")
    /\ born' = [born EXCEPT ![h] = @ + 1]
    /\ UNCHANGED <<descriptor, dirLock, seenOwner, ran, missed>>

\* A listener is bound from before the claim until the run ends; it answers
\* a probe once Serve runs, if the probe carries what the owner carries.
Answers(t) == life[t.proc] = "serving" /\ Info(t.proc) = t
Reachable(t) == life[t.proc] \in {"claimed", "serving"} /\ Info(t.proc) = t

OwnerAnswers(h) ==
    /\ life[h] = "claiming" /\ at[h] = "looked"
    /\ \E t \in seenOwner[h] : Answers(t)
    /\ Leave(h, "off")
    /\ UNCHANGED <<descriptor, seenOwner, born, ran, missed>>

\* The probe fails: nobody is there, or the 200 ms pass before the answer.
ProbeFindsNobody(h) ==
    /\ life[h] = "claiming" /\ at[h] = "looked"
    /\ at' = [at EXCEPT ![h] = "clear"]
    /\ \/ /\ \A t \in seenOwner[h] : ~ Reachable(t)
          /\ missed' = missed
       \/ /\ \E t \in seenOwner[h] : Reachable(t)
          /\ missed < MaxMissed /\ missed' = missed + 1
    /\ UNCHANGED <<descriptor, dirLock, life, seenOwner, born, ran>>

\* The descriptor is renamed into place, or something fails and the claim is
\* given up.
WriteRuntimeInfo(h) ==
    /\ life[h] = "claiming" /\ at[h] = "clear"
    /\ \/ descriptor' = {Info(h)} /\ Leave(h, "claimed")
       \/ descriptor' = descriptor /\ Leave(h, "off")
    /\ UNCHANGED <<seenOwner, born, ran, missed>>

\* replaceRuntimeFile, where the rename does not replace the descriptor that is
\* there: it is moved aside, and hub.json is gone for the moment.
MoveAside(h) ==
    /\ life[h] = "claiming" /\ at[h] = "clear" /\ descriptor # {}
    /\ seenOwner' = [seenOwner EXCEPT ![h] = descriptor]
    /\ descriptor' = {}
    /\ at' = [at EXCEPT ![h] = "aside"]
    /\ UNCHANGED <<dirLock, life, born, ran, missed>>

\* The new one is renamed in; or that fails, and the old one is put back; or
\* that fails too.
PublishOrRestore(h) ==
    /\ life[h] = "claiming" /\ at[h] = "aside"
    /\ \/ descriptor' = {Info(h)} /\ Leave(h, "claimed")
       \/ descriptor' \in {seenOwner[h], descriptor} /\ Leave(h, "off")
    /\ UNCHANGED <<seenOwner, born, ran, missed>>

ServeAfterClaim(h) ==
    /\ life[h] = "claimed"
    /\ life' = [life EXCEPT ![h] = "serving"]
    /\ UNCHANGED <<descriptor, dirLock, at, seenOwner, born, ran, missed>>

\* The run ends: the listeners are closed first, the deferred release is last.
EndRun(h) ==
    /\ life[h] \in {"claimed", "serving"}
    /\ Enter(h, "releasing")
    /\ UNCHANGED <<descriptor, dirLock, seenOwner, born, ran, missed>>

RemoveRuntimeInfoIfOwned_Always(h) ==
    /\ life[h] = "releasing" /\ at[h] = "looked"
    /\ descriptor' = {}
    /\ Leave(h, "off")
    /\ UNCHANGED <<seenOwner, born, ran, missed>>

RemoveRuntimeInfoIfOwned(h) ==
    /\ life[h] = "releasing" /\ at[h] = "looked"
    /\ descriptor' = IF seenOwner[h] = {Info(h)} THEN {} ELSE descriptor
    /\ Leave(h, "off")
    /\ UNCHANGED <<seenOwner, born, ran, missed>>

SlotCrash(c) ==
    /\ c \in Mortal /\ Alive(c) /\ life[c] # "off"
    /\ life' = [life EXCEPT ![c] = "crashed"]
    /\ UNCHANGED <<descriptor, dirLock, at, seenOwner, born, ran, missed>>

----------------------------------------------------------------------------
(* A command: RuntimeIPCTokenForAddr, then the delegated request           *)

StartCommand(c) ==
    /\ life[c] = "off" /\ ran[c] = {}
    /\ Enter(c, "reading")
    /\ UNCHANGED <<descriptor, dirLock, seenOwner, born, ran, missed>>

RuntimeIPCToken(c) ==
    /\ life[c] = "reading" /\ at[c] = "looked"
    /\ Leave(c, IF seenOwner[c] = {} THEN "off" ELSE "ready")
    /\ UNCHANGED <<descriptor, seenOwner, born, ran, missed>>

\* The request reaches whatever Hub listens at the address now; the Hub
\* executes it only if it carries the Hub's own capability.
DelegateSend(c) ==
    /\ life[c] = "ready"
    /\ life' = [life EXCEPT ![c] = "off"]
    /\ \/ \E h \in HubProcs, t \in seenOwner[c] :
             /\ life[h] = "serving" /\ Info(h).token = t.token
             /\ ran' = [ran EXCEPT ![c] = {[proc |-> h, start |-> born[h]]}]
       \/ ran' = ran
    /\ UNCHANGED <<descriptor, dirLock, at, seenOwner, born, missed>>

SlotNext ==
    \/ \E c \in Callers :
          \/ MakeLock(c) \/ FindStale(c) \/ ReclaimLock(c) \/ LockTimesOut(c)
          \/ ReadRuntimeInfo(c) \/ SlotCrash(c)
    \/ \E h \in HubProcs :
          \/ StartHub(h) \/ OwnerAnswers(h) \/ ProbeFindsNobody(h)
          \/ WriteRuntimeInfo(h) \/ MoveAside(h) \/ PublishOrRestore(h)
          \/ ServeAfterClaim(h) \/ EndRun(h) \/ RemoveRuntimeInfoIfOwned(h)
    \/ \E c \in Commands :
          StartCommand(c) \/ RuntimeIPCToken(c) \/ DelegateSend(c)

SlotSpec == SlotInit /\ [][SlotNext]_slotVars

----------------------------------------------------------------------------
Descriptors == [proc : HubProcs, start : 1..MaxBorn, token : HubProcs \X (1..MaxBorn)]

SlotTypeOK ==
    /\ descriptor \subseteq Descriptors /\ Cardinality(descriptor) <= 1
    /\ dirLock \subseteq Callers /\ Cardinality(dirLock) <= 1
    /\ life \in [Callers -> {"off", "claiming", "claimed", "serving", "releasing",
                             "reading", "ready", "crashed"}]
    /\ at \in [Callers -> {"rest", "wait", "judged", "locked", "looked", "clear", "aside"}]
    /\ \A c \in Callers : seenOwner[c] \subseteq Descriptors
    /\ born \in [HubProcs -> 0..MaxBorn]
    /\ \A c \in Commands : ran[c] \subseteq [proc : HubProcs, start : 1..MaxBorn]
    /\ missed \in 0..MaxMissed

\* As long as no probe has missed a live owner, the claim before Serve keeps
\* two Hubs of one store from serving at once, whatever the order of their
\* starts, ends, timeouts and deaths.
OneHubServes ==
    missed = 0 => Cardinality({h \in HubProcs : life[h] \in {"claimed", "serving"}}) <= 1

\* hub.json is taken from a Hub that still runs only by a claim whose probe
\* missed it, which puts its own there or has moved the old one aside.  In
\* particular a Hub that lost the slot that way cannot, when it ends, delete
\* the descriptor of the one that took it.
RunningHubFindable ==
    [][ \A t \in descriptor :
          (Reachable(t) /\ Reachable(t)' /\ descriptor' # descriptor)
          => /\ missed > 0
             /\ descriptor' # {} \/ \E h \in HubProcs : at[h] = "clear" /\ at'[h] = "aside" ]_slotVars

\* A command is executed by the generation whose descriptor it read, never by
\* a later one that took over the same address or the same process.
CommandReachesItsHub ==
    \A c \in Commands : \A g \in ran[c] :
        \E t \in seenOwner[c] : t.proc = g.proc /\ t.start = g.start

\* The slot does what it is for: one Hub per store, and commands reach it.
SlotSound == SlotTypeOK /\ OneHubServes /\ CommandReachesItsHub
=============================================================================
