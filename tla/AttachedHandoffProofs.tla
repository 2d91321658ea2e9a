------------------------- MODULE AttachedHandoffProofs -------------------------
(***************************************************************************)
(* Proofs about AttachedHandoff, for any servers, requests, locks, faults  *)
(* and deaths.  Each step first gets its shape, what it leaves of the      *)
(* session, call or binding it changes, and then keeps the invariant.      *)
(***************************************************************************)
EXTENDS AttachedHandoffProperties, TLAPS

-----------------------------------------------------------------------------
(* Sessions, calls and bindings of which one part has changed              *)

Clients == {"none", "connected", "disconnected"}

LEMMA SessionParts ==
  ASSUME NEW x \in Session
  PROVE  x.client \in Clients /\ x.lock \in MaybeLock /\ x.memory \in MaybeLock
  BY DEF Session, Clients

LEMMA ClientField ==
  ASSUME NEW x \in Session, NEW c \in Clients
  PROVE  LET y == [x EXCEPT !.client = c]
         IN  y \in Session /\ y.client = c /\ y.lock = x.lock /\ y.memory = x.memory
  BY DEF Session, Clients

LEMMA PendingField ==
  ASSUME NEW x \in Session, NEW c \in Clients
  PROVE  LET y == [x EXCEPT !.client = c, !.pending = TRUE]
         IN  y \in Session /\ y.client = c /\ y.lock = x.lock /\ y.memory = x.memory
  BY DEF Session, Clients

LEMMA AdoptedField ==
  ASSUME NEW x \in Session
  PROVE  LET y == [x EXCEPT !.adopted = TRUE]
         IN  y \in Session /\ y.client = x.client /\ y.lock = x.lock /\ y.memory = x.memory
  BY DEF Session

LEMMA LockField ==
  ASSUME NEW x \in Session, NEW k \in MaybeLock
  PROVE  LET y == [x EXCEPT !.lock = k]
         IN  y \in Session /\ y.client = x.client /\ y.lock = k /\ y.memory = x.memory
  BY DEF Session

LEMMA MemoryField ==
  ASSUME NEW x \in Session, NEW k \in MaybeLock
  PROVE  LET y == [x EXCEPT !.memory = k]
         IN  y \in Session /\ y.client = x.client /\ y.lock = x.lock /\ y.memory = k
  BY DEF Session

LEMMA NoSessionParts ==
  NoSession \in Session /\ NoSession.client = "none" /\ NoSession.lock = 0 /\ NoSession.memory = 0
  BY BoundsAssumption DEF Session, NoSession, MaybeLock

LEMMA PurposeField ==
  ASSUME NEW x \in Call, NEW p \in {"reclaim", "give_up"}
  PROVE  LET y == [x EXCEPT !.purpose = p]
         IN  y \in Call /\ y.purpose = p /\ y.request = x.request /\ y.lock = x.lock
  BY DEF Call

LEMMA ReceiptField ==
  ASSUME NEW x \in Binding, NEW k \in MaybeLock
  PROVE  LET y == [x EXCEPT !.receipt = k]
         IN  y \in Binding /\ y.source = x.source /\ y.receipt = k
  BY DEF Binding

LEMMA DispatchedField ==
  ASSUME NEW x \in Binding
  PROVE  LET y == [x EXCEPT !.state = "dispatched", !.receipt = 0]
         IN  y \in Binding /\ y.source = x.source /\ y.receipt = 0
<1>1. 0 \in MaybeLock
  BY BoundsAssumption DEF MaybeLock
<1> QED
  BY <1>1 DEF Binding

-----------------------------------------------------------------------------
(* What each step leaves of the session of s                               *)

\* The session of s has client c, lock k and memory m, and no other has changed.
Parts(s, c, k, m) ==
    /\ session' \in [Server -> Session]
    /\ session'[s].client = c /\ session'[s].lock = k /\ session'[s].memory = m
    /\ \A t \in Server \ {s} : session'[t] = session[t]

\* The client of s is another, or the same.
SameButClient(s) == \E c \in Clients : Parts(s, c, session[s].lock, session[s].memory)

LEMMA SameParts ==
  ASSUME TypeOK, NEW s \in Server, session' = session
  PROVE  Parts(s, session[s].client, session[s].lock, session[s].memory)
  BY DEF TypeOK, Parts

LEMMA ClientParts ==
  ASSUME TypeOK, NEW s \in Server, NEW c \in Clients, session' = [session EXCEPT ![s].client = c]
  PROVE  Parts(s, c, session[s].lock, session[s].memory)
  BY ClientField DEF TypeOK, Parts

LEMMA PendingParts ==
  ASSUME TypeOK, NEW s \in Server, NEW c \in Clients,
         session' = [session EXCEPT ![s].client = c, ![s].pending = TRUE]
  PROVE  Parts(s, c, session[s].lock, session[s].memory)
<1> DEFINE y == [session[s] EXCEPT !.client = c, !.pending = TRUE]
<1>1. session \in [Server -> Session]
  BY DEF TypeOK
<1>2. session' = [session EXCEPT ![s] = y]
  BY <1>1
<1>3. y \in Session /\ y.client = c /\ y.lock = session[s].lock /\ y.memory = session[s].memory
  BY <1>1, PendingField
<1> HIDE DEF y
<1> QED
  BY <1>1, <1>2, <1>3 DEF Parts

LEMMA AdoptedParts ==
  ASSUME TypeOK, NEW s \in Server, session' = [session EXCEPT ![s].adopted = TRUE]
  PROVE  Parts(s, session[s].client, session[s].lock, session[s].memory)
  BY AdoptedField DEF TypeOK, Parts

LEMMA LockParts ==
  ASSUME TypeOK, NEW s \in Server, NEW k \in MaybeLock, session' = [session EXCEPT ![s].lock = k]
  PROVE  Parts(s, session[s].client, k, session[s].memory)
  BY LockField DEF TypeOK, Parts

LEMMA MemoryParts ==
  ASSUME TypeOK, NEW s \in Server, NEW k \in MaybeLock, session' = [session EXCEPT ![s].memory = k]
  PROVE  Parts(s, session[s].client, session[s].lock, k)
  BY MemoryField DEF TypeOK, Parts

LEMMA ForgetParts ==
  ASSUME TypeOK, NEW s \in Server, Forget(s)
  PROVE  Parts(s, "none", 0, session[s].memory)
<1>1. session[s].memory \in MaybeLock
  BY SessionParts DEF TypeOK
<1>2. session' = [session EXCEPT ![s] = [NoSession EXCEPT !.memory = session[s].memory]]
  BY DEF Forget
<1> QED
  BY <1>1, <1>2, NoSessionParts, MemoryField DEF TypeOK, Parts

LEMMA DieParts ==
  ASSUME TypeOK, NEW s \in Server, Die(s)
  PROVE  Parts(s, "none", 0, 0)
  BY NoSessionParts DEF TypeOK, Die, Parts

LEMMA ConnectShape ==
  ASSUME TypeOK, NEW s \in Server, Connect(s)
  PROVE  SameButClient(s)
<1>1. CASE session' = [session EXCEPT ![s].client = "connected"]
  BY <1>1, ClientParts DEF Clients, SameButClient
<1>2. CASE \E client \in {"connected", "disconnected"} :
             session' = [session EXCEPT ![s].client = client, ![s].pending = TRUE]
  <2>1. PICK c \in {"connected", "disconnected"} :
             session' = [session EXCEPT ![s].client = c, ![s].pending = TRUE]
    BY <1>2
  <2>2. c \in Clients
    BY DEF Clients
  <2> QED
    BY <2>1, <2>2, PendingParts DEF SameButClient
<1> QED
  BY <1>1, <1>2 DEF Connect

LEMMA DisconnectShape ==
  ASSUME TypeOK, NEW s \in Server, Disconnect(s)
  PROVE  SameButClient(s)
<1>1. CASE session' = [session EXCEPT ![s].client = "disconnected"]
  BY <1>1, ClientParts DEF Clients, SameButClient
<1>2. CASE session' = session
  BY <1>2, SameParts, SessionParts DEF TypeOK, SameButClient
<1> QED
  BY <1>1, <1>2 DEF Disconnect

LEMMA ReadoptShape ==
  ASSUME TypeOK, NEW s \in Server, Readopt(s)
  PROVE  Parts(s, session[s].client, session[s].lock, session[s].memory)
<1>1. CASE session' = [session EXCEPT ![s].adopted = TRUE]
  BY <1>1, AdoptedParts
<1>2. CASE session' = session
  BY <1>2, SameParts
<1> QED
  BY <1>1, <1>2 DEF Readopt

LEMMA LockModelShape ==
  ASSUME TypeOK, NEW s \in Server, LockModel(s)
  PROVE  Parts(s, session[s].client, locks + 1, session[s].memory)
<1>1. locks + 1 \in MaybeLock
  BY BoundsAssumption DEF TypeOK, LockModel, MaybeLock
<1> QED
  BY <1>1, LockParts DEF LockModel

LEMMA UnlockModelShape ==
  ASSUME TypeOK, NEW s \in Server, UnlockModel(s)
  PROVE  Parts(s, session[s].client, 0, session[s].memory)
<1>1. 0 \in MaybeLock
  BY BoundsAssumption DEF MaybeLock
<1> QED
  BY <1>1, LockParts DEF UnlockModel

LEMMA KeepReceiptShape ==
  ASSUME TypeOK, NEW s \in Server, KeepReceipt(s)
  PROVE  Parts(s, session[s].client, session[s].lock, call[s].lock)
<1>1. call[s].lock \in MaybeLock
  BY DEF TypeOK, Call
<1> QED
  BY <1>1, MemoryParts DEF KeepReceipt

\* The call of s may get another purpose.
Repurposed(s) ==
    /\ call' \in [Server -> Call]
    /\ call'[s].request = call[s].request /\ call'[s].lock = call[s].lock
    /\ \A t \in Server \ {s} : call'[t] = call[t]

LEMMA ReclaimCall ==
  ASSUME TypeOK, NEW s \in Server, Reclaim(s)
  PROVE  Repurposed(s) /\ call'[s].purpose = "reclaim"
<1>1. call' = [call EXCEPT ![s].purpose = "reclaim"]
  BY DEF Reclaim
<1> QED
  BY <1>1, PurposeField DEF TypeOK, Repurposed

LEMMA ReadoptCall ==
  ASSUME TypeOK, NEW s \in Server, Readopt(s)
  PROVE  Repurposed(s) /\ call'[s].purpose \in {call[s].purpose, "give_up"}
<1>1. CASE call' = call
  BY <1>1 DEF TypeOK, Repurposed
<1>2. CASE call' = [call EXCEPT ![s].purpose = "give_up"]
  BY <1>2, PurposeField DEF TypeOK, Repurposed
<1> QED
  BY <1>1, <1>2 DEF Readopt

\* The bindings stay, but for the receipt of one, which is l or as before.
ReceiptMayBe(l) ==
    /\ record' \in [Request -> Binding \cup {None}]
    /\ \A q \in Request :
        /\ record'[q] # None <=> record[q] # None
        /\ record[q] # None => /\ record'[q].source = record[q].source
                              /\ record'[q].receipt \in {record[q].receipt, l}

LEMMA RecordShape ==
  ASSUME TypeOK, NEW s \in Server, RecordHandoff(s), call[s].request \in Request,
         record[call[s].request] # None
  PROVE  ReceiptMayBe(call[s].lock)
<1>1. call[s].lock \in MaybeLock /\ record[call[s].request] \in Binding
  BY DEF TypeOK, Call
<1>2. CASE record' = record
  BY <1>2 DEF TypeOK, ReceiptMayBe
<1>3. CASE record' = [record EXCEPT ![call[s].request].receipt = call[s].lock]
  BY <1>1, <1>3, ReceiptField, BindingAssumption DEF TypeOK, ReceiptMayBe
<1> QED
  BY <1>2, <1>3 DEF RecordHandoff

LEMMA DispatchShape ==
  ASSUME TypeOK, NEW s \in Server, Dispatch(s), call[s].request \in Request,
         record[call[s].request] # None
  PROVE  ReceiptMayBe(0)
<1>1. record[call[s].request] \in Binding
  BY DEF TypeOK
<1>2. CASE record' = record
  BY <1>2 DEF TypeOK, ReceiptMayBe
<1>3. CASE record' = [record EXCEPT ![call[s].request] =
                        [@ EXCEPT !.state = "dispatched", !.receipt = 0]]
  BY <1>1, <1>3, DispatchedField, BindingAssumption DEF TypeOK, ReceiptMayBe
<1> QED
  BY <1>2, <1>3 DEF Dispatch

-----------------------------------------------------------------------------
(* Every step keeps the invariant                                          *)

\* What the steps below need: the shape of the state and of the invariant.
USE IdentityAssumption, BoundsAssumption, BindingAssumption
    DEF InFlow, EarlyPcs, Binding, Call, NoCall, JobState, SessionPcs, FlowPcs, Pcs,
        ModelLock, MaybeLock, Goto, Abandon, Fault, NoFault, binding

LEMMA Initially == Init => HandoffInv
  BY IdentityAssumption, BoundsAssumption, BindingAssumption, NoSessionParts
  DEF Init, HandoffInv, TypeOK, ClientsCovered, CallsKnown, LocksMade, HandedOver, InFlow, EarlyPcs,
      Binding, Call, NoCall, JobState, SessionPcs, FlowPcs, Pcs, ModelLock, MaybeLock

LEMMA AttachKeeps ==
  ASSUME HandoffInv, NEW s \in Server, Attach(s) PROVE HandoffInv'
<1> USE DEF HandoffInv, Attach, Acquire
<1>1. TypeOK'
  BY DEF TypeOK
<1>2. ClientsCovered'
  BY DEF TypeOK, ClientsCovered, CallsKnown
<1>3. CallsKnown'
  BY DEF TypeOK, CallsKnown
<1>4. LocksMade'
  BY DEF TypeOK, CallsKnown, LocksMade
<1>5. HandedOver'
  BY DEF TypeOK, ClientsCovered, CallsKnown, LocksMade, HandedOver
<1> QED
  BY <1>1, <1>2, <1>3, <1>4, <1>5

LEMMA ConnectKeeps ==
  ASSUME HandoffInv, NEW s \in Server, Connect(s) PROVE HandoffInv'
<1> USE DEF HandoffInv, Connect
<1>6. SameButClient(s)
  BY ConnectShape
<1>7. /\ pc[s] = "connect" /\ UNCHANGED <<lease, binding, alive, call, locks>>
      /\ \/ call[s].purpose = "reclaim" /\ Goto(s, "readopt")
         \/ call[s].purpose # "reclaim" /\ Goto(s, "idle")
         \/ Goto(s, "disconnect")
      /\ (faults' = faults) \/ (faults < MaxFaults /\ faults' = faults + 1)
  OBVIOUS
<1>8. /\ locks \in Nat /\ pc \in [Server -> Pcs]
      /\ \A t \in Server : session'[t].lock = session[t].lock /\ session'[t].memory = session[t].memory
  BY <1>6 DEF Parts, SameButClient, TypeOK
<1> HIDE DEF Connect
<1>1. TypeOK'
  BY <1>6, <1>7 DEF SameButClient, Parts, TypeOK
<1>2. ClientsCovered'
  BY <1>6, <1>7 DEF SameButClient, Parts, TypeOK, ClientsCovered, CallsKnown
<1>3. CallsKnown'
  BY <1>6, <1>7 DEF SameButClient, Parts, TypeOK, CallsKnown
<1>4. LocksMade'
  BY <1>7, <1>8 DEF CallsKnown, LocksMade
<1>5. HandedOver'
  BY <1>6, <1>7, <1>8 DEF Parts, SameButClient, Repurposed, CallsKnown, LocksMade, HandedOver
<1> QED
  BY <1>1, <1>2, <1>3, <1>4, <1>5

LEMMA DetachKeeps ==
  ASSUME HandoffInv, NEW s \in Server, Detach(s) PROVE HandoffInv'
<1> USE DEF HandoffInv, Detach
<1>1. TypeOK'
  BY DEF TypeOK
<1>2. ClientsCovered'
  BY DEF TypeOK, ClientsCovered, CallsKnown
<1>3. CallsKnown'
  BY DEF TypeOK, CallsKnown
<1>4. LocksMade'
  BY DEF TypeOK, CallsKnown, LocksMade
<1>5. HandedOver'
  BY DEF TypeOK, ClientsCovered, CallsKnown, LocksMade, HandedOver
<1> QED
  BY <1>1, <1>2, <1>3, <1>4, <1>5

LEMMA DisconnectKeeps ==
  ASSUME HandoffInv, NEW s \in Server, Disconnect(s) PROVE HandoffInv'
<1> USE DEF HandoffInv, Disconnect
<1>6. \/ Parts(s, "disconnected", session[s].lock, session[s].memory) /\ Goto(s, "release")
      \/ session' = session /\ Abandon(s)
  BY ClientParts DEF Clients
<1>7. /\ pc[s] = "disconnect" /\ UNCHANGED <<lease, binding, alive, call, locks>>
      /\ (faults' = faults) \/ (faults < MaxFaults /\ faults' = faults + 1)
  OBVIOUS
<1>8. /\ locks \in Nat /\ pc \in [Server -> Pcs]
      /\ \A t \in Server : session'[t].lock = session[t].lock /\ session'[t].memory = session[t].memory
  BY <1>6 DEF Parts, SameButClient, TypeOK
<1> HIDE DEF Disconnect
<1>1. TypeOK'
  BY <1>6, <1>7 DEF Parts, TypeOK
<1>2. ClientsCovered'
  BY <1>6, <1>7 DEF Parts, TypeOK, ClientsCovered, CallsKnown
<1>3. CallsKnown'
  BY <1>6, <1>7 DEF Parts, TypeOK, CallsKnown
<1>4. LocksMade'
  BY <1>7, <1>8 DEF CallsKnown, LocksMade
<1>5. HandedOver'
  BY <1>6, <1>7, <1>8 DEF Parts, SameButClient, Repurposed, CallsKnown, LocksMade, HandedOver
<1> QED
  BY <1>1, <1>2, <1>3, <1>4, <1>5

LEMMA ReleaseKeeps ==
  ASSUME HandoffInv, NEW s \in Server, Release(s) PROVE HandoffInv'
<1> USE DEF HandoffInv, Release
<1>1. TypeOK'
  BY DEF TypeOK
<1>2. ClientsCovered'
  BY DEF TypeOK, ClientsCovered, CallsKnown
<1>3. CallsKnown'
  BY DEF TypeOK, CallsKnown
<1>4. LocksMade'
  BY DEF TypeOK, CallsKnown, LocksMade
<1>5. HandedOver'
  BY DEF TypeOK, ClientsCovered, CallsKnown, LocksMade, HandedOver
<1> QED
  BY <1>1, <1>2, <1>3, <1>4, <1>5

LEMMA ConfirmKeeps ==
  ASSUME HandoffInv, NEW s \in Server, Confirm(s) PROVE HandoffInv'
<1> USE DEF HandoffInv, Confirm, Forget
<1>6. \/ session' = session /\ Abandon(s)
      \/ /\ Parts(s, "none", 0, session[s].memory)
         /\ \/ Abandon(s)
            \/ call[s].purpose = "handoff" /\ Goto(s, "receipt")
  BY ForgetParts
<1>7. /\ pc[s] = "confirm" /\ UNCHANGED <<lease, binding, alive, call, locks>>
      /\ (faults' = faults) \/ (faults < MaxFaults /\ faults' = faults + 1)
  OBVIOUS
<1>8. /\ locks \in Nat /\ pc \in [Server -> Pcs]
      /\ \A t \in Server : session'[t].lock \in {0, session[t].lock} /\ session'[t].memory = session[t].memory
  BY <1>6 DEF Parts, SameButClient, TypeOK
<1> HIDE DEF Confirm
<1>1. TypeOK'
  BY <1>6, <1>7 DEF Parts, TypeOK
<1>2. ClientsCovered'
  BY <1>6, <1>7 DEF Parts, TypeOK, ClientsCovered, CallsKnown
<1>3. CallsKnown'
  BY <1>6, <1>7 DEF Parts, TypeOK, CallsKnown
<1>4. LocksMade'
  BY <1>7, <1>8 DEF CallsKnown, LocksMade
<1>5. HandedOver'
  BY <1>6, <1>7, <1>8 DEF Parts, SameButClient, Repurposed, CallsKnown, LocksMade, HandedOver
<1> QED
  BY <1>1, <1>2, <1>3, <1>4, <1>5

LEMMA AdoptModelKeeps ==
  ASSUME HandoffInv, NEW s \in Server, AdoptModel(s) PROVE HandoffInv'
<1> USE DEF HandoffInv, AdoptModel
<1>6. Parts(s, session[s].client, session[s].lock, session[s].memory)
  BY AdoptedParts
<1>1. TypeOK'
  BY <1>6 DEF Parts, TypeOK
<1>2. ClientsCovered'
  BY <1>6 DEF Parts, TypeOK, ClientsCovered, CallsKnown
<1>3. CallsKnown'
  BY <1>6 DEF Parts, TypeOK, CallsKnown
<1>4. LocksMade'
  BY <1>6 DEF Parts, TypeOK, CallsKnown, LocksMade
<1>5. HandedOver'
  BY <1>6 DEF Parts, TypeOK, ClientsCovered, CallsKnown, LocksMade, HandedOver
<1> QED
  BY <1>1, <1>2, <1>3, <1>4, <1>5

LEMMA LockModelKeeps ==
  ASSUME HandoffInv, NEW s \in Server, LockModel(s) PROVE HandoffInv'
<1> USE DEF HandoffInv, LockModel
<1>6. locks' \in MaybeLock
  BY DEF TypeOK
<1>1. TypeOK'
  BY <1>6, LockModelShape DEF Parts, TypeOK
<1>2. ClientsCovered'
  BY LockModelShape, SessionParts DEF Parts, TypeOK, ClientsCovered, CallsKnown
<1>3. CallsKnown'
  BY LockModelShape, SessionParts DEF Parts, TypeOK, CallsKnown
<1>4. LocksMade'
  BY LockModelShape, SessionParts DEF Parts, TypeOK, CallsKnown, LocksMade
<1>5. HandedOver'
  BY LockModelShape, SessionParts DEF Parts, TypeOK, ClientsCovered, CallsKnown, LocksMade, HandedOver
<1> QED
  BY <1>1, <1>2, <1>3, <1>4, <1>5

LEMMA UnlockModelKeeps ==
  ASSUME HandoffInv, NEW s \in Server, UnlockModel(s) PROVE HandoffInv'
<1> USE DEF HandoffInv, UnlockModel
<1>1. TypeOK'
  BY UnlockModelShape DEF Parts, TypeOK
<1>2. ClientsCovered'
  BY UnlockModelShape DEF Parts, TypeOK, ClientsCovered, CallsKnown
<1>3. CallsKnown'
  BY UnlockModelShape DEF Parts, TypeOK, CallsKnown
<1>4. LocksMade'
  BY UnlockModelShape DEF Parts, TypeOK, CallsKnown, LocksMade
<1>5. HandedOver'
  BY UnlockModelShape DEF Parts, TypeOK, ClientsCovered, CallsKnown, LocksMade, HandedOver
<1> QED
  BY <1>1, <1>2, <1>3, <1>4, <1>5

LEMMA ReserveKeeps ==
  ASSUME HandoffInv, NEW s \in Server, NEW r \in Request, NEW l \in 1..locks,
         Reserve(s, r, l) PROVE HandoffInv'
<1> USE DEF HandoffInv, Reserve, MayReserve, Bind
<1>1. TypeOK'
  BY DEF TypeOK
<1>2. ClientsCovered'
  BY DEF TypeOK, ClientsCovered, CallsKnown
<1>3. CallsKnown'
  BY DEF TypeOK, CallsKnown
<1>4. LocksMade'
  BY DEF TypeOK, CallsKnown, LocksMade
<1>5. HandedOver'
  BY DEF TypeOK, ClientsCovered, CallsKnown, LocksMade, HandedOver
<1> QED
  BY <1>1, <1>2, <1>3, <1>4, <1>5

LEMMA ArmAgainKeeps ==
  ASSUME HandoffInv, NEW s \in Server, ArmAgain(s) PROVE HandoffInv'
<1> USE DEF HandoffInv, ArmAgain, Arm
<1>6. /\ pc[s] = "arm" /\ UNCHANGED <<session, lease, record, job, stored, alive, locks>>
      /\ \/ Arm(s) /\ Goto(s, "find") /\ call' = call
         \/ Goto(s, "idle") /\ call' = [call EXCEPT ![s] = NoCall] /\ guard' = guard
      /\ (faults' = faults) \/ (faults < MaxFaults /\ faults' = faults + 1)
  OBVIOUS
<1>7. call[s].request \in Request
  BY DEF TypeOK, CallsKnown
<1>1. TypeOK'
  <2>1. guard' \in [Request -> Server \cup {None}]
    BY <1>6, <1>7 DEF TypeOK
  <2>2. call' \in [Server -> Call]
    BY <1>6 DEF TypeOK
  <2>3. pc' \in [Server -> Pcs] /\ faults' \in 0..MaxFaults
    BY <1>6 DEF TypeOK
  <2> QED
    BY <1>6, <2>1, <2>2, <2>3 DEF TypeOK
<1>2. ClientsCovered'
  BY DEF TypeOK, ClientsCovered, CallsKnown
<1>3. CallsKnown'
  BY DEF TypeOK, CallsKnown
<1>4. LocksMade'
  BY DEF TypeOK, CallsKnown, LocksMade
<1>5. HandedOver'
  BY DEF TypeOK, ClientsCovered, CallsKnown, LocksMade, HandedOver
<1> QED
  BY <1>1, <1>2, <1>3, <1>4, <1>5

LEMMA FindReceiptKeeps ==
  ASSUME HandoffInv, NEW s \in Server, FindReceipt(s) PROVE HandoffInv'
<1> USE DEF HandoffInv, FindReceipt, Receipts
<1>1. TypeOK'
  BY DEF TypeOK
<1>2. ClientsCovered'
  BY DEF TypeOK, ClientsCovered, CallsKnown
<1>3. CallsKnown'
  BY DEF TypeOK, CallsKnown
<1>4. LocksMade'
  BY DEF TypeOK, CallsKnown, LocksMade
<1>5. HandedOver'
  BY DEF TypeOK, ClientsCovered, CallsKnown, LocksMade, HandedOver
<1> QED
  BY <1>1, <1>2, <1>3, <1>4, <1>5

LEMMA PrepareKeeps ==
  ASSUME HandoffInv, NEW s \in Server, Prepare(s) PROVE HandoffInv'
<1> USE DEF HandoffInv, Prepare
<1>1. TypeOK'
  BY DEF TypeOK
<1>2. ClientsCovered'
  BY DEF TypeOK, ClientsCovered, CallsKnown
<1>3. CallsKnown'
  BY DEF TypeOK, CallsKnown
<1>4. LocksMade'
  BY DEF TypeOK, CallsKnown, LocksMade
<1>5. HandedOver'
  BY DEF TypeOK, ClientsCovered, CallsKnown, LocksMade, HandedOver
<1> QED
  BY <1>1, <1>2, <1>3, <1>4, <1>5

LEMMA KeepReceiptKeeps ==
  ASSUME HandoffInv, NEW s \in Server, KeepReceipt(s) PROVE HandoffInv'
<1> USE DEF HandoffInv, KeepReceipt
<1>1. TypeOK'
  <2>1. call[s].lock \in ModelLock
    BY DEF TypeOK, CallsKnown
  <2>2. stored' \subseteq ModelLock /\ pc' \in [Server -> Pcs] /\ faults' \in 0..MaxFaults
    BY <2>1 DEF TypeOK
  <2> QED
    BY <2>2, KeepReceiptShape DEF Parts, TypeOK
<1>2. ClientsCovered'
  BY KeepReceiptShape DEF Parts, TypeOK, ClientsCovered, CallsKnown
<1>3. CallsKnown'
  BY KeepReceiptShape DEF Parts, TypeOK, CallsKnown
<1>4. LocksMade'
  BY KeepReceiptShape DEF Parts, TypeOK, CallsKnown, LocksMade
<1>5. HandedOver'
  BY KeepReceiptShape DEF Parts, TypeOK, ClientsCovered, CallsKnown, LocksMade, HandedOver
<1> QED
  BY <1>1, <1>2, <1>3, <1>4, <1>5

LEMMA RecordHandoffKeeps ==
  ASSUME HandoffInv, NEW s \in Server, RecordHandoff(s) PROVE HandoffInv'
<1> USE DEF HandoffInv, RecordHandoff
<1>6. call[s].request \in Request /\ record[call[s].request] # None
  BY DEF TypeOK, CallsKnown
<1>7. ReceiptMayBe(call[s].lock)
  BY <1>6, RecordShape
<1>8. /\ pc[s] = "record" /\ UNCHANGED <<session, lease, guard, job, stored, alive, call, locks>>
      /\ Goto(s, "submit") \/ Goto(s, "answer")
      /\ (faults' = faults) \/ (faults < MaxFaults /\ faults' = faults + 1)
  OBVIOUS
<1>9. /\ locks \in Nat /\ pc \in [Server -> Pcs]
      /\ \A q \in Request : record[q] # None =>
            record[q].source \in Nat /\ record[q].receipt \in Nat
      /\ call[s].lock \in 0..locks
  BY DEF TypeOK, LocksMade
<1> HIDE DEF RecordHandoff, Binding
<1>1. TypeOK'
  BY <1>6, <1>7, <1>8 DEF ReceiptMayBe, TypeOK
<1>2. ClientsCovered'
  BY <1>6, <1>7, <1>8 DEF ReceiptMayBe, TypeOK, ClientsCovered, CallsKnown
<1>3. CallsKnown'
  BY <1>6, <1>7, <1>8 DEF ReceiptMayBe, TypeOK, CallsKnown
<1>4. LocksMade'
  BY <1>7, <1>8, <1>9 DEF ReceiptMayBe, LocksMade
<1>5. HandedOver'
  BY <1>6, <1>7, <1>8, <1>9 DEF ReceiptMayBe, CallsKnown, HandedOver
<1> QED
  BY <1>1, <1>2, <1>3, <1>4, <1>5

LEMMA SubmitJobKeeps ==
  ASSUME HandoffInv, NEW s \in Server, SubmitJob(s) PROVE HandoffInv'
<1> USE DEF HandoffInv, SubmitJob
<1>6. /\ call[s].request \in Request /\ job[call[s].request] = "none"
      /\ record[call[s].request] \in Binding /\ record[call[s].request].source = call[s].lock
  BY DEF TypeOK, CallsKnown
<1>1. TypeOK'
  <2>1. job' \in [Request -> JobState]
    BY <1>6 DEF TypeOK
  <2>2. (\E step \in Pcs : Goto(s, step)) /\ faults' \in 0..MaxFaults
    <3>1. \E step \in {"dispatch", "answer", "reclaim"} : Goto(s, step)
      OBVIOUS
    <3>2. faults' \in 0..MaxFaults
      BY DEF TypeOK
    <3> QED
      BY <3>1, <3>2
  <2> QED
    BY <2>1, <2>2 DEF TypeOK
<1>2. ClientsCovered'
  BY <1>6 DEF TypeOK, ClientsCovered, CallsKnown
<1>3. CallsKnown'
  BY <1>6 DEF TypeOK, CallsKnown
<1>4. LocksMade'
  BY <1>6 DEF TypeOK, CallsKnown, LocksMade
<1>5. HandedOver'
  BY <1>6 DEF TypeOK, ClientsCovered, CallsKnown, LocksMade, HandedOver
<1> QED
  BY <1>1, <1>2, <1>3, <1>4, <1>5

LEMMA DispatchKeeps ==
  ASSUME HandoffInv, NEW s \in Server, Dispatch(s) PROVE HandoffInv'
<1> USE DEF HandoffInv, Dispatch
<1>6. call[s].request \in Request /\ record[call[s].request] # None
  BY DEF TypeOK, CallsKnown
<1>7. ReceiptMayBe(0)
  BY <1>6, DispatchShape
<1>8. /\ pc[s] = "dispatch" /\ UNCHANGED <<session, lease, guard, job, stored, alive, call, locks>>
      /\ Goto(s, "launch") \/ Goto(s, "reclaim")
      /\ (faults' = faults) \/ (faults < MaxFaults /\ faults' = faults + 1)
  OBVIOUS
<1>9. /\ locks \in Nat /\ pc \in [Server -> Pcs]
      /\ \A q \in Request : record[q] # None =>
            record[q].source \in Nat /\ record[q].receipt \in Nat
      /\ call[s].lock \in 0..locks
  BY DEF TypeOK, LocksMade
<1> HIDE DEF Dispatch, Binding
<1>1. TypeOK'
  BY <1>6, <1>7, <1>8 DEF ReceiptMayBe, TypeOK
<1>2. ClientsCovered'
  BY <1>6, <1>7, <1>8 DEF ReceiptMayBe, TypeOK, ClientsCovered, CallsKnown
<1>3. CallsKnown'
  BY <1>6, <1>7, <1>8 DEF ReceiptMayBe, TypeOK, CallsKnown
<1>4. LocksMade'
  BY <1>7, <1>8, <1>9 DEF ReceiptMayBe, LocksMade
<1>5. HandedOver'
  BY <1>6, <1>7, <1>8 DEF ReceiptMayBe, TypeOK, ClientsCovered, CallsKnown, LocksMade, HandedOver
<1> QED
  BY <1>1, <1>2, <1>3, <1>4, <1>5

LEMMA LaunchKeeps ==
  ASSUME HandoffInv, NEW s \in Server, Launch(s) PROVE HandoffInv'
<1> USE DEF HandoffInv, Launch
<1>6. call[s].request \in Request /\ job[call[s].request] = "published"
  BY DEF TypeOK, CallsKnown
<1>1. TypeOK'
  BY <1>6 DEF TypeOK
<1>2. ClientsCovered'
  BY <1>6 DEF TypeOK, ClientsCovered, CallsKnown
<1>3. CallsKnown'
  BY <1>6 DEF TypeOK, CallsKnown
<1>4. LocksMade'
  BY <1>6 DEF TypeOK, CallsKnown, LocksMade
<1>5. HandedOver'
  BY <1>6 DEF TypeOK, ClientsCovered, CallsKnown, LocksMade, HandedOver
<1> QED
  BY <1>1, <1>2, <1>3, <1>4, <1>5

LEMMA ReclaimKeeps ==
  ASSUME HandoffInv, NEW s \in Server, Reclaim(s) PROVE HandoffInv'
<1> USE DEF HandoffInv, Reclaim, Acquire
<1>6. Repurposed(s) /\ call'[s].purpose = "reclaim"
  BY ReclaimCall
<1>7. /\ pc[s] = "reclaim" /\ UNCHANGED <<session, binding, alive, locks>>
      /\ \/ session[s].client = "none" /\ lease = None /\ lease' = s /\ Goto(s, "connect")
         \/ lease' = lease /\ Goto(s, "answer")
      /\ (faults' = faults) \/ (faults < MaxFaults /\ faults' = faults + 1)
  OBVIOUS
<1>8. /\ locks \in Nat /\ pc \in [Server -> Pcs]
      /\ \A t \in Server : call'[t].lock = call[t].lock
  BY <1>6 DEF Repurposed, TypeOK
<1> HIDE DEF Reclaim, Call
<1>1. TypeOK'
  BY <1>6, <1>7 DEF Repurposed, TypeOK
<1>2. ClientsCovered'
  BY <1>6, <1>7 DEF Repurposed, TypeOK, ClientsCovered, CallsKnown
<1>3. CallsKnown'
  BY <1>6, <1>7 DEF Repurposed, TypeOK, CallsKnown
<1>4. LocksMade'
  BY <1>7, <1>8 DEF CallsKnown, LocksMade
<1>5. HandedOver'
  BY <1>6, <1>7, <1>8 DEF Parts, SameButClient, Repurposed, CallsKnown, LocksMade, HandedOver
<1> QED
  BY <1>1, <1>2, <1>3, <1>4, <1>5

LEMMA ReadoptKeeps ==
  ASSUME HandoffInv, NEW s \in Server, Readopt(s) PROVE HandoffInv'
<1> USE DEF HandoffInv, Readopt
<1>6. /\ Parts(s, session[s].client, session[s].lock, session[s].memory)
      /\ Repurposed(s) /\ call'[s].purpose \in {call[s].purpose, "give_up"}
  BY ReadoptShape, ReadoptCall
<1>7. /\ pc[s] = "readopt" /\ UNCHANGED <<lease, binding, alive, locks>>
      /\ \/ Goto(s, "answer")
         \/ call'[s].purpose = "give_up" /\ Goto(s, "disconnect")
      /\ (faults' = faults) \/ (faults < MaxFaults /\ faults' = faults + 1)
  <2>1. CASE call' = [call EXCEPT ![s].purpose = "give_up"] /\ Goto(s, "disconnect") /\ Fault
    <3>1. call'[s].purpose = "give_up"
      BY <2>1, PurposeField DEF TypeOK
    <3> QED
      BY <2>1, <3>1
  <2>2. CASE Goto(s, "answer") /\ NoFault
    BY <2>2
  <2> QED
    BY <2>1, <2>2
<1> HIDE DEF Readopt, Call
<1>1. TypeOK'
  BY <1>6, <1>7 DEF Parts, Repurposed, TypeOK
<1>2. ClientsCovered'
  BY <1>6, <1>7 DEF Parts, Repurposed, TypeOK, ClientsCovered, CallsKnown
<1>3. CallsKnown'
  BY <1>6, <1>7 DEF Parts, Repurposed, TypeOK, CallsKnown
<1>4. LocksMade'
  BY <1>6, <1>7 DEF Parts, Repurposed, TypeOK, CallsKnown, LocksMade
<1>5. HandedOver'
  BY <1>6, <1>7 DEF Parts, Repurposed, TypeOK, ClientsCovered, CallsKnown, LocksMade, HandedOver
<1> QED
  BY <1>1, <1>2, <1>3, <1>4, <1>5

LEMMA AnswerKeeps ==
  ASSUME HandoffInv, NEW s \in Server, Answer(s) PROVE HandoffInv'
<1> USE DEF HandoffInv, Answer
<1>1. TypeOK'
  BY DEF TypeOK
<1>2. ClientsCovered'
  BY DEF TypeOK, ClientsCovered, CallsKnown
<1>3. CallsKnown'
  BY DEF TypeOK, CallsKnown
<1>4. LocksMade'
  BY DEF TypeOK, CallsKnown, LocksMade
<1>5. HandedOver'
  BY DEF TypeOK, ClientsCovered, CallsKnown, LocksMade, HandedOver
<1> QED
  BY <1>1, <1>2, <1>3, <1>4, <1>5

LEMMA WorkerStartsKeeps ==
  ASSUME HandoffInv, NEW r \in Request, WorkerStarts(r) PROVE HandoffInv'
<1> USE DEF HandoffInv, WorkerStarts
<1>1. TypeOK'
  BY DEF TypeOK
<1>2. ClientsCovered'
  BY DEF TypeOK, ClientsCovered, CallsKnown
<1>3. CallsKnown'
  BY DEF TypeOK, CallsKnown
<1>4. LocksMade'
  BY DEF TypeOK, CallsKnown, LocksMade
<1>5. HandedOver'
  BY DEF TypeOK, ClientsCovered, CallsKnown, LocksMade, HandedOver
<1> QED
  BY <1>1, <1>2, <1>3, <1>4, <1>5

LEMMA WorkerEndsKeeps ==
  ASSUME HandoffInv, NEW r \in Request, WorkerEnds(r) PROVE HandoffInv'
<1> USE DEF HandoffInv, WorkerEnds
<1>1. TypeOK'
  BY DEF TypeOK
<1>2. ClientsCovered'
  BY DEF TypeOK, ClientsCovered, CallsKnown
<1>3. CallsKnown'
  BY DEF TypeOK, CallsKnown
<1>4. LocksMade'
  BY DEF TypeOK, CallsKnown, LocksMade
<1>5. HandedOver'
  BY DEF TypeOK, ClientsCovered, CallsKnown, LocksMade, HandedOver
<1> QED
  BY <1>1, <1>2, <1>3, <1>4, <1>5

LEMMA RecoverLeaseKeeps ==
  ASSUME HandoffInv, RecoverLease PROVE HandoffInv'
<1> USE DEF HandoffInv, RecoverLease
<1>1. TypeOK'
  BY DEF TypeOK
<1>2. ClientsCovered'
  BY DEF TypeOK, ClientsCovered, CallsKnown
<1>3. CallsKnown'
  BY DEF TypeOK, CallsKnown
<1>4. LocksMade'
  BY DEF TypeOK, CallsKnown, LocksMade
<1>5. HandedOver'
  BY DEF TypeOK, ClientsCovered, CallsKnown, LocksMade, HandedOver
<1> QED
  BY <1>1, <1>2, <1>3, <1>4, <1>5

LEMMA DieKeeps ==
  ASSUME HandoffInv, NEW s \in Server, Die(s) PROVE HandoffInv'
<1> USE DEF HandoffInv, Die
<1>6. Parts(s, "none", 0, 0)
  BY DieParts
<1>7. /\ s \in alive /\ alive' = alive \ {s}
      /\ call' = [call EXCEPT ![s] = NoCall]
      /\ Goto(s, "down")
      /\ UNCHANGED <<lease, binding, locks, faults>>
  OBVIOUS
<1>8. /\ locks \in Nat /\ pc \in [Server -> Pcs]
      /\ \A t \in Server : session'[t].lock \in {0, session[t].lock} /\ session'[t].memory \in {0, session[t].memory}
  BY <1>6 DEF Parts, SameButClient, TypeOK
<1> HIDE DEF Die
<1>1. TypeOK'
  BY <1>6, <1>7 DEF Parts, TypeOK
<1>2. ClientsCovered'
  BY <1>6, <1>7 DEF Parts, TypeOK, ClientsCovered, CallsKnown
<1>3. CallsKnown'
  BY <1>6, <1>7 DEF Parts, TypeOK, CallsKnown
<1>4. LocksMade'
  BY <1>7, <1>8 DEF CallsKnown, LocksMade
<1>5. HandedOver'
  BY <1>6, <1>7, <1>8 DEF Parts, SameButClient, Repurposed, CallsKnown, LocksMade, HandedOver
<1> QED
  BY <1>1, <1>2, <1>3, <1>4, <1>5

-----------------------------------------------------------------------------
(* The theorems                                                            *)

LEMMA NextKeeps == HandoffInv /\ [Next]_vars => HandoffInv'
<1> SUFFICES ASSUME HandoffInv, [Next]_vars PROVE HandoffInv'
  OBVIOUS
<1> HIDE DEF InFlow, EarlyPcs, Binding, Call, NoCall, JobState, SessionPcs, FlowPcs, Pcs,
             ModelLock, MaybeLock, Goto, Abandon, Fault, NoFault, binding
<1>1. ASSUME NEW s \in Server, Step(s) PROVE HandoffInv'
  BY <1>1, ConnectKeeps, DisconnectKeeps, ReleaseKeeps, ConfirmKeeps, ArmAgainKeeps,
     FindReceiptKeeps, PrepareKeeps, KeepReceiptKeeps, RecordHandoffKeeps, SubmitJobKeeps,
     DispatchKeeps, LaunchKeeps, ReclaimKeeps, ReadoptKeeps, AnswerKeeps
  DEF Step
<1>2. ASSUME NEW s \in Server, Tool(s) PROVE HandoffInv'
  BY <1>2, AttachKeeps, DetachKeeps, AdoptModelKeeps, LockModelKeeps, UnlockModelKeeps DEF Tool
<1>3. ASSUME NEW s \in Server, Submit(s) PROVE HandoffInv'
  BY <1>3, ReserveKeeps DEF Submit
<1>4. CASE UNCHANGED vars
  BY <1>4 DEF vars, HandoffInv, TypeOK, ClientsCovered, CallsKnown, LocksMade, HandedOver, InFlow
<1> QED
  BY <1>1, <1>2, <1>3, <1>4, DieKeeps, WorkerStartsKeeps, WorkerEndsKeeps, RecoverLeaseKeeps DEF Next

\* The sessions, the durable evidence and the calls agree in every reachable
\* state: this is what _lock, the solver lease, .submit.lock and the guard of
\* the request give together.
THEOREM HandoffInvariant == Spec => []HandoffInv
  BY Initially, NextKeeps, PTL DEF Spec

\* A model has one owner: a live session with a client holds the solver lease,
\* and no session holds a lock with which a job was submitted (lifecycle.py,
\* prepare_attached_job_handoff and detach).
THEOREM OneOwnerHolds == Spec => []OneOwner
<1>1. HandoffInv => OneOwner
  BY DEF HandoffInv, TypeOK, ClientsCovered, HandedOver, OneOwner
<1> QED
  BY <1>1, HandoffInvariant, PTL

\* recover_attached_job_handoff begins only for a job that nobody launched and
\* that no other server is submitting.
THEOREM ReclaimsOnlyUnlaunchedHolds == Spec => ReclaimsOnlyUnlaunched
<1> DEFINE Safe == \A s \in Server : \A r \in Request :
                      pc[s] = "reclaim" /\ pc'[s] = "connect" /\ InFlow(s, r) =>
                          /\ job[r] \in {"none", "published"}
                          /\ \A t \in Server \ {s} : ~InFlow(t, r)
<1>1. HandoffInv => Safe
  BY DEF HandoffInv, TypeOK, CallsKnown
<1>2. HandoffInv /\ [Next]_vars => [Safe]_vars
  BY <1>1
<1> QED
  BY <1>2, HandoffInvariant, PTL DEF Spec, ReclaimsOnlyUnlaunched

=============================================================================
