------------------------- MODULE ClusterObjectsProofs -------------------------
(***************************************************************************)
(* ClusterObjects implements AtomicObjects, the rules of a namespace stay, *)
(* and bindings have their roles: for every set of calls and of names and  *)
(* for any number of failures.                                             *)
(***************************************************************************)
EXTENDS ClusterObjects, TLAPS

Value == [o \in ObjectKeys |-> object[o].value]

\* Resource versions never pass the last one that was given.
ObjectInv ==
  /\ version \in Nat
  /\ object = [o \in ObjectKeys |-> [value |-> object[o].value, rv |-> object[o].rv]]
  /\ \A o \in ObjectKeys : object[o].rv \in Nat /\ object[o].rv <= version

\* What a call is about to do is a write; one that is about to put has read the
\* object as it is, if the object still has the version that was read.
CallOK(c) ==
  /\ call[c] = [pc |-> call[c].pc, todo |-> call[c].todo, seen |-> call[c].seen,
                base |-> call[c].base]
  /\ call[c].todo \in Seq(Writes)
  /\ call[c].pc \in {"create", "get", "put", "delete"} => call[c].todo # <<>>
  /\ call[c].pc = "create" => Now(c).op \in Creating \ {"Delete"}
  /\ call[c].pc \in {"get", "put"} => Now(c).op \notin {"Delete", "CreateNamespace"}
  /\ call[c].pc = "delete" => Now(c).op \in {"Delete", "DeleteNamespace"}
  /\ call[c].pc = "put" =>
       /\ call[c].seen \in Nat /\ call[c].seen <= version
       /\ There(Now(c).key) /\ object[Now(c).key].rv = call[c].seen =>
            call[c].base = object[Now(c).key].value

CallInv == call = [c \in Calls |-> call[c]] /\ \A c \in Calls : CallOK(c)

ClusterInv == ObjectInv /\ CallInv

-----------------------------------------------------------------------------
(* Writes and requests.                                                    *)

LEMMA Keys ==
  /\ ObjectKeys = {"node", "namespace", "deployment", "service", "deny", "allow", "secret",
                   "quota", "limits", "claim", "ingress", "issuer", "application",
                   "repository", "traefik", "role", "binding"}
  /\ InNamespace \cup {"namespace"} \subseteq ObjectKeys
  BY DEF ObjectKeys, Fields, InNamespace

RequestKinds ==
  /\ \A request \in Requests : request \in Seq(Writes) /\ request # <<>>
  /\ \A w \in Writes : w.key \in ObjectKeys

\* A request is a sequence of writes of objects that there are.
LEMMA RequestsAreWrites == RequestKinds
  <1>1. ASSUME NEW request \in Requests
        PROVE  /\ request \in Seq(Writes) /\ request # <<>>
               /\ \A i \in DOMAIN request : request[i].key \in ObjectKeys
    <2>1. \/ \E a : request = <<a>> /\ a.key \in ObjectKeys
          \/ \E a, b : request = <<a, b>> /\ a.key \in ObjectKeys /\ b.key \in ObjectKeys
          \/ \E a, b, c, d, e : request = <<a, b, c, d, e>> /\ a.key \in ObjectKeys
               /\ b.key \in ObjectKeys /\ c.key \in ObjectKeys /\ d.key \in ObjectKeys
               /\ e.key \in ObjectKeys
      BY Keys DEF Requests, Change, Delete, ApplyNetworkPoliciesForPorts,
         UpsertNamespacePermission, ApplyProjectCertificateIssuer, ApplyControllerAccess,
         ApplyBasaltPass, DeleteNamespacePermission
    <2>2. \A i \in DOMAIN request : request[i] \in Writes
      BY DEF Writes
    <2>3. CASE \E a : request = <<a>> /\ a.key \in ObjectKeys
      <3>1. PICK a : request = <<a>> /\ a.key \in ObjectKeys
        BY <2>3
      <3>2. a \in Writes
        BY <2>2, <3>1
      <3> QED
        BY <3>1, <3>2
    <2>4. CASE \E a, b : request = <<a, b>> /\ a.key \in ObjectKeys /\ b.key \in ObjectKeys
      <3>1. PICK a, b : request = <<a, b>> /\ a.key \in ObjectKeys /\ b.key \in ObjectKeys
        BY <2>4
      <3>2. a \in Writes /\ b \in Writes
        BY <2>2, <3>1
      <3> QED
        BY <3>1, <3>2
    <2>5. CASE \E a, b, c, d, e : request = <<a, b, c, d, e>> /\ a.key \in ObjectKeys
               /\ b.key \in ObjectKeys /\ c.key \in ObjectKeys /\ d.key \in ObjectKeys
               /\ e.key \in ObjectKeys
      <3>1. PICK a, b, c, d, e : request = <<a, b, c, d, e>> /\ a.key \in ObjectKeys
               /\ b.key \in ObjectKeys /\ c.key \in ObjectKeys /\ d.key \in ObjectKeys
               /\ e.key \in ObjectKeys
        BY <2>5
      <3>2. a \in Writes /\ b \in Writes /\ c \in Writes /\ d \in Writes /\ e \in Writes
        BY <2>2, <3>1
      <3> QED
        BY <3>1, <3>2
    <2> QED
      BY <2>1, <2>3, <2>4, <2>5
  <1>2. ASSUME NEW w \in Writes PROVE w.key \in ObjectKeys
    BY <1>1 DEF Writes
  <1> QED
    BY <1>1, <1>2 DEF RequestKinds

LEMMA FirstPcFacts ==
  ASSUME NEW w
  PROVE  /\ FirstPc(w) \in {"create", "get", "delete"}
         /\ FirstPc(w) = "create" => w.op \in Creating \ {"Delete"}
         /\ FirstPc(w) = "get" => w.op \notin {"Delete", "CreateNamespace"}
         /\ FirstPc(w) = "delete" => w.op \in {"Delete", "DeleteNamespace"}
  BY DEF FirstPc, Creating, CreateFirst

-----------------------------------------------------------------------------
(* What the steps do to objects.                                           *)

\* Objects that change get a version of their own, or go.
Forward ==
  /\ version' \in Nat /\ version <= version'
  /\ \A o \in ObjectKeys :
       \/ object'[o] = object[o]
       \/ object'[o].rv > version
       \/ object'[o].value = Gone

\* A call that does nothing stays as it was, whatever others write.
LEMMA OtherCalls ==
  ASSUME ObjectInv, NEW c \in Calls, CallOK(c), Forward, call'[c] = call[c]
  PROVE  CallOK(c)'
  <1>1. Now(c)' = Now(c)
    BY DEF Now
  <1>2. CASE call[c].pc = "put"
    <2>1. Now(c) \in Writes
      BY <1>2 DEF CallOK, Now
    <2>2. Now(c).key \in ObjectKeys
      BY <2>1, RequestsAreWrites DEF RequestKinds
    <2>3. call[c].seen \in Nat /\ call[c].seen <= version /\ version' \in Nat /\ version <= version'
      BY <1>2 DEF CallOK, Forward
    <2>4. There(Now(c).key)' /\ object'[Now(c).key].rv = call[c].seen =>
            call[c].base = object'[Now(c).key].value
      <3> SUFFICES ASSUME object'[Now(c).key].value # Gone, object'[Now(c).key].rv = call[c].seen
                   PROVE  call[c].base = object'[Now(c).key].value
        BY <1>1 DEF There
      <3>1. \/ object'[Now(c).key] = object[Now(c).key]
            \/ object'[Now(c).key].rv > version
            \/ object'[Now(c).key].value = Gone
        BY <2>2 DEF Forward
      <3>2. ~(object'[Now(c).key].rv > version)
        BY <2>3 DEF ObjectInv
      <3>3. object'[Now(c).key] = object[Now(c).key]
        BY <3>1, <3>2
      <3> QED
        BY <1>2, <3>3 DEF CallOK, There
    <2> QED
      <3>1. call[c].todo \in Seq(Writes) /\ call[c].todo # <<>>
              /\ Now(c).op \notin {"Delete", "CreateNamespace"}
        BY <1>2 DEF CallOK
      <3>2. call'[c] = [pc |-> call'[c].pc, todo |-> call'[c].todo, seen |-> call'[c].seen,
                        base |-> call'[c].base]
        BY DEF CallOK
      <3>3. call'[c].pc = "put" /\ call'[c].todo = call[c].todo /\ call'[c].seen = call[c].seen
              /\ call'[c].base = call[c].base
        BY <1>2
      <3>4. call'[c].seen \in Nat /\ call'[c].seen <= version'
        BY <2>3, <3>3 DEF ObjectInv
      <3>5. There(Now(c).key)' /\ object'[Now(c).key].rv = call'[c].seen =>
              call'[c].base = object'[Now(c).key].value
        BY <2>4, <3>3
      <3> QED
        BY <1>1, <3>1, <3>2, <3>3, <3>4, <3>5 DEF CallOK
  <1>3. CASE call[c].pc # "put"
    BY <1>1, <1>3 DEF CallOK
  <1> QED
    BY <1>2, <1>3

LEMMA ValueChange ==
  ASSUME NEW o \in ObjectKeys, NEW v, object'[o].value = v,
         \A p \in ObjectKeys : p # o => object'[p].value = object[p].value
  PROVE  Value' = [Value EXCEPT ![o] = v]
  <1>1. Value' = [p \in ObjectKeys |-> object'[p].value]
    BY DEF Value, ObjectKeys, Fields
  <1>2. [Value EXCEPT ![o] = v] = [p \in ObjectKeys |-> IF p = o THEN v ELSE object[p].value]
    BY DEF Value
  <1> QED
    BY <1>1, <1>2

LEMMA StoreFacts ==
  ASSUME ObjectInv, NEW o \in ObjectKeys, NEW v, Store(o, v)
  PROVE  ObjectInv' /\ Forward /\ Value' = [Value EXCEPT ![o] = v]
  <1>1. CASE object[o].value = v
    BY <1>1 DEF Store, ObjectInv, Forward, Value
  <1>2. CASE object[o].value # v
    <2>1. /\ version' = version + 1
          /\ object' = [object EXCEPT ![o] = [value |-> v, rv |-> version + 1]]
      BY <1>2 DEF Store
    <2>2. /\ object'[o] = [value |-> v, rv |-> version + 1]
          /\ \A p \in ObjectKeys : p # o => object'[p] = object[p]
          /\ object' = [p \in ObjectKeys |-> object'[p]]
      BY <2>1 DEF ObjectInv
    <2>3. version \in Nat /\ \A p \in ObjectKeys : object[p].rv \in Nat /\ object[p].rv <= version
            /\ object[p] = [value |-> object[p].value, rv |-> object[p].rv]
      BY DEF ObjectInv
    <2>4. ObjectInv'
      <3>1. \A p \in ObjectKeys :
              object'[p] = [value |-> object'[p].value, rv |-> object'[p].rv]
        BY <2>2, <2>3
      <3>2. \A p \in ObjectKeys : object'[p].rv \in Nat /\ object'[p].rv <= version'
        <4> SUFFICES ASSUME NEW p \in ObjectKeys
                     PROVE  object'[p].rv \in Nat /\ object'[p].rv <= version'
          OBVIOUS
        <4>1. CASE p = o
          BY <2>1, <2>2, <2>3, <4>1
        <4>2. CASE p # o
          <5>1. object'[p] = object[p]
            BY <2>2, <4>2
          <5>2. object[p].rv \in Nat /\ object[p].rv <= version
            BY <2>3
          <5> QED
            BY <2>1, <2>3, <5>1, <5>2
        <4> QED
          BY <4>1, <4>2
      <3> QED
        BY <2>1, <2>2, <2>3, <3>1, <3>2 DEF ObjectInv
    <2>5. Forward
      BY <2>1, <2>2, <2>3 DEF Forward
    <2>6. Value' = [Value EXCEPT ![o] = v]
      <3>1. object'[o].value = v /\ \A p \in ObjectKeys : p # o => object'[p].value = object[p].value
        BY <2>2
      <3> QED
        BY <3>1, ValueChange
    <2> QED
      BY <2>4, <2>5, <2>6
  <1> QED
    BY <1>1, <1>2

LEMMA EraseFacts ==
  ASSUME ObjectInv, NEW o \in ObjectKeys, Erase(o)
  PROVE  ObjectInv' /\ Forward /\ Value' = [Value EXCEPT ![o] = Gone]
  <1>1. /\ object'[o] = [value |-> Gone, rv |-> 0]
        /\ \A p \in ObjectKeys : p # o => object'[p] = object[p]
        /\ object' = [p \in ObjectKeys |-> object'[p]]
        /\ version' = version
    BY DEF Erase, ObjectInv
  <1>2. version \in Nat /\ \A p \in ObjectKeys : object[p].rv \in Nat /\ object[p].rv <= version
          /\ object[p] = [value |-> object[p].value, rv |-> object[p].rv]
    BY DEF ObjectInv
  <1>3. ObjectInv'
    <2>1. \A p \in ObjectKeys :
            object'[p] = [value |-> object'[p].value, rv |-> object'[p].rv]
      BY <1>1, <1>2
    <2>2. \A p \in ObjectKeys : object'[p].rv \in Nat /\ object'[p].rv <= version'
      <3> SUFFICES ASSUME NEW p \in ObjectKeys
                   PROVE  object'[p].rv \in Nat /\ object'[p].rv <= version'
        OBVIOUS
      <3>1. CASE p = o
        BY <1>1, <1>2, <3>1
      <3>2. CASE p # o
        <4>1. object'[p] = object[p]
          BY <1>1, <3>2
        <4>2. object[p].rv \in Nat /\ object[p].rv <= version
          BY <1>2
        <4> QED
          BY <1>1, <4>1, <4>2
      <3> QED
        BY <3>1, <3>2
    <2> QED
      BY <1>1, <1>2, <2>1, <2>2 DEF ObjectInv
  <1>4. Forward
    BY <1>1, <1>2 DEF Forward
  <1>5. Value' = [Value EXCEPT ![o] = Gone]
    <2>1. object'[o].value = Gone
            /\ \A p \in ObjectKeys : p # o => object'[p].value = object[p].value
      BY <1>1
    <2> QED
      BY <2>1, ValueChange
  <1> QED
    BY <1>3, <1>4, <1>5

\* One write of the abstract specification, with what it leaves true.
OneWrite(c) ==
  /\ ObjectInv' /\ Forward
  /\ Now(c) \in Writes
  /\ Value' = [Value EXCEPT ![Now(c).key] = Applied(Now(c), @)]

LEMMA NowFacts ==
  ASSUME ClusterInv, NEW c \in Calls, call[c].pc \in {"create", "get", "put", "delete"}
  PROVE  Now(c) \in Writes /\ Now(c).key \in ObjectKeys
  <1>1. Now(c) \in Writes
    BY DEF ClusterInv, CallInv, CallOK, Now
  <1> QED
    BY <1>1, RequestsAreWrites DEF RequestKinds

LEMMA CreateStep ==
  ASSUME ClusterInv, NEW c \in Calls, call[c].pc = "create", CreateEffect(c)
  PROVE  OneWrite(c)
  <1>1. Now(c) \in Writes /\ Now(c).key \in ObjectKeys
    BY NowFacts
  <1>2. Applied(Now(c), object[Now(c).key].value) = Written(Now(c), Empty(Now(c).key))
    BY DEF ClusterInv, CallInv, CallOK, CreateEffect, There, Applied
  <1>3. Store(Now(c).key, Written(Now(c), Empty(Now(c).key)))
    BY DEF CreateEffect
  <1>4. Value[Now(c).key] = object[Now(c).key].value
    BY <1>1 DEF Value
  <1> HIDE DEF Now, Written, Empty
  <1> QED
    BY <1>1, <1>2, <1>3, <1>4, StoreFacts DEF OneWrite, ClusterInv

LEMMA PutStep ==
  ASSUME ClusterInv, NEW c \in Calls, call[c].pc = "put", PutEffect(c)
  PROVE  OneWrite(c)
  <1>1. Now(c) \in Writes /\ Now(c).key \in ObjectKeys
    BY NowFacts
  <1>2. call[c].base = object[Now(c).key].value
    BY DEF ClusterInv, CallInv, CallOK, PutEffect
  <1>3. Applied(Now(c), object[Now(c).key].value) = Written(Now(c), call[c].base)
    BY <1>2 DEF ClusterInv, CallInv, CallOK, PutEffect, There, Applied
  <1>4. Store(Now(c).key, Written(Now(c), call[c].base))
    BY DEF PutEffect
  <1>5. Value[Now(c).key] = object[Now(c).key].value
    BY <1>1 DEF Value
  <1> QED
    BY <1>1, <1>3, <1>4, <1>5, StoreFacts DEF OneWrite, ClusterInv

LEMMA DeleteStep ==
  ASSUME ClusterInv, NEW c \in Calls, call[c].pc = "delete", DeleteEffect(c)
  PROVE  OneWrite(c)
  <1>1. Now(c) \in Writes /\ Now(c).key \in ObjectKeys
    BY NowFacts
  <1>2. Value[Now(c).key] = object[Now(c).key].value
    BY <1>1 DEF Value
  <1>3. CASE Now(c).op = "Delete"
    <2>1. Applied(Now(c), Value[Now(c).key]) = Gone
      BY <1>3 DEF Applied
    <2> QED
      BY <1>1, <1>3, <2>1, EraseFacts DEF DeleteEffect, OneWrite, ClusterInv
  <1>4. CASE Now(c).op # "Delete"
    <2>1. Store(Now(c).key, Applied(Now(c), object[Now(c).key].value))
      BY <1>4 DEF DeleteEffect
    <2> HIDE DEF Now, Applied
    <2> QED
      BY <1>1, <1>2, <2>1, StoreFacts DEF OneWrite, ClusterInv
  <1> QED
    BY <1>3, <1>4

-----------------------------------------------------------------------------
(* What the steps do to calls.                                             *)

\* A call that has been changed, the others as they were.
LEMMA CallsInv ==
  ASSUME ClusterInv, NEW c \in Calls, Forward, NEW record,
         call' = [call EXCEPT ![c] = record], CallOK(c)'
  PROVE  CallInv'
  <1>1. \A d \in Calls : d # c => call'[d] = call[d]
    BY DEF ClusterInv, CallInv
  <1>2. \A d \in Calls : CallOK(d)'
    BY <1>1, OtherCalls DEF ClusterInv, CallInv
  <1>3. call' = [d \in Calls |-> call'[d]]
    BY DEF ClusterInv, CallInv
  <1> QED
    BY <1>2, <1>3 DEF CallInv

LEMMA AdvanceInv ==
  ASSUME ClusterInv, NEW c \in Calls, Forward, Advance(c),
         call[c].pc \in {"create", "put", "delete"}
  PROVE  CallInv'
  <1> DEFINE rest == Tail(call[c].todo)
             record == [pc |-> IF rest = <<>> THEN "done" ELSE FirstPc(Head(rest)),
                        todo |-> rest, seen |-> 0, base |-> Gone]
  <1>1. rest \in Seq(Writes)
    BY DEF ClusterInv, CallInv, CallOK
  <1>2. call' = [call EXCEPT ![c] = record] /\ call'[c] = record
    BY DEF Advance, ClusterInv, CallInv
  <1>3. CallOK(c)'
    <2>1. CASE rest = <<>>
      <3>1. call'[c] = [pc |-> "done", todo |-> rest, seen |-> 0, base |-> Gone]
        BY <1>2, <2>1
      <3> HIDE DEF rest, record
      <3> QED
        BY <1>1, <3>1 DEF CallOK
    <2>2. CASE rest # <<>>
      <3>1. call'[c].pc = FirstPc(Head(rest)) /\ call'[c].todo = rest /\ Now(c)' = Head(rest)
        BY <1>2, <2>2 DEF Now
      <3>2. call'[c] = [pc |-> call'[c].pc, todo |-> call'[c].todo, seen |-> call'[c].seen,
                        base |-> call'[c].base]
        BY <1>2
      <3> HIDE DEF rest, record
      <3> QED
        BY <1>1, <2>2, <3>1, <3>2, FirstPcFacts DEF CallOK
    <2> QED
      BY <2>1, <2>2
  <1> QED
    BY <1>2, <1>3, CallsInv

LEMMA StopInv ==
  ASSUME ClusterInv, NEW c \in Calls, Forward, Stop(c)
  PROVE  CallInv'
  <1>1. call'[c] = [pc |-> "failed", todo |-> <<>>, seen |-> 0, base |-> Gone]
    BY DEF Stop, Idle, ClusterInv, CallInv
  <1>2. CallOK(c)'
    BY <1>1 DEF CallOK
  <1> QED
    BY <1>2, CallsInv DEF Stop

LEMMA GoToInv ==
  ASSUME ClusterInv, NEW c \in Calls, NEW pc \in {"create", "get"}, GoTo(c, pc),
         call[c].pc \in {"create", "get"},
         Now(c).op \in Creating \ {"Delete", "CreateNamespace"}
  PROVE  ClusterInv' /\ UNCHANGED Value
  <1>1. Forward
    BY DEF GoTo, Forward, ClusterInv, ObjectInv
  <1>2. /\ call' = [call EXCEPT ![c] = [call[c] EXCEPT !.pc = pc]]
        /\ call'[c] = [pc |-> pc, todo |-> call[c].todo, seen |-> call[c].seen,
                       base |-> call[c].base]
    BY DEF GoTo, ClusterInv, CallInv, CallOK
  <1>3. CallOK(c)'
    BY <1>2 DEF CallOK, Now, ClusterInv, CallInv
  <1>4. CallInv'
    BY <1>1, <1>2, <1>3, CallsInv
  <1> QED
    BY <1>4 DEF GoTo, ClusterInv, ObjectInv, Value

LEMMA StillInv ==
  ASSUME ClusterInv, UNCHANGED <<object, version>>
  PROVE  ObjectInv' /\ Forward /\ UNCHANGED Value
  BY DEF ClusterInv, ObjectInv, Forward, Value

-----------------------------------------------------------------------------
(* Steps.                                                                  *)

\* A step of the detailed specification is a write, or leaves the objects.
Implements(c) == ClusterInv' /\ (UNCHANGED Value \/ OneWrite(c))

LEMMA BeginImplements ==
  ASSUME ClusterInv, NEW c \in Calls, Begin(c)
  PROVE  Implements(c)
  <1>1. PICK request \in Requests :
          call' = [call EXCEPT ![c] = [Idle EXCEPT !.pc = FirstPc(Head(request)),
                                                   !.todo = request]]
    BY DEF Begin
  <1>2. request \in Seq(Writes) /\ request # <<>>
    BY RequestsAreWrites DEF RequestKinds
  <1>3. call'[c] = [pc |-> FirstPc(Head(request)), todo |-> request, seen |-> 0, base |-> Gone]
    BY <1>1 DEF Idle, ClusterInv, CallInv
  <1>4. CallOK(c)'
    BY <1>2, <1>3, FirstPcFacts DEF CallOK, Now
  <1>5. ObjectInv' /\ Forward /\ UNCHANGED Value
    BY StillInv DEF Begin
  <1> QED
    BY <1>1, <1>4, <1>5, CallsInv DEF Implements, ClusterInv

LEMMA CreateImplements ==
  ASSUME ClusterInv, NEW c \in Calls, Create(c)
  PROVE  Implements(c)
  <1>1. CASE CreateEffect(c) /\ Advance(c)
    <2>1. OneWrite(c)
      BY <1>1, CreateStep DEF Create
    <2> QED
      BY <1>1, <2>1, AdvanceInv DEF Create, OneWrite, Implements, ClusterInv
  <1>2. CASE Advance(c) /\ UNCHANGED <<object, version>>
    BY <1>2, StillInv, AdvanceInv DEF Create, Implements, ClusterInv
  <1>3. CASE Now(c).op \in CreateFirst \ {"CreateNamespace"} /\ GoTo(c, "get")
    <2>1. Now(c).op \in Creating \ {"Delete", "CreateNamespace"}
      BY <1>3 DEF CreateFirst, Creating
    <2> QED
      BY <1>3, <2>1, GoToInv DEF Create, Implements
  <1>4. CASE Refused(c)
    BY <1>4, StillInv, StopInv DEF Refused, Implements, ClusterInv
  <1> QED
    BY <1>1, <1>2, <1>3, <1>4 DEF Create

LEMMA GetImplements ==
  ASSUME ClusterInv, NEW c \in Calls, Get(c)
  PROVE  Implements(c)
  <1>1. CASE /\ call' = [call EXCEPT ![c].pc = "put", ![c].seen = object[Now(c).key].rv,
                                     ![c].base = object[Now(c).key].value]
             /\ UNCHANGED <<object, version>>
    <2>1. Now(c).key \in ObjectKeys /\ call[c].pc = "get"
      BY NowFacts DEF Get
    <2>2. /\ call'[c] = [pc |-> "put", todo |-> call[c].todo, seen |-> object[Now(c).key].rv,
                         base |-> object[Now(c).key].value]
          /\ call' = [call EXCEPT ![c] = call'[c]]
      <3>1. call = [d \in Calls |-> call[d]]
        BY DEF ClusterInv, CallInv
      <3>2. call[c] = [pc |-> call[c].pc, todo |-> call[c].todo, seen |-> call[c].seen,
                       base |-> call[c].base]
        BY DEF ClusterInv, CallInv, CallOK
      <3>3. call'[c] = [pc |-> "put", todo |-> call[c].todo, seen |-> object[Now(c).key].rv,
                        base |-> object[Now(c).key].value]
        BY <1>1, <3>1, <3>2
      <3>4. call' = [call EXCEPT ![c] = call'[c]]
        BY <1>1, <3>1
      <3> QED
        BY <3>3, <3>4
    <2>3. Now(c)' = Now(c)
      BY <2>2 DEF Now
    <2>4. CallOK(c)'
      <3>1. call[c].todo \in Seq(Writes) /\ call[c].todo # <<>>
              /\ Now(c).op \notin {"Delete", "CreateNamespace"}
        BY <2>1 DEF CallOK, ClusterInv, CallInv
      <3>2. object[Now(c).key].rv \in Nat /\ object[Now(c).key].rv <= version
        BY <2>1 DEF ClusterInv, ObjectInv
      <3>3. /\ call'[c] = [pc |-> call'[c].pc, todo |-> call'[c].todo, seen |-> call'[c].seen,
                           base |-> call'[c].base]
            /\ call'[c].pc = "put" /\ call'[c].todo = call[c].todo
            /\ call'[c].seen = object[Now(c).key].rv /\ call'[c].base = object[Now(c).key].value
        BY <2>2
      <3>4. /\ call'[c].seen \in Nat /\ call'[c].seen <= version'
            /\ call'[c].base = object'[Now(c).key].value
        BY <1>1, <3>2, <3>3
      <3> QED
        BY <2>3, <3>1, <3>3, <3>4 DEF CallOK
    <2>5. ObjectInv' /\ Forward /\ UNCHANGED Value
      BY <1>1, StillInv
    <2> QED
      BY <2>2, <2>4, <2>5, CallsInv DEF Implements, ClusterInv
  <1>2. CASE Now(c).op \in Creating \ CreateFirst /\ GoTo(c, "create")
    <2>1. Now(c).op \in Creating \ {"Delete", "CreateNamespace"}
      BY <1>2 DEF CreateFirst, Creating
    <2> QED
      BY <1>2, <2>1, GoToInv DEF Get, Implements
  <1>3. CASE Refused(c)
    BY <1>3, StillInv, StopInv DEF Refused, Implements, ClusterInv
  <1> QED
    BY <1>1, <1>2, <1>3 DEF Get

LEMMA PutImplements ==
  ASSUME ClusterInv, NEW c \in Calls, Put(c)
  PROVE  Implements(c)
  <1>1. CASE PutEffect(c) /\ Advance(c)
    <2>1. OneWrite(c)
      BY <1>1, PutStep DEF Put
    <2> QED
      BY <1>1, <2>1, AdvanceInv DEF Put, OneWrite, Implements, ClusterInv
  <1>2. CASE Refused(c)
    BY <1>2, StillInv, StopInv DEF Refused, Implements, ClusterInv
  <1> QED
    BY <1>1, <1>2 DEF Put

LEMMA RemoveImplements ==
  ASSUME ClusterInv, NEW c \in Calls, Remove(c)
  PROVE  Implements(c)
  <1>1. OneWrite(c)
    BY DeleteStep DEF Remove
  <1> QED
    BY <1>1, AdvanceInv DEF Remove, OneWrite, Implements, ClusterInv

LEMMA FailureImplements ==
  ASSUME ClusterInv, NEW c \in Calls, Failure(c)
  PROVE  Implements(c)
  <1>1. CASE UNCHANGED <<object, version>>
    BY <1>1, StillInv, StopInv DEF Failure, Implements, ClusterInv
  <1>2. CASE \/ call[c].pc = "create" /\ CreateEffect(c)
             \/ call[c].pc = "put" /\ PutEffect(c)
             \/ call[c].pc = "delete" /\ DeleteEffect(c)
    <2>1. OneWrite(c)
      BY <1>2, CreateStep, PutStep, DeleteStep
    <2> QED
      BY <2>1, StopInv DEF Failure, OneWrite, Implements, ClusterInv
  <1> QED
    BY <1>1, <1>2 DEF Failure

\* What the cluster does to a namespace that is deleted.
Collects(o) ==
  /\ o \in InNamespace \cup {"namespace"} /\ Terminating
  /\ o = "namespace" => \A p \in InNamespace : ~There(p)
  /\ ObjectInv' /\ Forward /\ Value' = [Value EXCEPT ![o] = Gone]
  /\ granted' = IF o = "allow" THEN {} ELSE granted
  /\ overlapped' = (overlapped \/
       (o = "role" /\ \E c \in Calls : Working(c) /\ Permission(Now(c).key)))
  /\ UNCHANGED <<call, failures>>

LEMMA CollectStep ==
  ASSUME ClusterInv, NEW o \in InNamespace \cup {"namespace"}, Collect(o)
  PROVE  Collects(o) /\ CallInv'
  <1>1. o \in ObjectKeys
    BY Keys
  <1>2. ObjectInv' /\ Forward /\ Value' = [Value EXCEPT ![o] = Gone]
    BY <1>1, EraseFacts DEF Collect, ClusterInv
  <1>3. call' = call
    BY DEF Collect
  <1>4. CallInv'
    BY <1>2, <1>3, OtherCalls DEF ClusterInv, CallInv
  <1> QED
    BY <1>2, <1>3, <1>4 DEF Collect, Collects

LEMMA ClusterInitInv == ClusterInit => ClusterInv /\ Atomic!Init
  <1> SUFFICES ASSUME ClusterInit PROVE ClusterInv /\ Atomic!Init
    OBVIOUS
  <1>1. PICK start \in Starts : object = [o \in ObjectKeys |-> [value |-> start[o], rv |-> 0]]
    BY DEF ClusterInit
  <1>2. ObjectInv
    BY <1>1 DEF ClusterInit, ObjectInv
  <1>3. CallInv
    <2>1. \A c \in Calls : call[c] = [pc |-> "idle", todo |-> <<>>, seen |-> 0, base |-> Gone]
      BY DEF ClusterInit, Idle
    <2>2. \A c \in Calls : CallOK(c)
      <3> SUFFICES ASSUME NEW c \in Calls PROVE CallOK(c)
        OBVIOUS
      <3>1. call[c] = [pc |-> "idle", todo |-> <<>>, seen |-> 0, base |-> Gone]
        BY <2>1
      <3>2. <<>> \in Seq(Writes)
        OBVIOUS
      <3> QED
        BY <3>1, <3>2 DEF CallOK
    <2>3. call = [c \in Calls |-> call[c]]
      BY DEF ClusterInit
    <2> QED
      BY <2>2, <2>3 DEF CallInv
  <1>4. Value = start
    BY <1>1 DEF Value, Starts
  <1> QED
    BY <1>2, <1>3, <1>4 DEF ClusterInv, Atomic!Init, Value

LEMMA ClusterNextStep ==
  ClusterInv /\ [ClusterNext]_clusterVars => ClusterInv' /\ [Atomic!Next]_Value
  <1> SUFFICES ASSUME ClusterInv, [ClusterNext]_clusterVars
               PROVE  ClusterInv' /\ [Atomic!Next]_Value
    OBVIOUS
  <1>1. ASSUME NEW c \in Calls, Implements(c) PROVE ClusterInv' /\ [Atomic!Next]_Value
    <2>1. CASE UNCHANGED Value
      BY <1>1, <2>1 DEF Implements
    <2>2. CASE OneWrite(c) /\ Value' # Value
      <3>1. Atomic!Write(Now(c))
        BY <2>2 DEF OneWrite, Atomic!Write, Value, Key
      <3>2. Atomic!Next
        <4>1. Now(c) \in Writes /\ Value' # Value
          BY <2>2 DEF OneWrite
        <4>2. \E w \in Writes \cup Collections : Atomic!Write(w)
          BY <3>1, <4>1 DEF Atomic!Write
        <4> QED
          BY <4>1, <4>2 DEF Atomic!Next, Value
      <3> QED
        BY <1>1, <3>2 DEF Implements
    <2> QED
      BY <1>1, <2>1, <2>2 DEF Implements
  <1>4. ASSUME NEW o \in InNamespace \cup {"namespace"}, Collect(o)
        PROVE  ClusterInv' /\ [Atomic!Next]_Value
    <2>1. Collects(o) /\ CallInv'
      BY <1>4, CollectStep
    <2>2. CASE Value' # Value
      <3>1. Delete(o) \in Collections /\ Delete(o).key = o /\ Applied(Delete(o), Value[o]) = Gone
        BY DEF Collections, Delete, Change, Applied
      <3>2. Atomic!Write(Delete(o))
        BY <2>1, <3>1 DEF Collects, Atomic!Write, Value, Key
      <3>3. \E w \in Writes \cup Collections : Atomic!Write(w)
        BY <3>1, <3>2 DEF Atomic!Write
      <3> QED
        BY <2>1, <2>2, <3>3 DEF Atomic!Next, Value, Collects, ClusterInv
    <2> QED
      BY <2>1, <2>2 DEF Collects, ClusterInv
  <1>2. CASE ClusterNext
    BY <1>1, <1>2, <1>4, BeginImplements, CreateImplements, GetImplements, PutImplements,
       RemoveImplements, FailureImplements DEF ClusterNext
  <1>3. CASE UNCHANGED clusterVars
    <2>1. ObjectInv' /\ UNCHANGED Value
      BY <1>3, StillInv DEF clusterVars
    <2>2. CallInv'
      BY <1>3 DEF clusterVars, ClusterInv, CallInv, CallOK, Now, There
    <2> QED
      BY <2>1, <2>2 DEF ClusterInv
  <1> QED
    BY <1>2, <1>3

\* Every operation of the Kubernetes manager writes an object at one moment and
\* on the object as it is then, whatever other calls do between its requests
\* (optimistic concurrency over resource versions, in k8s).
THEOREM ClusterImplementsAtomic == ClusterSpec => ObjectsAreAtomic
  <1>1. ClusterInv /\ [ClusterNext]_clusterVars => [Atomic!Next]_Value
    BY ClusterNextStep
  <1> QED
    BY ClusterInitInv, ClusterNextStep, <1>1, PTL
    DEF ClusterSpec, ObjectsAreAtomic, Atomic!Spec, Value

-----------------------------------------------------------------------------
(* Rules that stay and bindings with a role: steps, as the calls see them.  *)

\* Requests that change a permission, and what is left of them on the way.
PermissionTodo(todo) ==
  \/ /\ Len(todo) = 2 /\ todo[1].op = "upsertRole" /\ todo[1].key = "role"
     /\ todo[2].op = "upsertRoleBinding" /\ todo[2].key = "binding"
  \/ Len(todo) = 1 /\ todo[1].op = "upsertRoleBinding" /\ todo[1].key = "binding"
  \/ /\ Len(todo) = 2 /\ todo[1].op = "Delete" /\ todo[1].key = "binding"
     /\ todo[2].op = "Delete" /\ todo[2].key = "role"
  \/ Len(todo) = 1 /\ todo[1].op = "Delete" /\ todo[1].key = "role"

\* Writes of other requests.
OtherWrite(w) ==
  /\ w.key \notin {"role", "binding"}
  /\ w.key = "allow" => w.op \in {"upsertNetworkPolicy", "UpsertNetworkPolicy", "Delete"}
  /\ w.key = "namespace" => w.op \in {"CreateNamespace", "PatchLabels", "DeleteNamespace"}

GoodTodo(todo) == PermissionTodo(todo) \/ \A i \in DOMAIN todo : OtherWrite(todo[i])

TodoInv == \A c \in Calls : GoodTodo(call[c].todo)

LEMMA RequestForms ==
  \A request \in Requests :
    /\ GoodTodo(request)
    /\ Permission(Head(request).key) =>
         Head(request).op = "upsertRole" \/ (Head(request).op = "Delete" /\ Head(request).key = "binding")
  <1> SUFFICES ASSUME NEW request \in Requests
               PROVE  /\ GoodTodo(request)
                      /\ Permission(Head(request).key) =>
                           \/ Head(request).op = "upsertRole"
                           \/ Head(request).op = "Delete" /\ Head(request).key = "binding"
    OBVIOUS
  <1>1. \/ \E a : request = <<a>> /\ OtherWrite(a)
        \/ \E a, b : request = <<a, b>> /\ OtherWrite(a) /\ OtherWrite(b)
        \/ \E a, b, c, d, e : /\ request = <<a, b, c, d, e>> /\ OtherWrite(a) /\ OtherWrite(b)
                              /\ OtherWrite(c) /\ OtherWrite(d) /\ OtherWrite(e)
        \/ \E a, b : /\ request = <<a, b>> /\ a.op = "upsertRole" /\ a.key = "role"
                     /\ b.op = "upsertRoleBinding" /\ b.key = "binding"
        \/ \E a, b : /\ request = <<a, b>> /\ a.op = "Delete" /\ a.key = "binding"
                     /\ b.op = "Delete" /\ b.key = "role"
    BY DEF Requests, Change, Delete, ApplyNetworkPoliciesForPorts, UpsertNamespacePermission,
       ApplyProjectCertificateIssuer, ApplyControllerAccess, ApplyBasaltPass,
       DeleteNamespacePermission, OtherWrite
  <1>2. CASE \E a : request = <<a>> /\ OtherWrite(a)
    BY <1>2 DEF GoodTodo, OtherWrite, Permission
  <1>3. CASE \E a, b : request = <<a, b>> /\ OtherWrite(a) /\ OtherWrite(b)
    BY <1>3 DEF GoodTodo, OtherWrite, Permission
  <1>4. CASE \E a, b, c, d, e : /\ request = <<a, b, c, d, e>> /\ OtherWrite(a) /\ OtherWrite(b)
                                /\ OtherWrite(c) /\ OtherWrite(d) /\ OtherWrite(e)
    BY <1>4 DEF GoodTodo, OtherWrite, Permission
  <1>5. CASE \E a, b : /\ request = <<a, b>> /\ a.op = "upsertRole" /\ a.key = "role"
                       /\ b.op = "upsertRoleBinding" /\ b.key = "binding"
    BY <1>5 DEF GoodTodo, PermissionTodo, Permission
  <1>6. CASE \E a, b : /\ request = <<a, b>> /\ a.op = "Delete" /\ a.key = "binding"
                       /\ b.op = "Delete" /\ b.key = "role"
    BY <1>6 DEF GoodTodo, PermissionTodo, Permission
  <1> QED
    BY <1>1, <1>2, <1>3, <1>4, <1>5, <1>6

\* What a write of its own leaves of the rules that were granted.
GrantedAfter(c) ==
  IF Now(c).key # "allow" THEN granted
  ELSE IF Now(c).op = "upsertNetworkPolicy" THEN granted \cup Now(c).names
  ELSE {}

OthersStay(c) == \A d \in Calls : d # c => call'[d] = call[d]

Begins(c) ==
  /\ UNCHANGED <<Value, granted>> /\ ~Working(c)
  /\ \E request \in Requests :
       /\ call'[c].todo = request
       /\ overlapped' = (overlapped \/ (Permission(Head(request).key) /\
            \E d \in Calls : Working(d) /\ Permission(Now(d).key)))

Moves(c) ==
  UNCHANGED <<Value, granted, overlapped>> /\ Working(c) /\ call'[c].todo = call[c].todo

Finishes(c) ==
  /\ Working(c) /\ call[c].todo # <<>> /\ call'[c].todo = Tail(call[c].todo)
  /\ OneWrite(c) \/ (UNCHANGED Value /\ Now(c).op = "CreateNamespace")
  /\ call'[c].todo = <<>> => call'[c].pc = "done"
  /\ granted' = GrantedAfter(c) /\ UNCHANGED overlapped

Stops(c) ==
  /\ Working(c) /\ call'[c].pc = "failed" /\ call'[c].todo = <<>> /\ UNCHANGED overlapped
  /\ \/ UNCHANGED <<Value, granted>>
     \/ /\ OneWrite(c) /\ call[c].todo # <<>>
        /\ granted' = IF Now(c).key = "allow" /\ Now(c).op # "upsertNetworkPolicy"
                      THEN {} ELSE granted

Moved(c) == OthersStay(c) /\ (Begins(c) \/ Moves(c) \/ Finishes(c) \/ Stops(c))

LEMMA AdvanceFinishes ==
  ASSUME ClusterInv, NEW c \in Calls, Advance(c), call[c].pc \in {"create", "put", "delete"},
         OneWrite(c) \/ (UNCHANGED Value /\ Now(c).op = "CreateNamespace")
  PROVE  Moved(c)
  <1>1. OthersStay(c) /\ call'[c].todo = Tail(call[c].todo)
    BY DEF Advance, OthersStay, ClusterInv, CallInv
  <1>2. call'[c].todo = <<>> => call'[c].pc = "done"
    BY DEF Advance, ClusterInv, CallInv
  <1>3. Working(c) /\ call[c].todo # <<>>
    BY DEF Working, ClusterInv, CallInv, CallOK
  <1>4. granted' = GrantedAfter(c) /\ UNCHANGED overlapped
    BY DEF Advance, GrantedAfter
  <1> QED
    BY <1>1, <1>2, <1>3, <1>4 DEF Moved, Finishes

LEMMA GoToMoves ==
  ASSUME ClusterInv, NEW c \in Calls, Working(c), NEW pc, GoTo(c, pc)
  PROVE  Moved(c)
  <1>1. OthersStay(c) /\ call'[c].todo = call[c].todo
    BY DEF GoTo, OthersStay, ClusterInv, CallInv, CallOK
  <1>2. UNCHANGED <<Value, granted, overlapped>>
    BY StillInv DEF GoTo
  <1> QED
    BY <1>1, <1>2 DEF Moved, Moves

LEMMA StopStops ==
  ASSUME ClusterInv, NEW c \in Calls, Stop(c)
  PROVE  OthersStay(c) /\ call'[c].pc = "failed" /\ call'[c].todo = <<>>
  BY DEF Stop, Idle, OthersStay, ClusterInv, CallInv

LEMMA NextMoves ==
  ASSUME ClusterInv, NEW c \in Calls,
         Begin(c) \/ Create(c) \/ Get(c) \/ Put(c) \/ Remove(c) \/ Failure(c)
  PROVE  Moved(c)
  <1>2. CASE Begin(c)
    <2>1. PICK request \in Requests :
            /\ call' = [call EXCEPT ![c] = [Idle EXCEPT
                          !.pc = FirstPc(Head(request)), !.todo = request]]
            /\ overlapped' = (overlapped \/ (Permission(Head(request).key) /\
                 \E d \in Calls : Working(d) /\ Permission(Now(d).key)))
      BY <1>2 DEF Begin
    <2>2. OthersStay(c) /\ call'[c].todo = request
      BY <2>1 DEF Idle, OthersStay, ClusterInv, CallInv
    <2>3. UNCHANGED <<Value, granted>> /\ ~Working(c)
      BY <1>2, StillInv DEF Begin, Working
    <2> QED
      BY <2>1, <2>2, <2>3 DEF Moved, Begins
  <1>3. CASE Create(c)
    <2>1. call[c].pc = "create" /\ Working(c)
      BY <1>3 DEF Create, Working
    <2>2. CASE CreateEffect(c) /\ Advance(c)
      BY <2>1, <2>2, CreateStep, AdvanceFinishes
    <2>3. CASE Now(c).op = "CreateNamespace" /\ Advance(c) /\ UNCHANGED <<object, version>>
      BY <2>1, <2>3, StillInv, AdvanceFinishes
    <2>4. CASE GoTo(c, "get")
      BY <2>1, <2>4, GoToMoves
    <2>5. CASE Refused(c)
      BY <2>1, <2>5, StopStops, StillInv DEF Refused, Moved, Stops
    <2> QED
      BY <1>3, <2>2, <2>3, <2>4, <2>5 DEF Create
  <1>4. CASE Get(c)
    <2>1. call[c].pc = "get" /\ Working(c)
      BY <1>4 DEF Get, Working
    <2>2. CASE /\ call' = [call EXCEPT ![c].pc = "put", ![c].seen = object[Now(c).key].rv,
                                       ![c].base = object[Now(c).key].value]
               /\ UNCHANGED <<object, version, failures, granted, overlapped>>
      <3>1. OthersStay(c)
        BY <2>2 DEF OthersStay, ClusterInv, CallInv
      <3>2. call[c] = [pc |-> call[c].pc, todo |-> call[c].todo, seen |-> call[c].seen,
                       base |-> call[c].base]
        BY DEF ClusterInv, CallInv, CallOK
      <3>3. call = [d \in Calls |-> call[d]]
        BY DEF ClusterInv, CallInv
      <3>4. call'[c].todo = call[c].todo
        BY <2>2, <3>2, <3>3
      <3> QED
        BY <2>1, <2>2, <3>1, <3>4, StillInv DEF Moved, Moves
    <2>3. CASE GoTo(c, "create")
      BY <2>1, <2>3, GoToMoves
    <2>4. CASE Refused(c)
      BY <2>1, <2>4, StopStops, StillInv DEF Refused, Moved, Stops
    <2> QED
      BY <1>4, <2>2, <2>3, <2>4 DEF Get
  <1>5. CASE Put(c)
    <2>1. call[c].pc = "put" /\ Working(c)
      BY <1>5 DEF Put, Working
    <2>2. CASE PutEffect(c) /\ Advance(c)
      BY <2>1, <2>2, PutStep, AdvanceFinishes
    <2>3. CASE Refused(c)
      BY <2>1, <2>3, StopStops, StillInv DEF Refused, Moved, Stops
    <2> QED
      BY <1>5, <2>2, <2>3 DEF Put
  <1>6. CASE Remove(c)
    BY <1>6, DeleteStep, AdvanceFinishes DEF Remove
  <1>7. CASE Failure(c)
    <2>1. Working(c) /\ OthersStay(c) /\ call'[c].pc = "failed" /\ call'[c].todo = <<>>
            /\ UNCHANGED overlapped
      BY <1>7, StopStops DEF Failure
    <2>2. CASE UNCHANGED <<object, version, granted>>
      BY <2>1, <2>2, StillInv DEF Moved, Stops
    <2>3. CASE /\ \/ call[c].pc = "create" /\ CreateEffect(c)
                  \/ call[c].pc = "put" /\ PutEffect(c)
                  \/ call[c].pc = "delete" /\ DeleteEffect(c)
               /\ granted' = IF Now(c).key = "allow" /\ Now(c).op # "upsertNetworkPolicy"
                             THEN {} ELSE granted
      <3>1. OneWrite(c)
        BY <2>3, CreateStep, PutStep, DeleteStep
      <3>2. call[c].todo # <<>>
        BY <2>3 DEF ClusterInv, CallInv, CallOK
      <3> QED
        BY <2>1, <2>3, <3>1, <3>2 DEF Moved, Stops
    <2> QED
      BY <1>7, <2>2, <2>3 DEF Failure
  <1> QED
    BY <1>2, <1>3, <1>4, <1>5, <1>6, <1>7

-----------------------------------------------------------------------------
(* Rules that stay and bindings with a role: the invariant.                *)

\* A network policy and a role are there with their rules, or are not there.
RulesInv ==
  \A o \in {"allow", "role"} :
    object[o].value = Gone \/ object[o].value = [rules |-> object[o].value.rules]

\* A namespace is there with its labels and its mark, or is not there.
NamespaceInv ==
  LET v == object["namespace"].value IN
  v = Gone \/ v = [labels |-> v.labels, deleted |-> v.deleted]

OnPermission(c) == Working(c) /\ Permission(Now(c).key)

\* Without an overlap one call at a time changes the permission, and it is about
\* to write a binding only with the role, to delete a role only without binding.
PermissionInv ==
  ~overlapped =>
    /\ There("binding") => There("role") \/ Terminating
    /\ \A c, d \in Calls : OnPermission(c) /\ OnPermission(d) => c = d
    /\ \A c \in Calls : OnPermission(c) =>
         /\ Now(c).op = "upsertRoleBinding" => There("role")
         /\ Now(c).op = "Delete" /\ Now(c).key = "role" => ~There("binding")

SharedInv == ClusterInv /\ TodoInv /\ RulesInv /\ NamespaceInv /\ RulesStay /\ PermissionInv

LEMMA SharedKeys ==
  {"allow", "role", "binding", "namespace"} \subseteq ObjectKeys
  BY Keys

LEMMA StepValues ==
  ASSUME NEW c \in Calls, OneWrite(c), NEW o \in ObjectKeys
  PROVE  object'[o].value = IF o = Now(c).key THEN Applied(Now(c), object[o].value)
                            ELSE object[o].value
  <1> DEFINE new == [Value EXCEPT ![Now(c).key] = Applied(Now(c), @)]
  <1>1. Value'[o] = object'[o].value /\ Value[o] = object[o].value
    BY DEF Value
  <1>2. new[o] = IF o = Now(c).key THEN Applied(Now(c), Value[o]) ELSE Value[o]
    BY DEF Value
  <1>3. Value' = new
    BY DEF OneWrite
  <1> QED
    BY <1>1, <1>2, <1>3

LEMMA ValuesStay ==
  ASSUME UNCHANGED Value, NEW o \in ObjectKeys
  PROVE  object'[o].value = object[o].value
  <1>1. Value'[o] = object'[o].value /\ Value[o] = object[o].value
    BY DEF Value
  <1> QED
    BY <1>1

\* What a write makes of a policy or a role.
LEMMA RuleWrites ==
  ASSUME NEW w, NEW v, w.key \in {"allow", "role"},
         w.op \in {"upsertNetworkPolicy", "UpsertNetworkPolicy", "upsertRole", "Delete"},
         v = Gone \/ v = [rules |-> v.rules]
  PROVE  /\ Applied(w, v) = Gone \/ Applied(w, v) = [rules |-> Applied(w, v).rules]
         /\ w.op # "Delete" => Applied(w, v) # Gone
         /\ w.op = "upsertNetworkPolicy" =>
              /\ w.names \subseteq Applied(w, v).rules
              /\ v # Gone => v.rules \subseteq Applied(w, v).rules
  <1>1. Empty(w.key) = [rules |-> {}]
    <2>1. Fields[w.key] = {"rules"}
      BY DEF Fields
    <2> QED
      BY <2>1 DEF Empty
  <1>2. \A x : Gone # [rules |-> x] /\ [rules |-> x].rules = x
    BY DEF Gone
  <1>3. CASE w.op = "Delete"
    BY <1>3 DEF Applied
  <1>4. CASE w.op # "Delete"
    <2>1. w.op \in Creating /\ w.op # "CreateNamespace"
      BY <1>4 DEF Creating
    <2>2. Applied(w, v) = IF v = Gone THEN Written(w, [rules |-> {}]) ELSE Written(w, v)
      BY <1>1, <1>4, <2>1 DEF Applied
    <2>3. \A x : Written(w, [rules |-> x]) =
                   [rules |-> IF w.op = "upsertNetworkPolicy" THEN x \cup w.names ELSE w.names]
      BY <1>4 DEF Written, MergeRules, UpsertNetworkPolicy, upsertRole
    <2>4. CASE v = Gone
      <3>1. Applied(w, v) = [rules |-> IF w.op = "upsertNetworkPolicy"
                                       THEN {} \cup w.names ELSE w.names]
        BY <2>2, <2>3, <2>4
      <3> QED
        BY <1>2, <1>4, <2>4, <3>1
    <2>5. CASE v = [rules |-> v.rules]
      <3>1. Applied(w, v) = [rules |-> IF w.op = "upsertNetworkPolicy"
                                       THEN v.rules \cup w.names ELSE w.names]
        BY <1>2, <2>2, <2>3, <2>5
      <3> QED
        BY <1>2, <1>4, <3>1
    <2> QED
      BY <2>4, <2>5
  <1> QED
    BY <1>3, <1>4

\* What a call may be about to do.
LEMMA NowKinds ==
  ASSUME ClusterInv, TodoInv, NEW c \in Calls, call[c].todo # <<>>
  PROVE  /\ Now(c) = call[c].todo[1] /\ Now(c).key \in ObjectKeys
         /\ Now(c).key = "allow" =>
              Now(c).op \in {"upsertNetworkPolicy", "UpsertNetworkPolicy", "Delete"}
         /\ Now(c).key = "role" => Now(c).op \in {"upsertRole", "Delete"}
         /\ Now(c).key = "binding" => Now(c).op \in {"upsertRoleBinding", "Delete"}
         /\ Now(c).key = "namespace" =>
              Now(c).op \in {"CreateNamespace", "PatchLabels", "DeleteNamespace"}
  <1>1. call[c].todo \in Seq(Writes)
    BY DEF ClusterInv, CallInv, CallOK
  <1>2. Now(c) = call[c].todo[1] /\ Now(c) \in Writes /\ 1 \in DOMAIN call[c].todo
    BY <1>1 DEF Now
  <1>3. Now(c).key \in ObjectKeys
    BY <1>2, RequestsAreWrites DEF RequestKinds
  <1>4. GoodTodo(call[c].todo)
    BY DEF TodoInv
  <1> QED
    BY <1>2, <1>3, <1>4 DEF GoodTodo, PermissionTodo, OtherWrite

\* What is left when the first write is done.
LEMMA TailKinds ==
  ASSUME NEW todo \in Seq(Writes), todo # <<>>, GoodTodo(todo)
  PROVE  /\ GoodTodo(Tail(todo))
         /\ Tail(todo) # <<>> /\ Permission(Head(Tail(todo)).key) =>
              \/ /\ Head(todo).op = "upsertRole" /\ Head(todo).key = "role"
                 /\ Head(Tail(todo)).op = "upsertRoleBinding"
                 /\ Head(Tail(todo)).key = "binding"
              \/ /\ Head(todo).op = "Delete" /\ Head(todo).key = "binding"
                 /\ Head(Tail(todo)).op = "Delete" /\ Head(Tail(todo)).key = "role"
  <1>1. /\ Tail(todo) \in Seq(Writes) /\ Len(Tail(todo)) = Len(todo) - 1 /\ Head(todo) = todo[1]
        /\ \A i \in DOMAIN Tail(todo) : i + 1 \in DOMAIN todo /\ Tail(todo)[i] = todo[i + 1]
    OBVIOUS
  <1>2. Tail(todo) # <<>> => Head(Tail(todo)) = todo[2] /\ 2 \in DOMAIN todo
    BY <1>1
  <1>3. CASE \A i \in DOMAIN todo : OtherWrite(todo[i])
    BY <1>1, <1>2, <1>3 DEF GoodTodo, OtherWrite, Permission
  <1>4. CASE Len(todo) = 1
    <2>1. Tail(todo) = <<>>
      BY <1>1, <1>4
    <2> QED
      BY <2>1 DEF GoodTodo
  <1>5. CASE Len(todo) = 2 /\ PermissionTodo(todo)
    <2>1. Len(Tail(todo)) = 1 /\ Tail(todo)[1] = todo[2] /\ Tail(todo) # <<>>
      <3>1. Tail(todo) \in Seq(Writes) /\ Len(Tail(todo)) = 1
        BY <1>1, <1>5
      <3>2. 1 \in DOMAIN Tail(todo) /\ Tail(todo) # <<>>
        <4> DEFINE t == Tail(todo)
        <4>1. t \in Seq(Writes) /\ Len(t) = 1
          BY <3>1
        <4> HIDE DEF t
        <4>2. DOMAIN t = 1..Len(t)
          BY <4>1
        <4>3. t # <<>>
          <5>1. Len(<<>>) = 0
            OBVIOUS
          <5>2. Len(t) # Len(<<>>)
            BY <4>1, <5>1
          <5> QED
            BY <5>2, Zenon
        <4> QED
          BY <4>1, <4>2, <4>3 DEF t
      <3>3. Tail(todo)[1] = todo[1 + 1]
        BY <1>1, <3>2
      <3> QED
        BY <3>1, <3>2, <3>3
    <2> QED
      BY <1>1, <1>2, <1>5, <2>1 DEF GoodTodo, PermissionTodo
  <1> QED
    BY <1>3, <1>4, <1>5 DEF GoodTodo, PermissionTodo

LEMMA TodoStep ==
  ASSUME SharedInv, NEW c \in Calls, Moved(c)
  PROVE  TodoInv'
  <1> SUFFICES ASSUME NEW d \in Calls PROVE GoodTodo(call'[d].todo)
    BY DEF TodoInv
  <1>1. CASE d # c
    BY <1>1 DEF Moved, OthersStay, SharedInv, TodoInv
  <1>2. CASE d = c /\ Begins(c)
    BY <1>2, RequestForms DEF Begins
  <1>3. CASE d = c /\ Moves(c)
    BY <1>3 DEF Moves, SharedInv, TodoInv
  <1>4. CASE d = c /\ Finishes(c)
    <2>1. call[c].todo \in Seq(Writes) /\ GoodTodo(call[c].todo)
      BY DEF SharedInv, ClusterInv, CallInv, CallOK, TodoInv
    <2> QED
      BY <1>4, <2>1, TailKinds DEF Finishes
  <1>5. CASE d = c /\ Stops(c)
    BY <1>5 DEF Stops, GoodTodo
  <1> QED
    BY <1>1, <1>2, <1>3, <1>4, <1>5 DEF Moved

LEMMA RulesStep ==
  ASSUME SharedInv, NEW c \in Calls, OneWrite(c), call[c].todo # <<>>
  PROVE  RulesInv'
  <1> SUFFICES ASSUME NEW o \in {"allow", "role"}
               PROVE  \/ object'[o].value = Gone
                      \/ object'[o].value = [rules |-> object'[o].value.rules]
    BY DEF RulesInv
  <1>1. object[o].value = Gone \/ object[o].value = [rules |-> object[o].value.rules]
    BY DEF SharedInv, RulesInv
  <1>2. CASE o # Now(c).key
    BY <1>1, <1>2, StepValues, SharedKeys
  <1>3. CASE o = Now(c).key
    <2>1. Now(c).op \in {"upsertNetworkPolicy", "UpsertNetworkPolicy", "upsertRole", "Delete"}
      BY <1>3, NowKinds DEF SharedInv
    <2>2. object'[o].value = Applied(Now(c), object[o].value)
      BY <1>3, StepValues, SharedKeys
    <2> QED
      BY <1>1, <1>3, <2>1, <2>2, RuleWrites
  <1> QED
    BY <1>2, <1>3

LEMMA GrantedStep ==
  ASSUME SharedInv, NEW c \in Calls, Moved(c)
  PROVE  RulesInv' /\ RulesStay'
  <1> DEFINE rules == object["allow"].value.rules
             written == Applied(Now(c), object["allow"].value)
  <1>1. CASE UNCHANGED <<Value, granted>>
    <2>1. \A o \in {"allow", "role"} : object'[o].value = object[o].value
      BY <1>1, ValuesStay, SharedKeys
    <2> QED
      BY <1>1, <2>1 DEF SharedInv, RulesInv, RulesStay, There
  <1>2. CASE UNCHANGED Value /\ Now(c).op = "CreateNamespace" /\ granted' = GrantedAfter(c)
             /\ call[c].todo # <<>>
    <2>1. Now(c).key # "allow"
      BY <1>2, NowKinds DEF SharedInv
    <2> QED
      BY <1>1, <1>2, <2>1 DEF GrantedAfter
  <1>3. CASE /\ OneWrite(c) /\ call[c].todo # <<>>
             /\ \/ granted' = GrantedAfter(c)
                \/ granted' = IF Now(c).key = "allow" /\ Now(c).op # "upsertNetworkPolicy"
                              THEN {} ELSE granted
    <2>1. RulesInv'
      BY <1>3, RulesStep
    <2>2. granted # {} => object["allow"].value # Gone /\ granted \subseteq rules
      BY DEF SharedInv, RulesStay, There
    <2>3. CASE Now(c).key # "allow"
      <3>1. object'["allow"].value = object["allow"].value /\ granted' = granted
        BY <1>3, <2>3, StepValues, SharedKeys DEF GrantedAfter
      <3> QED
        BY <2>1, <2>2, <3>1 DEF RulesStay, There
    <2>4. CASE Now(c).key = "allow" /\ Now(c).op = "upsertNetworkPolicy"
      <3>1. object'["allow"].value = written
        BY <1>3, <2>4, StepValues, SharedKeys
      <3>2. object["allow"].value = Gone \/ object["allow"].value = [rules |-> rules]
        BY DEF SharedInv, RulesInv
      <3>3. /\ written # Gone /\ Now(c).names \subseteq written.rules
            /\ object["allow"].value # Gone => rules \subseteq written.rules
        BY <2>4, <3>2, RuleWrites
      <3>4. granted' \subseteq granted \cup Now(c).names
        BY <1>3, <2>4 DEF GrantedAfter
      <3>5. granted' \subseteq written.rules
        BY <2>2, <3>3, <3>4
      <3> QED
        BY <2>1, <3>1, <3>3, <3>5 DEF RulesStay, There
    <2>5. CASE Now(c).key = "allow" /\ Now(c).op # "upsertNetworkPolicy"
      BY <1>3, <2>1, <2>5 DEF GrantedAfter, RulesStay
    <2> QED
      BY <2>3, <2>4, <2>5
  <1> QED
    BY <1>1, <1>2, <1>3 DEF Moved, Begins, Moves, Finishes, Stops

LEMMA EmptyNamespace == Empty("namespace") = [labels |-> {}, deleted |-> {}]
  <1>1. Fields["namespace"] = {"labels", "deleted"}
    BY DEF Fields
  <1>2. [f \in {"labels", "deleted"} |-> {}] = [labels |-> {}, deleted |-> {}]
    OBVIOUS
  <1> QED
    BY <1>1, <1>2 DEF Empty

LEMMA MarkedNamespace ==
  ASSUME NEW r, NEW x, NEW y, NEW z, NEW u, r = [labels |-> x, deleted |-> y]
  PROVE  /\ [r EXCEPT !.labels = (@ \cup z) \ u] = [labels |-> (x \cup z) \ u, deleted |-> y]
         /\ [r EXCEPT !.deleted = z] = [labels |-> x, deleted |-> z]
  OBVIOUS

\* No write of a call takes the mark from a namespace, or its shape.
LEMMA NamespaceStep ==
  ASSUME SharedInv, NEW c \in Calls, OneWrite(c), call[c].todo # <<>>
  PROVE  NamespaceInv' /\ (Terminating => Terminating')
  <1> DEFINE v == object["namespace"].value
             w == Now(c)
  <1>1. v = Gone \/ v = [labels |-> v.labels, deleted |-> v.deleted]
    BY DEF SharedInv, NamespaceInv
  <1>2. CASE w.key # "namespace"
    <2>1. object'["namespace"].value = v
      BY <1>2, StepValues, SharedKeys
    <2> QED
      BY <1>1, <2>1 DEF NamespaceInv, Terminating, There
  <1>3. CASE w.key = "namespace"
    <2>1. object'["namespace"].value = Applied(w, v)
      BY <1>3, StepValues, SharedKeys
    <2>2. w.op \in {"CreateNamespace", "PatchLabels", "DeleteNamespace"}
      BY <1>3, NowKinds DEF SharedInv
    <2>3. Empty("namespace") = [labels |-> {}, deleted |-> {}]
      BY EmptyNamespace
    <2>4. \A x, y : Gone # [labels |-> x, deleted |-> y]
      <3>1. \A x, y : DOMAIN [labels |-> x, deleted |-> y] = {"labels", "deleted"}
        OBVIOUS
      <3>2. DOMAIN Gone = {"gone"}
        BY DEF Gone
      <3> QED
        BY <3>1, <3>2
    <2>5. CASE v = Gone
      <3>1. Applied(w, v) = Gone \/ Applied(w, v) = [labels |-> w.names, deleted |-> {}]
        <4>1. CASE w.op = "CreateNamespace"
          <5>1. Applied(w, v) = Written(w, [labels |-> {}, deleted |-> {}])
            BY <1>3, <2>3, <2>5, <4>1 DEF Applied, Creating
          <5> QED
            BY <4>1, <5>1 DEF Written, CreateNamespace
        <4>2. CASE w.op \in {"PatchLabels", "DeleteNamespace"}
          BY <2>5, <4>2 DEF Applied, Creating
        <4> QED
          BY <2>2, <4>1, <4>2
      <3> QED
        BY <2>1, <2>5, <3>1 DEF NamespaceInv, Terminating, There
    <2>6. CASE v = [labels |-> v.labels, deleted |-> v.deleted]
      <3>1. v # Gone
        BY <2>4, <2>6
      <3>2. \E x, y : /\ Applied(w, v) = [labels |-> x, deleted |-> y]
                      /\ v.deleted # {} => y # {}
        <4>1. CASE w.op = "CreateNamespace"
          BY <2>6, <3>1, <4>1 DEF Applied
        <4>2. CASE w.op = "PatchLabels"
          <5>1. Applied(w, v) = [v EXCEPT !.labels = (@ \cup w.names) \ w.blank]
            BY <3>1, <4>2 DEF Applied, Written, PatchLabels
          <5>2. Applied(w, v) = [labels |-> (v.labels \cup w.names) \ w.blank,
                                 deleted |-> v.deleted]
            BY <2>6, <5>1, MarkedNamespace
          <5> QED
            BY <5>2
        <4>3. CASE w.op = "DeleteNamespace"
          <5>1. Applied(w, v) = [v EXCEPT !.deleted = {"yes"}]
            BY <3>1, <4>3 DEF Applied, Written, DeleteNamespace
          <5>2. Applied(w, v) = [labels |-> v.labels, deleted |-> {"yes"}]
            BY <2>6, <5>1, MarkedNamespace
          <5> QED
            BY <5>2
        <4> QED
          BY <2>2, <4>1, <4>2, <4>3
      <3>3. PICK x, y : /\ Applied(w, v) = [labels |-> x, deleted |-> y]
                        /\ v.deleted # {} => y # {}
        BY <3>2
      <3> HIDE DEF v, w
      <3>4. object'["namespace"].value = [labels |-> x, deleted |-> y]
        BY <2>1, <3>3
      <3> QED
        BY <2>4, <3>3, <3>4 DEF NamespaceInv, Terminating, There, v
    <2> QED
      BY <1>1, <2>5, <2>6
  <1> QED
    BY <1>2, <1>3

\* A call that is not about the permission leaves it alone.
LEMMA PermissionValues ==
  ASSUME SharedInv, NEW c \in Calls, call[c].todo # <<>>,
         OneWrite(c) \/ (UNCHANGED Value /\ Now(c).op = "CreateNamespace")
  PROVE  /\ Now(c).key # "role" => There("role")' = There("role")
         /\ Now(c).key # "binding" => There("binding")' = There("binding")
         /\ Now(c).key = "role" /\ Now(c).op # "Delete" => There("role")'
         /\ Now(c).key = "binding" /\ Now(c).op = "Delete" => ~There("binding")'
         /\ Terminating => Terminating'
  <1>1. CASE UNCHANGED Value /\ Now(c).op = "CreateNamespace"
    <2>1. Now(c).key \notin {"role", "binding"}
      BY <1>1, NowKinds DEF SharedInv
    <2>2. object'["role"].value = object["role"].value
            /\ object'["binding"].value = object["binding"].value
            /\ object'["namespace"].value = object["namespace"].value
      BY <1>1, ValuesStay, SharedKeys
    <2> QED
      BY <2>1, <2>2 DEF There, Terminating
  <1>2. CASE OneWrite(c)
    <2>1. Now(c).key # "role" => object'["role"].value = object["role"].value
      BY <1>2, StepValues, SharedKeys
    <2>2. Now(c).key # "binding" => object'["binding"].value = object["binding"].value
      BY <1>2, StepValues, SharedKeys
    <2>3. Now(c).key = "role" /\ Now(c).op # "Delete" => object'["role"].value # Gone
      <3> SUFFICES ASSUME Now(c).key = "role", Now(c).op # "Delete"
                   PROVE  object'["role"].value # Gone
        OBVIOUS
      <3>1. object'["role"].value = Applied(Now(c), object["role"].value)
        BY <1>2, StepValues, SharedKeys
      <3>2. Now(c).op = "upsertRole"
        BY NowKinds DEF SharedInv
      <3>3. object["role"].value = Gone \/ object["role"].value = [rules |-> object["role"].value.rules]
        BY DEF SharedInv, RulesInv
      <3> QED
        BY <3>1, <3>2, <3>3, RuleWrites
    <2>4. Now(c).key = "binding" /\ Now(c).op = "Delete" => object'["binding"].value = Gone
      BY <1>2, StepValues, SharedKeys DEF Applied
    <2>5. Terminating => Terminating'
      BY <1>2, NamespaceStep
    <2> QED
      BY <2>1, <2>2, <2>3, <2>4, <2>5 DEF There
  <1> QED
    BY <1>1, <1>2

LEMMA PermissionStep ==
  ASSUME SharedInv, NEW c \in Calls, Moved(c)
  PROVE  PermissionInv'
  <1> SUFFICES ASSUME ~overlapped'
               PROVE  /\ There("binding")' => There("role")' \/ Terminating'
                      /\ \A d, e \in Calls : OnPermission(d)' /\ OnPermission(e)' => d = e
                      /\ \A d \in Calls : OnPermission(d)' =>
                           /\ Now(d)'.op = "upsertRoleBinding" => There("role")'
                           /\ Now(d)'.op = "Delete" /\ Now(d)'.key = "role" => ~There("binding")'
    BY DEF PermissionInv
  <1>1. ~overlapped
    BY DEF Moved, Begins, Moves, Finishes, Stops
  <1>2. /\ There("binding") => There("role") \/ Terminating
        /\ \A d, e \in Calls : OnPermission(d) /\ OnPermission(e) => d = e
        /\ \A d \in Calls : OnPermission(d) =>
             /\ Now(d).op = "upsertRoleBinding" => There("role")
             /\ Now(d).op = "Delete" /\ Now(d).key = "role" => ~There("binding")
    BY <1>1 DEF SharedInv, PermissionInv
  <1>3. \A d \in Calls : d # c =>
          /\ Now(d)' = Now(d) /\ Working(d)' = Working(d)
          /\ OnPermission(d)' = OnPermission(d)
    BY DEF Moved, OthersStay, Now, Working, OnPermission
  <1>4. CASE UNCHANGED Value /\ (OnPermission(c)' => OnPermission(c) /\ Now(c)' = Now(c))
    <2>1. There("role")' = There("role") /\ There("binding")' = There("binding")
            /\ Terminating' = Terminating
      BY <1>4, ValuesStay, SharedKeys DEF There, Terminating
    <2> QED
      BY <1>2, <1>3, <1>4, <2>1
  <1>5. CASE Begins(c)
    <2>1. PICK request \in Requests :
            /\ call'[c].todo = request
            /\ overlapped' = (overlapped \/ (Permission(Head(request).key) /\
                 \E d \in Calls : Working(d) /\ Permission(Now(d).key)))
      BY <1>5 DEF Begins
    <2>2. There("role")' = There("role") /\ There("binding")' = There("binding")
            /\ Terminating' = Terminating
      BY <1>5, ValuesStay, SharedKeys DEF There, Terminating, Begins
    <2>3. Now(c)' = Head(request)
      BY <2>1 DEF Now
    <2>4. OnPermission(c)' =>
            /\ Now(c)'.op # "upsertRoleBinding"
            /\ ~(Now(c)'.op = "Delete" /\ Now(c)'.key = "role")
            /\ \A d \in Calls : ~OnPermission(d)
      BY <2>1, <2>3, RequestForms DEF OnPermission
    <2> QED
      BY <1>2, <1>3, <2>2, <2>4
  <1>6. CASE Moves(c)
    <2>1. OnPermission(c)' => OnPermission(c) /\ Now(c)' = Now(c)
      BY <1>6 DEF Moves, OnPermission, Now
    <2> QED
      BY <1>4, <1>6, <2>1 DEF Moves
  <1>7. ASSUME call[c].todo # <<>>, Working(c),
               OneWrite(c) \/ (UNCHANGED Value /\ Now(c).op = "CreateNamespace"),
               OnPermission(c)' =>
                 \/ /\ Now(c).op = "upsertRole" /\ Now(c).key = "role"
                    /\ Now(c)'.op = "upsertRoleBinding" /\ Now(c)'.key = "binding"
                 \/ /\ Now(c).op = "Delete" /\ Now(c).key = "binding"
                    /\ Now(c)'.op = "Delete" /\ Now(c)'.key = "role"
        PROVE  /\ There("binding")' => There("role")' \/ Terminating'
               /\ \A d, e \in Calls : OnPermission(d)' /\ OnPermission(e)' => d = e
               /\ \A d \in Calls : OnPermission(d)' =>
                    /\ Now(d)'.op = "upsertRoleBinding" => There("role")'
                    /\ Now(d)'.op = "Delete" /\ Now(d)'.key = "role" => ~There("binding")'
    <2>1. /\ Now(c).key # "role" => There("role")' = There("role")
          /\ Now(c).key # "binding" => There("binding")' = There("binding")
          /\ Now(c).key = "role" /\ Now(c).op # "Delete" => There("role")'
          /\ Now(c).key = "binding" /\ Now(c).op = "Delete" => ~There("binding")'
          /\ Terminating => Terminating'
      BY <1>7, PermissionValues
    <2>2. /\ Now(c).key = "role" => Now(c).op \in {"upsertRole", "Delete"}
          /\ Now(c).key = "binding" => Now(c).op \in {"upsertRoleBinding", "Delete"}
      BY <1>7, NowKinds DEF SharedInv
    <2>3. CASE Permission(Now(c).key)
      <3>1. OnPermission(c)
        BY <1>7, <2>3 DEF OnPermission
      <3>2. \A d \in Calls : d # c => ~OnPermission(d)'
        BY <1>2, <1>3, <3>1
      <3>3. There("binding")' => There("role")' \/ Terminating'
        BY <1>2, <2>1, <2>2, <2>3, <3>1 DEF Permission
      <3>4. OnPermission(c)' =>
              /\ Now(c)'.op = "upsertRoleBinding" => There("role")'
              /\ Now(c)'.op = "Delete" /\ Now(c)'.key = "role" => ~There("binding")'
        BY <1>7, <2>1
      <3> QED
        BY <3>2, <3>3, <3>4
    <2>4. CASE ~Permission(Now(c).key)
      <3>1. There("role")' = There("role") /\ There("binding")' = There("binding")
        BY <2>1, <2>4 DEF Permission
      <3>2. ~OnPermission(c)'
        BY <1>7, <2>4 DEF Permission
      <3>3. There("binding")' => There("role")' \/ Terminating'
        BY <1>2, <2>1, <3>1
      <3> QED
        BY <1>2, <1>3, <3>1, <3>2, <3>3
    <2> QED
      BY <2>3, <2>4
  <1>8. CASE Finishes(c)
    <2>1. call[c].todo \in Seq(Writes) /\ GoodTodo(call[c].todo) /\ call[c].todo # <<>>
      BY <1>8 DEF SharedInv, ClusterInv, CallInv, CallOK, TodoInv, Finishes
    <2>2. OnPermission(c)' => Tail(call[c].todo) # <<>> /\ Now(c)' = Head(Tail(call[c].todo))
            /\ Permission(Now(c)'.key)
      BY <1>8 DEF Finishes, OnPermission, Working, Now
    <2>3. OnPermission(c)' =>
            \/ /\ Now(c).op = "upsertRole" /\ Now(c).key = "role"
               /\ Now(c)'.op = "upsertRoleBinding" /\ Now(c)'.key = "binding"
            \/ /\ Now(c).op = "Delete" /\ Now(c).key = "binding"
               /\ Now(c)'.op = "Delete" /\ Now(c)'.key = "role"
      BY <2>1, <2>2, TailKinds DEF Now
    <2> QED
      BY <1>7, <1>8, <2>3 DEF Finishes
  <1>9. CASE Stops(c)
    <2>1. ~OnPermission(c)'
      BY <1>9 DEF Stops, OnPermission, Working
    <2>2. CASE UNCHANGED Value
      BY <1>4, <2>1, <2>2
    <2>3. CASE OneWrite(c) /\ call[c].todo # <<>>
      BY <1>7, <1>9, <2>1, <2>3 DEF Stops
    <2> QED
      BY <1>9, <2>2, <2>3 DEF Stops
  <1> QED
    BY <1>5, <1>6, <1>8, <1>9 DEF Moved

\* What the cluster removes, with the rules and the permission.
LEMMA CollectShared ==
  ASSUME SharedInv, NEW o, Collects(o)
  PROVE  TodoInv' /\ RulesInv' /\ NamespaceInv' /\ RulesStay' /\ PermissionInv'
  <1>1. \A p \in ObjectKeys : object'[p].value = IF p = o THEN Gone ELSE object[p].value
    <2> SUFFICES ASSUME NEW p \in ObjectKeys
                 PROVE  object'[p].value = IF p = o THEN Gone ELSE object[p].value
      OBVIOUS
    <2> DEFINE new == [Value EXCEPT ![o] = Gone]
    <2>1. Value'[p] = object'[p].value /\ Value[p] = object[p].value
      BY DEF Value
    <2>2. new[p] = IF p = o THEN Gone ELSE Value[p]
      BY DEF Value
    <2>3. Value' = new
      BY DEF Collects
    <2> QED
      BY <2>1, <2>2, <2>3
  <1>2. /\ There("role")' = (There("role") /\ o # "role")
        /\ There("binding")' = (There("binding") /\ o # "binding")
        /\ There("allow")' = (There("allow") /\ o # "allow")
    BY <1>1, SharedKeys DEF There
  <1>3. \A c : Now(c)' = Now(c) /\ Working(c)' = Working(c) /\ OnPermission(c)' = OnPermission(c)
    BY DEF Collects, Now, Working, OnPermission
  <1>4. TodoInv'
    BY DEF Collects, SharedInv, TodoInv
  <1>5. RulesInv'
    BY <1>1, SharedKeys DEF SharedInv, RulesInv
  <1>6. NamespaceInv'
    BY <1>1, SharedKeys DEF SharedInv, NamespaceInv
  <1>7. RulesStay'
    <2>1. CASE o = "allow"
      BY <2>1 DEF Collects, RulesStay
    <2>2. CASE o # "allow"
      BY <1>1, <1>2, <2>2, SharedKeys DEF Collects, SharedInv, RulesStay
    <2> QED
      BY <2>1, <2>2
  <1>8. PermissionInv'
    <2> SUFFICES ASSUME ~overlapped' PROVE PermissionInv'
      BY DEF PermissionInv
    <2>1. ~overlapped /\ (o = "role" => \A c \in Calls : ~OnPermission(c))
      BY DEF Collects, OnPermission
    <2>2. CASE o = "namespace"
      <3>1. ~There("binding")
        BY <2>2 DEF Collects, InNamespace
      <3> QED
        BY <1>2, <1>3, <2>1, <2>2, <3>1 DEF SharedInv, PermissionInv
    <2>3. CASE o # "namespace"
      <3>1. Terminating'
        BY <1>1, <2>3, SharedKeys DEF Collects, Terminating, There
      <3> QED
        BY <1>2, <1>3, <2>1, <3>1 DEF SharedInv, PermissionInv
    <2> QED
      BY <2>2, <2>3
  <1> QED
    BY <1>4, <1>5, <1>6, <1>7, <1>8

LEMMA NamespaceMoved ==
  ASSUME SharedInv, NEW c \in Calls, Moved(c)
  PROVE  NamespaceInv'
  <1>1. CASE UNCHANGED Value
    BY <1>1, ValuesStay, SharedKeys DEF SharedInv, NamespaceInv
  <1>2. CASE OneWrite(c) /\ call[c].todo # <<>>
    BY <1>2, NamespaceStep
  <1> QED
    BY <1>1, <1>2 DEF Moved, Begins, Moves, Finishes, Stops

LEMMA SharedInitInv == ClusterInit => SharedInv
  <1> SUFFICES ASSUME ClusterInit PROVE SharedInv
    OBVIOUS
  <1>1. ClusterInv
    BY ClusterInitInv
  <1>2. PICK start \in Starts : object = [o \in ObjectKeys |-> [value |-> start[o], rv |-> 0]]
    BY DEF ClusterInit
  <1>3. \A o \in ObjectKeys : object[o].value = start[o]
    BY <1>2
  <1>4. CASE start = [o \in ObjectKeys |-> Gone]
    <2>1. \A o \in ObjectKeys : object[o].value = Gone
      BY <1>3, <1>4
    <2> QED
      <3>1. RulesInv /\ NamespaceInv /\ ~There("binding")
        BY <2>1, SharedKeys DEF RulesInv, NamespaceInv, There
      <3>2. TodoInv /\ RulesStay /\ \A c \in Calls : ~OnPermission(c)
        BY DEF ClusterInit, TodoInv, RulesStay, GoodTodo, OnPermission, Working, Idle
      <3> QED
        BY <1>1, <3>1, <3>2 DEF SharedInv, PermissionInv
  <1>6. Empty("namespace") = [labels |-> {}, deleted |-> {}]
    BY EmptyNamespace
  <1>7. CASE start = [o \in ObjectKeys |-> IF o = "namespace" THEN Empty(o) ELSE Gone]
    <2>1. /\ object["allow"].value = Gone /\ object["role"].value = Gone
          /\ object["binding"].value = Gone
          /\ object["namespace"].value = [labels |-> {}, deleted |-> {}]
      BY <1>3, <1>6, <1>7, SharedKeys
    <2>2. RulesInv /\ NamespaceInv /\ ~There("binding")
      BY <2>1 DEF RulesInv, NamespaceInv, There
    <2>3. TodoInv /\ RulesStay /\ \A c \in Calls : ~OnPermission(c)
      BY DEF ClusterInit, TodoInv, RulesStay, GoodTodo, OnPermission, Working, Idle
    <2> QED
      BY <1>1, <2>2, <2>3 DEF SharedInv, PermissionInv
  <1>5. CASE start = [o \in ObjectKeys |-> Empty(o)]
    <2>4. object["namespace"].value = [labels |-> {}, deleted |-> {}]
      BY <1>3, <1>5, <1>6, SharedKeys
    <2>5. NamespaceInv
      BY <2>4 DEF NamespaceInv
    <2>1. \A o \in {"allow", "role"} : object[o].value = [rules |-> {}]
      <3>1. Empty("allow") = [rules |-> {}] /\ Empty("role") = [rules |-> {}]
        BY DEF Empty, Fields
      <3>2. start["allow"] = Empty("allow") /\ start["role"] = Empty("role")
        BY <1>5, SharedKeys
      <3> QED
        BY <1>3, <3>1, <3>2, SharedKeys
    <2>2. RulesInv /\ There("role")
      BY <2>1 DEF RulesInv, There, Gone
    <2>3. TodoInv /\ RulesStay /\ \A c \in Calls : ~OnPermission(c)
      BY DEF ClusterInit, TodoInv, RulesStay, GoodTodo, OnPermission, Working, Idle
    <2> QED
      BY <1>1, <2>2, <2>3, <2>5 DEF SharedInv, PermissionInv
  <1> QED
    BY <1>4, <1>5, <1>7 DEF Starts

LEMMA SharedNextInv == SharedInv /\ [ClusterNext]_clusterVars => SharedInv'
  <1> SUFFICES ASSUME SharedInv, [ClusterNext]_clusterVars PROVE SharedInv'
    OBVIOUS
  <1>1. ClusterInv'
    BY ClusterNextStep DEF SharedInv
  <1>2. CASE ClusterNext
    <2>1. ASSUME NEW c \in Calls, Moved(c) PROVE SharedInv'
      BY <1>1, <2>1, TodoStep, GrantedStep, NamespaceMoved, PermissionStep DEF SharedInv
    <2>2. ASSUME NEW o \in InNamespace \cup {"namespace"}, Collect(o) PROVE SharedInv'
      BY <1>1, <2>2, CollectStep, CollectShared DEF SharedInv
    <2> QED
      BY <1>2, <2>1, <2>2, NextMoves DEF ClusterNext, SharedInv
  <1>3. CASE UNCHANGED clusterVars
    BY <1>1, <1>3 DEF clusterVars, SharedInv, TodoInv, RulesInv, NamespaceInv, RulesStay,
       PermissionInv, OnPermission, Working, Now, There, Terminating
  <1> QED
    BY <1>2, <1>3

LEMMA SharedSpecInv == ClusterSpec => []SharedInv
  BY SharedInitInv, SharedNextInv, PTL DEF ClusterSpec

\* The rules that deployments have asked for stay in the policy of their
\* namespace, whatever the other projects of the namespace ask for meanwhile
\* (mergeNetworkPolicyIngress, in k8s), until an administrator writes or deletes
\* the policy or it goes with a deleted namespace.
THEOREM GrantedRulesStay == ClusterSpec => []RulesStay
  BY SharedSpecInv, PTL DEF SharedInv

\* A binding of the namespace names a role that exists, after every failure too,
\* unless changes of the permission overlap or the namespace is being deleted
\* (UpsertNamespacePermission, DeleteNamespacePermission and DeleteNamespace, in
\* k8s).
THEOREM BindingsHaveRoles == ClusterSpec => []BindingHasRole
  <1>1. SharedInv => BindingHasRole
    BY DEF SharedInv, PermissionInv, BindingHasRole
  <1> QED
    BY SharedSpecInv, <1>1, PTL
-----------------------------------------------------------------------------
(* Types: every object has the fields of its kind.                         *)

Operations ==
  {"Delete", "PatchLabels", "UpdateNodeTaints", "Cordon", "Uncordon", "RestartDeployment",
   "ScaleDeployment", "EnsureTraefikPodNetwork", "DeleteNamespace"} \cup Creating

\* An operation that makes a whole value makes one of its object's kind.
KnownWrite(w) ==
  /\ w.op \in Operations /\ w.names \subseteq Names
  /\ w.op = "ApplyProjectDeployment" => w.key = "deployment"
  /\ w.op \in {"applyIngress", "UpsertIngress"} => w.key = "ingress"

LEMMA WritesAreKnown == \A w \in Writes : KnownWrite(w)
  <1>1. ASSUME NEW request \in Requests
        PROVE  \A i \in DOMAIN request : KnownWrite(request[i])
    <2>1. \/ \E a : request = <<a>> /\ KnownWrite(a)
          \/ \E a, b : request = <<a, b>> /\ KnownWrite(a) /\ KnownWrite(b)
          \/ \E a, b, c, d, e : /\ request = <<a, b, c, d, e>> /\ KnownWrite(a) /\ KnownWrite(b)
                                /\ KnownWrite(c) /\ KnownWrite(d) /\ KnownWrite(e)
      BY DEF Requests, Change, Delete, ApplyNetworkPoliciesForPorts, UpsertNamespacePermission,
         ApplyProjectCertificateIssuer, ApplyControllerAccess, ApplyBasaltPass,
         DeleteNamespacePermission, KnownWrite, Operations, Creating
    <2> HIDE DEF KnownWrite
    <2>2. CASE \E a : request = <<a>> /\ KnownWrite(a)
      BY <2>2
    <2>3. CASE \E a, b : request = <<a, b>> /\ KnownWrite(a) /\ KnownWrite(b)
      BY <2>3
    <2>4. CASE \E a, b, c, d, e : /\ request = <<a, b, c, d, e>> /\ KnownWrite(a) /\ KnownWrite(b)
                                  /\ KnownWrite(c) /\ KnownWrite(d) /\ KnownWrite(e)
      BY <2>4
    <2> QED
      BY <2>1, <2>2, <2>3, <2>4
  <1> QED
    BY <1>1 DEF Writes

Shaped(o, v) == v = Gone \/ DOMAIN v = Fields[o]

\* A write of an object leaves its fields.
LEMMA WriteShapes ==
  ASSUME NEW w, KnownWrite(w), NEW v, Shaped(w.key, v)
  PROVE  Shaped(w.key, Applied(w, v))
  <1>1. ASSUME NEW x, DOMAIN x = Fields[w.key], w.op # "Delete"
        PROVE  DOMAIN Written(w, x) = Fields[w.key]
    <2>1. CASE w.op = "ApplyProjectDeployment"
      BY <2>1 DEF KnownWrite, Fields, Written, ApplyProjectDeployment
    <2>2. CASE w.op \in {"applyIngress", "UpsertIngress"}
      <3>1. Written(w, x) = [spec |-> w.names, annotations |-> w.names]
        BY <2>2 DEF Written, applyIngress, UpsertIngress
      <3>2. Fields[w.key] = {"spec", "annotations"}
        BY <2>2 DEF KnownWrite, Fields
      <3> QED
        BY <3>1, <3>2
    <2>3. CASE w.op \notin {"ApplyProjectDeployment", "applyIngress", "UpsertIngress"}
      <3>1. DOMAIN Written(w, x) = DOMAIN x
        BY <1>1, <2>3 DEF KnownWrite, Operations, Creating, Written, PatchLabels, CreateNamespace,
           DeleteNamespace,
           UpdateNodeTaints, SetNodeSchedulable, RestartDeployment, ScaleDeployment,
           ApplyServicePorts, UpsertService, MergeRules, UpsertSecret, UpsertNetworkPolicy,
           UpsertResourceQuota, UpsertLimitRange, upsertRole, upsertRoleBinding, reconcilePVC,
           upsertCertManagerIssuer, ApplyArgoCDApplication, ApplyArgoCDRepository,
           EnsureTraefikPodNetwork
      <3> QED
        BY <1>1, <3>1
    <2> QED
      BY <2>1, <2>2, <2>3
  <1>2. DOMAIN Empty(w.key) = Fields[w.key]
    BY DEF Empty
  <1> QED
    BY <1>1, <1>2 DEF Shaped, Applied

CallTyped(c) ==
  /\ call[c].pc \in {"idle", "create", "get", "put", "delete", "done", "failed"}
  /\ Working(c) <=> call[c].todo # <<>>
  /\ call[c].seen \in 0..version

FieldsInv == \A o \in ObjectKeys : Shaped(o, object[o].value)
CallsTyped == \A c \in Calls : CallTyped(c)

TypeInv ==
  /\ SharedInv /\ FieldsInv /\ CallsTyped
  /\ failures \in 0..MaxFailures /\ granted \subseteq Names /\ overlapped \in BOOLEAN

LEMMA FieldsStep ==
  ASSUME TypeInv, NEW c \in Calls, Moved(c)
  PROVE  FieldsInv' /\ granted' \subseteq Names
  <1>1. ASSUME UNCHANGED Value PROVE FieldsInv'
    BY <1>1, ValuesStay DEF TypeInv, FieldsInv, Shaped
  <1>2. ASSUME OneWrite(c) PROVE FieldsInv'
    <2>1. Now(c) \in Writes /\ KnownWrite(Now(c))
      BY <1>2, WritesAreKnown DEF OneWrite
    <2> SUFFICES ASSUME NEW o \in ObjectKeys PROVE Shaped(o, object'[o].value)
      BY DEF FieldsInv, Shaped
    <2>2. Shaped(o, object[o].value)
      BY DEF TypeInv, FieldsInv
    <2>3. object'[o].value = IF o = Now(c).key THEN Applied(Now(c), object[o].value)
                             ELSE object[o].value
      BY <1>2, StepValues
    <2> QED
      BY <2>1, <2>2, <2>3, WriteShapes
  <1>3. call[c].todo # <<>> => Now(c).names \subseteq Names
    <2>1. call[c].todo \in Seq(Writes)
      BY DEF TypeInv, SharedInv, ClusterInv, CallInv, CallOK
    <2>2. call[c].todo # <<>> => Now(c) \in Writes
      BY <2>1 DEF Now
    <2> QED
      BY <2>2, WritesAreKnown DEF KnownWrite
  <1>4. granted \subseteq Names
    BY DEF TypeInv
  <1> QED
    BY <1>1, <1>2, <1>3, <1>4 DEF Moved, Begins, Moves, Finishes, Stops, GrantedAfter

LEMMA VersionsGrow ==
  ASSUME ClusterInv, ClusterNext
  PROVE  version' \in Nat /\ version <= version'
  <1>1. version \in Nat
    BY DEF ClusterInv, ObjectInv
  <1>2. /\ \A o, v : Store(o, v) => version' = version \/ version' = version + 1
        /\ \A o : Erase(o) => version' = version
    BY DEF Store, Erase
  <1>3. \A c : CreateEffect(c) \/ PutEffect(c) \/ DeleteEffect(c) =>
          version' = version \/ version' = version + 1
    BY <1>2 DEF CreateEffect, PutEffect, DeleteEffect
  <1>8. CASE \E o \in InNamespace \cup {"namespace"} : Collect(o)
    BY <1>1, <1>2, <1>8 DEF Collect
  <1> SUFFICES ASSUME NEW c \in Calls,
                      Begin(c) \/ Create(c) \/ Get(c) \/ Put(c) \/ Remove(c) \/ Failure(c)
               PROVE  version' \in Nat /\ version <= version'
    BY <1>8 DEF ClusterNext
  <1>5. CASE Begin(c) \/ Get(c)
    <2>1. Begin(c) => version' = version
      BY DEF Begin
    <2>2. Get(c) => version' = version
      BY DEF Get, GoTo, Refused
    <2> QED
      BY <1>1, <1>5, <2>1, <2>2
  <1>6. CASE Create(c) \/ Put(c) \/ Remove(c)
    BY <1>1, <1>3, <1>6 DEF Create, Put, Remove, GoTo, Refused
  <1>7. CASE Failure(c)
    BY <1>1, <1>3, <1>7 DEF Failure
  <1> QED
    BY <1>5, <1>6, <1>7

\* A step writes its own call, and the histories as its kind of step does.
Own(c) ==
  /\ \A d \in Calls : d # c => call'[d] = call[d]
  /\ failures' = failures \/ (failures < MaxFailures /\ failures' = failures + 1)
  /\ UNCHANGED overlapped \/ \E p \in BOOLEAN : overlapped' = (overlapped \/ p)

LEMMA StepsAreOwn ==
  ASSUME call = [d \in Calls |-> call[d]], NEW c \in Calls,
         Begin(c) \/ Create(c) \/ Get(c) \/ Put(c) \/ Remove(c) \/ Failure(c)
  PROVE  Own(c)
  <1>1. Advance(c) => Own(c)
    BY DEF Advance, Own
  <1>2. \A pc : GoTo(c, pc) => Own(c)
    BY DEF GoTo, Own
  <1>3. Stop(c) => \A d \in Calls : d # c => call'[d] = call[d]
    BY DEF Stop
  <1>4. Refused(c) => Own(c)
    BY <1>3 DEF Refused, Own
  <1>5. CASE Begin(c)
    <2>1. \E record : call' = [call EXCEPT ![c] = record]
      BY <1>5 DEF Begin
    <2>2. \A d \in Calls : d # c => call'[d] = call[d]
      BY <2>1
    <2>3. PICK request \in Requests :
            overlapped' = (overlapped \/ (Permission(Head(request).key) /\
              \E d \in Calls : Working(d) /\ Permission(Now(d).key)))
      BY <1>5 DEF Begin
    <2>4. \E p \in BOOLEAN : overlapped' = (overlapped \/ p)
      <3> DEFINE p == Permission(Head(request).key) /\
                      \E d \in Calls : Working(d) /\ Permission(Now(d).key)
      <3>1. p \in BOOLEAN
        OBVIOUS
      <3> QED
        BY <2>3, <3>1, Zenon
    <2>5. UNCHANGED failures
      BY <1>5 DEF Begin
    <2> QED
      BY <2>2, <2>4, <2>5 DEF Own
  <1>6. CASE Create(c)
    BY <1>1, <1>2, <1>4, <1>6 DEF Create
  <1>7. CASE Get(c)
    <2>1. CASE /\ call' = [call EXCEPT ![c].pc = "put", ![c].seen = object[Now(c).key].rv,
                                       ![c].base = object[Now(c).key].value]
               /\ UNCHANGED <<object, version, failures, granted, overlapped>>
      <3>1. \A d \in Calls : d # c => call'[d] = call[d]
        BY <2>1
      <3> QED
        BY <2>1, <3>1 DEF Own
    <2> QED
      BY <1>2, <1>4, <1>7, <2>1 DEF Get
  <1>8. CASE Put(c) \/ Remove(c)
    BY <1>1, <1>4, <1>8 DEF Put, Remove
  <1>9. CASE Failure(c)
    BY <1>3, <1>9 DEF Failure, Own
  <1> QED
    BY <1>5, <1>6, <1>7, <1>8, <1>9

\* What the cluster removes leaves the calls and the fields of the rest.
LEMMA CollectTyped ==
  ASSUME TypeInv, ClusterNext, NEW o, Collects(o)
  PROVE  /\ FieldsInv' /\ CallsTyped' /\ failures' \in 0..MaxFailures
         /\ granted' \subseteq Names /\ overlapped' \in BOOLEAN
  <1>1. FieldsInv'
    <2> SUFFICES ASSUME NEW p \in ObjectKeys PROVE Shaped(p, object'[p].value)
      BY DEF FieldsInv, Shaped
    <2> DEFINE new == [Value EXCEPT ![o] = Gone]
    <2>1. Value'[p] = object'[p].value /\ Value[p] = object[p].value
      BY DEF Value
    <2>2. new[p] = IF p = o THEN Gone ELSE Value[p]
      BY DEF Value
    <2>3. Value' = new
      BY DEF Collects
    <2> QED
      BY <2>1, <2>2, <2>3 DEF TypeInv, FieldsInv, Shaped
  <1>2. CallsTyped'
    <2>1. /\ version \in Nat /\ version' \in Nat /\ version <= version'
      BY VersionsGrow DEF TypeInv, SharedInv, ClusterInv, ObjectInv
    <2> QED
      BY <2>1 DEF Collects, TypeInv, CallsTyped, CallTyped, Working
  <1>3. failures' \in 0..MaxFailures /\ granted' \subseteq Names
    BY DEF Collects, TypeInv
  <1>4. overlapped' \in BOOLEAN
    BY DEF Collects, TypeInv
  <1> QED
    BY <1>1, <1>2, <1>3, <1>4

LEMMA CallsStep ==
  ASSUME TypeInv, ClusterNext, NEW c \in Calls,
         Begin(c) \/ Create(c) \/ Get(c) \/ Put(c) \/ Remove(c) \/ Failure(c)
  PROVE  CallsTyped' /\ failures' \in 0..MaxFailures /\ overlapped' \in BOOLEAN
  <1>2. /\ call = [d \in Calls |-> call[d]]
        /\ call[c] = [pc |-> call[c].pc, todo |-> call[c].todo, seen |-> call[c].seen,
                      base |-> call[c].base]
        /\ call[c].todo \in Seq(Writes)
    BY DEF TypeInv, SharedInv, ClusterInv, CallInv, CallOK
  <1>3. /\ version \in Nat /\ version' \in Nat /\ version <= version'
        /\ \A o \in ObjectKeys : object[o].rv \in 0..version
    BY VersionsGrow DEF TypeInv, SharedInv, ClusterInv, ObjectInv
  <1>4. Own(c)
    BY <1>2, StepsAreOwn
  <1>5. CallTyped(c)
    BY DEF TypeInv, CallsTyped
  <1>6. CallTyped(c)'
    <2>1. CASE call'[c] = [pc |-> "failed", todo |-> <<>>, seen |-> 0, base |-> Gone]
      BY <1>3, <2>1 DEF CallTyped, Working
    <2>2. CASE \E request \in Requests :
                 call'[c] = [pc |-> FirstPc(Head(request)), todo |-> request, seen |-> 0,
                             base |-> Gone]
      BY <1>3, <2>2, FirstPcFacts, RequestsAreWrites DEF CallTyped, Working, RequestKinds
    <2>3. CASE Advance(c)
      <3> DEFINE rest == Tail(call[c].todo)
      <3>1. call'[c] = [pc |-> IF rest = <<>> THEN "done" ELSE FirstPc(Head(rest)),
                        todo |-> rest, seen |-> 0, base |-> Gone]
        BY <1>2, <2>3 DEF Advance
      <3> HIDE DEF rest
      <3> QED
        BY <1>3, <3>1, FirstPcFacts DEF CallTyped, Working
    <2>4. CASE \E pc \in {"create", "get"} : GoTo(c, pc) /\ Working(c)
      <3>1. PICK pc \in {"create", "get"} : GoTo(c, pc) /\ Working(c)
        BY <2>4
      <3>2. call'[c].pc = pc /\ call'[c].todo = call[c].todo /\ call'[c].seen = call[c].seen
        BY <1>2, <3>1 DEF GoTo
      <3> QED
        BY <1>3, <1>5, <3>1, <3>2 DEF CallTyped, Working
    <2>5. CASE /\ Working(c) /\ call[c].pc = "get"
               /\ call' = [call EXCEPT ![c].pc = "put", ![c].seen = object[Now(c).key].rv,
                                       ![c].base = object[Now(c).key].value]
      <3>1. call'[c].pc = "put" /\ call'[c].todo = call[c].todo
              /\ call'[c].seen = object[Now(c).key].rv
        BY <1>2, <2>5
      <3>2. Now(c).key \in ObjectKeys
        BY <2>5, NowFacts DEF TypeInv, SharedInv
      <3> QED
        BY <1>3, <1>5, <2>5, <3>1, <3>2 DEF CallTyped, Working
    <2>6. ASSUME Stop(c)
          PROVE  call'[c] = [pc |-> "failed", todo |-> <<>>, seen |-> 0, base |-> Gone]
      BY <1>2, <2>6 DEF Stop, Idle
    <2>7. CASE Begin(c)
      BY <1>2, <2>2, <2>7 DEF Begin, Idle
    <2>8. CASE Create(c) \/ Get(c)
      BY <2>1, <2>3, <2>4, <2>5, <2>6, <2>8 DEF Create, Get, Refused, Working
    <2>9. CASE Put(c) \/ Remove(c) \/ Failure(c)
      BY <2>1, <2>3, <2>6, <2>9 DEF Put, Remove, Failure, Refused
    <2> QED
      BY <2>7, <2>8, <2>9
  <1>7. CallsTyped'
    <2> SUFFICES ASSUME NEW d \in Calls PROVE CallTyped(d)'
      BY DEF CallsTyped
    <2>1. CallTyped(d)
      BY DEF TypeInv, CallsTyped
    <2> QED
      BY <1>3, <1>4, <1>6, <2>1 DEF Own, CallTyped, Working
  <1>8. failures' \in 0..MaxFailures
    BY <1>4, ClusterAssumption DEF Own, TypeInv
  <1>9. overlapped' \in BOOLEAN
    BY <1>4 DEF Own, TypeInv
  <1> QED
    BY <1>7, <1>8, <1>9

\* Versions, fields, calls and histories have their types, and a call has
\* something left to do exactly while it works (the operations of k8s).
THEOREM ClusterTyped == ClusterSpec => []ClusterTypeOK
  <1>1. ClusterInit /\ SharedInv => TypeInv
    <2> SUFFICES ASSUME ClusterInit, SharedInv PROVE TypeInv
      OBVIOUS
    <2>1. FieldsInv
      <3>1. PICK start \in Starts : object = [o \in ObjectKeys |-> [value |-> start[o], rv |-> 0]]
        BY DEF ClusterInit
      <3> QED
        BY <3>1 DEF FieldsInv, Shaped, Starts, Empty
    <2>2. CallsTyped
      BY DEF ClusterInit, CallsTyped, CallTyped, Working, Idle
    <2>3. failures \in 0..MaxFailures /\ granted \subseteq Names
      BY ClusterAssumption DEF ClusterInit
    <2>4. overlapped \in BOOLEAN
      BY DEF ClusterInit
    <2> QED
      BY <2>1, <2>2, <2>3, <2>4 DEF TypeInv
  <1>2. TypeInv /\ SharedInv' /\ [ClusterNext]_clusterVars => TypeInv'
    <2> SUFFICES ASSUME TypeInv, SharedInv', [ClusterNext]_clusterVars PROVE TypeInv'
      OBVIOUS
    <2>1. CASE ClusterNext
      <3>1. ASSUME NEW c \in Calls,
                   Begin(c) \/ Create(c) \/ Get(c) \/ Put(c) \/ Remove(c) \/ Failure(c)
            PROVE  TypeInv'
        <4>1. Moved(c)
          BY <3>1, NextMoves DEF TypeInv, SharedInv
        <4> QED
          BY <2>1, <3>1, <4>1, FieldsStep, CallsStep DEF TypeInv
      <3>2. ASSUME NEW o \in InNamespace \cup {"namespace"}, Collect(o) PROVE TypeInv'
        <4>1. Collects(o)
          BY <3>2, CollectStep DEF TypeInv, SharedInv
        <4> QED
          BY <2>1, <4>1, CollectTyped DEF TypeInv
      <3> QED
        BY <2>1, <3>1, <3>2 DEF ClusterNext
    <2>2. CASE UNCHANGED clusterVars
      BY <2>2 DEF clusterVars, TypeInv, FieldsInv, Shaped, CallsTyped, CallTyped, Working
    <2> QED
      BY <2>1, <2>2
  <1>3. TypeInv => ClusterTypeOK
    BY DEF TypeInv, SharedInv, ClusterInv, ObjectInv, FieldsInv, Shaped, CallsTyped, CallTyped,
       ClusterTypeOK, There
  <1> QED
    BY <1>1, <1>2, <1>3, SharedSpecInv, PTL DEF ClusterSpec
=============================================================================
