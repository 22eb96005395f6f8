------------------------- MODULE LayerContextsProofs -------------------------
(***************************************************************************)
(* Proofs about LayerContexts, for every number of addresses, threads,     *)
(* children and lives.                                                     *)
(***************************************************************************)
EXTENDS LayerContexts, TLAPS

-----------------------------------------------------------------------------
(* The strengthening that makes the safety properties inductive.           *)

IsA(h, kind) == h \in Handles /\ object[h] # None /\ object[h].kind = kind

\* The objects form a forest: every parent lives, and is of the right kind.
TreeInv ==
    \A h \in Handles : object[h] # None =>
        /\ life[h] # 0
        /\ object[h].kind = "physical" => IsA(object[h].parent, "instance")
        /\ object[h].kind = "device" => IsA(object[h].parent, "physical")
        /\ object[h].kind = "queue" => IsA(object[h].parent, "device")
        /\ object[h].kind = "instance" => object[h].parent = None

KnownInv == \A h \in known : object[h] # None

\* Only instances and devices remember children.
OwnerInv ==
    \A h \in Handles : contexts[h] # None /\ contexts[h].children # {} =>
        contexts[h].kind \in {"instance", "device"}

\* The calls in progress, by the step they are at.
Busy(t) == at[t] # "idle"

CallOf(t) ==
    /\ IsA(subject[t], "instance") \/ IsA(subject[t], "device")
    /\ at[t] = "insert" => subject[t] \notin known /\ contexts[subject[t]] = None
    /\ at[t] = "register" =>
         /\ subject[t] \in known /\ contexts[subject[t]] # None
         /\ found[t] \subseteq Children(subject[t])
    /\ at[t] = "destroy" =>
         /\ \A h \in {subject[t]} \cup Children(subject[t]) :
              h \notin known /\ contexts[h] = None
         /\ \A p \in Children(subject[t]) : Children(p) = {}

CallInv == \A t \in Threads : Busy(t) => CallOf(t)

\* Creation and destruction have their objects to themselves.
AloneInv ==
    \A t, u \in Threads : t # u /\ Busy(t) /\ Busy(u) =>
        /\ at[t] # "register" => subject[u] # subject[t]
        /\ at[t] = "destroy" => subject[u] \notin Children(subject[t])

IInv == /\ TypeOK /\ TreeInv /\ KnownInv /\ OwnerInv /\ CallInv /\ AloneInv
        /\ NoStaleContext /\ OwnersKnowTheirChildren

-----------------------------------------------------------------------------
(* Facts about the objects.                                                *)

\* A child of an instance or of a device is a physical device or a queue, and no
\* instance or device.
LEMMA ChildKind ==
    ASSUME IInv, NEW h, IsA(h, "instance") \/ IsA(h, "device"), NEW c \in Children(h)
    PROVE  /\ c \in Handles /\ object[c] # None /\ object[c].parent = h
           /\ IsA(c, "physical") \/ IsA(c, "queue")
           /\ c # h
<1>1. c \in Handles /\ object[c] # None /\ object[c].parent = h /\ h \in Handles
  BY DEF Children, IsA
<1>2. object[c] \in Objects
  BY <1>1 DEF IInv, TypeOK
<1>3. object[c].kind \in Kinds
  BY <1>2 DEF Objects
<1>4. TreeInv
  BY DEF IInv
<1>5. object[c].kind # "instance"
  BY <1>1, <1>4, ContextConstants DEF TreeInv
<1>6. object[c].kind # "device"
  BY <1>1, <1>4 DEF TreeInv, IsA
<1> QED
  BY <1>1, <1>3, <1>5, <1>6 DEF Kinds, IsA

\* An object with a context is the one its context was built for.
LEMMA ContextHasObject ==
    ASSUME IInv, NEW h \in Handles, contexts[h] # None
    PROVE  /\ object[h] # None /\ contexts[h] \in Contexts
           /\ contexts[h].kind = object[h].kind
           /\ contexts[h].children \subseteq Children(h)
<1>1. object[h] # None /\ contexts[h].kind = object[h].kind /\ contexts[h] \in Contexts
  BY DEF IInv, TypeOK, NoStaleContext, IsCurrent
<1>2. ASSUME NEW c \in contexts[h].children
      PROVE  c \in Children(h)
  <2>1. c \in Handles
    BY <1>1 DEF Contexts
  <2>2. contexts[c] # None /\ object[c].parent = h
    BY DEF IInv, OwnersKnowTheirChildren
  <2>3. object[c] # None
    BY <2>1, <2>2 DEF IInv, NoStaleContext, IsCurrent
  <2> QED
    BY <2>1, <2>2, <2>3 DEF Children
<1> QED
  BY <1>1, <1>2

\* A context that remembers children is that of an instance or a device.
LEMMA OwnerKind ==
    ASSUME IInv, NEW h \in Handles, contexts[h] # None, contexts[h].children # {}
    PROVE  IsA(h, "instance") \/ IsA(h, "device")
<1>1. contexts[h].kind \in {"instance", "device"}
  BY DEF IInv, OwnerInv
<1> QED
  BY <1>1, ContextHasObject DEF IsA

-----------------------------------------------------------------------------
(* The inductive step, action by action.                                   *)

LEMMA InitInv == Init => IInv
<1> SUFFICES ASSUME Init PROVE IInv
  OBVIOUS
<1>1. TypeOK
  BY ContextConstants DEF Init, TypeOK, Steps
<1>2. TreeInv /\ KnownInv /\ OwnerInv /\ NoStaleContext /\ OwnersKnowTheirChildren
  BY DEF Init, TreeInv, KnownInv, OwnerInv, NoStaleContext, OwnersKnowTheirChildren
<1>3. CallInv /\ AloneInv
  BY DEF Init, CallInv, AloneInv, Busy
<1> QED
  BY <1>1, <1>2, <1>3 DEF IInv

\* The driver's part of a creation: the new objects are at addresses that were free,
\* hence without a context, and no call is about them.
LEMMA CreatesInv ==
    ASSUME IInv, NEW t \in Threads, at[t] = "idle",
           NEW h \in Handles, NEW cs \in SUBSET Handles, h \notin cs,
           \A x \in {h} \cup cs : Free(x),
           NEW kind, NEW parent, NEW childKind,
           \/ kind = "instance" /\ parent = None /\ childKind = "physical"
           \/ /\ kind = "device" /\ childKind = "queue"
              /\ parent \in known /\ IsA(parent, "physical"),
           DriverCreates(h, kind, parent, cs, childKind),
           Enter(t, "insert", h, {}),
           UNCHANGED <<contexts, known>>
    PROVE  IInv'
<1> DEFINE new == {h} \cup cs
<1>1. \A x \in new : x \in Handles /\ object[x] = None /\ contexts[x] = None /\ x \notin known
  BY DEF Free, IInv, NoStaleContext, KnownInv, IsCurrent
<1>2. \A x \in Handles \ new : object'[x] = object[x] /\ life'[x] = life[x]
  BY DEF DriverCreates
<1>3. /\ object'[h] = [kind |-> kind, parent |-> parent]
      /\ \A x \in cs : object'[x] = [kind |-> childKind, parent |-> h]
  BY DEF DriverCreates
<1>4. \A x \in new : object'[x] \in Objects /\ object'[x] # None
  <2>1. object'[h] \in Objects
    BY <1>3 DEF Objects, Kinds, IsA
  <2>2. \A x \in cs : object'[x] \in Objects
    BY <1>3 DEF Objects, Kinds
  <2> QED
    BY <2>1, <2>2, ContextConstants
<1>5. \A x \in new : life'[x] = life[x] + 1 /\ life[x] \in 0..MaxLives /\ life[x] < MaxLives
  BY DEF DriverCreates, Free, IInv, TypeOK
<1>6. /\ at' = [at EXCEPT ![t] = "insert"] /\ subject' = [subject EXCEPT ![t] = h]
      /\ found' = [found EXCEPT ![t] = {}]
  BY DEF Enter
<1>7. contexts' = contexts /\ known' = known
  OBVIOUS
<1>8. object' = [x \in Handles |-> object'[x]] /\ life' = [x \in Handles |-> life'[x]]
  BY DEF DriverCreates
<1>t. IInv /\ TypeOK /\ TreeInv /\ KnownInv /\ OwnerInv /\ CallInv /\ AloneInv
      /\ NoStaleContext /\ OwnersKnowTheirChildren
  BY DEF IInv
<1>9. TypeOK'
  <2>1. object' \in [Handles -> Objects \cup {None}]
    BY <1>8, <1>4, <1>2, <1>t DEF TypeOK
  <2>2. \A x \in Handles : life'[x] \in 0..MaxLives
    BY <1>5, <1>2, <1>t, ContextConstants DEF TypeOK
  <2>3. life' \in [Handles -> 0..MaxLives]
    BY <1>8, <2>2
  <2> QED
    BY <2>1, <2>3, <1>6, <1>7, <1>t DEF TypeOK, Steps
<1> HIDE DEF new
\* What lived before lives on.
<1>10. ASSUME NEW x \in Handles, object[x] # None
       PROVE  x \notin new /\ object'[x] = object[x]
  BY <1>1, <1>2, <1>10
<1> DEFINE WillBe(x, k) == x \in Handles /\ object'[x] # None /\ object'[x].kind = k
<1>11. ASSUME NEW x, NEW k, IsA(x, k)
       PROVE  WillBe(x, k)
  BY <1>10, <1>11 DEF IsA
<1>12. WillBe(h, kind)
  BY <1>3, <1>4 DEF new
<1>13. TreeInv'
  <2> DEFINE Rooted(x) ==
        /\ life'[x] # 0
        /\ object'[x].kind = "physical" => WillBe(object'[x].parent, "instance")
        /\ object'[x].kind = "device" => WillBe(object'[x].parent, "physical")
        /\ object'[x].kind = "queue" => WillBe(object'[x].parent, "device")
        /\ object'[x].kind = "instance" => object'[x].parent = None
  <2> SUFFICES ASSUME NEW x \in Handles, object'[x] # None
               PROVE  Rooted(x)
    BY DEF TreeInv, IsA
  <2> HIDE DEF WillBe
  <2>1. CASE x \notin new
    <3>1. object'[x] = object[x] /\ life'[x] = life[x]
      BY <2>1, <1>2
    <3>2. object[x] # None
      BY <3>1
    <3> QED
      BY <3>1, <3>2, <1>11, <1>t DEF TreeInv
  <2>2. CASE x = h
    <3>1. life'[x] # 0
      BY <2>2, <1>5 DEF new
    <3>2. object'[x].kind = kind /\ object'[x].parent = parent
      BY <2>2, <1>3
    <3> QED
      BY <1>11, <3>1, <3>2
  <2>3. CASE x \in cs
    <3>1. life'[x] # 0
      BY <2>3, <1>5 DEF new
    <3>2. object'[x].kind = childKind /\ object'[x].parent = h
      BY <2>3, <1>3
    <3> QED
      BY <1>12, <3>1, <3>2
  <2> QED
    BY <2>1, <2>2, <2>3 DEF new
<1>14. KnownInv' /\ OwnerInv'
  BY <1>7, <1>10, <1>t DEF KnownInv, OwnerInv, TypeOK
<1>15. NoStaleContext'
  <2> SUFFICES ASSUME NEW x \in Handles, contexts[x] # None
               PROVE  IsCurrent(x)'
    BY <1>7 DEF NoStaleContext
  <2>1. IsCurrent(x)
    BY <1>t DEF NoStaleContext
  <2>2. x \notin new /\ object'[x] = object[x]
    BY <2>1, <1>10 DEF IsCurrent
  <2> QED
    BY <2>1, <2>2, <1>2, <1>7 DEF IsCurrent
<1>16. OwnersKnowTheirChildren'
  <2> SUFFICES ASSUME NEW x \in Handles, contexts[x] # None
               PROVE  /\ \A c \in contexts[x].children : contexts[c] # None /\ object'[c].parent = x
                      /\ object'[x].kind \in {"physical", "queue"} =>
                           /\ contexts[object'[x].parent] # None
                           /\ x \in contexts[object'[x].parent].children
    BY <1>7 DEF OwnersKnowTheirChildren
  <2>1. object'[x] = object[x]
    BY <1>10, ContextHasObject
  <2>2. ASSUME NEW c \in contexts[x].children
        PROVE  contexts[c] # None /\ object'[c] = object[c]
    BY <1>10, ContextHasObject DEF Children, OwnersKnowTheirChildren, IInv
  <2> QED
    BY <2>1, <2>2, <1>t DEF OwnersKnowTheirChildren
\* No call in progress is about the new objects or their parent.
<1>17. ASSUME NEW u \in Threads, u # t, Busy(u)
       PROVE  /\ subject[u] \notin new
              /\ IsA(subject[u], "instance") \/ IsA(subject[u], "device")
              /\ subject[u] # parent
              /\ Children(subject[u])' = Children(subject[u])
  <2>1. IsA(subject[u], "instance") \/ IsA(subject[u], "device")
    BY <1>17, <1>t DEF CallInv, CallOf
  <2>2. subject[u] \in Handles /\ object[subject[u]] # None
    BY <2>1 DEF IsA
  <2>3. subject[u] \notin new
    BY <2>2, <1>1
  <2>4. subject[u] # parent
    BY <2>1, <2>2, ContextConstants DEF IsA
  <2>5. ASSUME NEW c \in Handles
        PROVE  (object'[c] # None /\ object'[c].parent = subject[u])
                 <=> (object[c] # None /\ object[c].parent = subject[u])
    <3>1. CASE c \notin new
      BY <3>1, <1>2
    <3>2. CASE c = h
      BY <3>2, <1>1, <1>3, <2>4 DEF new
    <3>3. CASE c \in cs
      BY <3>3, <1>1, <1>3, <2>3 DEF new
    <3> QED
      BY <3>1, <3>2, <3>3 DEF new
  <2>6. Children(subject[u])' = {c \in Handles : object'[c] # None /\ object'[c].parent = subject[u]'}
    BY DEF Children
  <2>7. subject'[u] = subject[u]
    BY <1>6, <1>17, <1>t DEF TypeOK
  <2> QED
    BY <2>1, <2>3, <2>4, <2>5, <2>6, <2>7 DEF Children
<1>18. \A u \in Threads : u # t => /\ at'[u] = at[u] /\ subject'[u] = subject[u]
                                   /\ found'[u] = found[u]
  BY <1>6, <1>t DEF TypeOK
<1>19. at'[t] = "insert" /\ subject'[t] = h
  BY <1>6, <1>t DEF TypeOK
<1>20. CallInv'
  <2> SUFFICES ASSUME NEW u \in Threads, Busy(u)'
               PROVE  /\ WillBe(subject'[u], "instance") \/ WillBe(subject'[u], "device")
                      /\ at'[u] = "insert" =>
                           subject'[u] \notin known /\ contexts[subject'[u]] = None
                      /\ at'[u] = "register" =>
                           /\ subject'[u] \in known /\ contexts[subject'[u]] # None
                           /\ found'[u] \subseteq Children(subject[u])'
                      /\ at'[u] = "destroy" =>
                           /\ \A x \in {subject'[u]} \cup Children(subject[u])' :
                                x \notin known /\ contexts[x] = None
                           /\ \A p \in Children(subject[u])' :
                                \A c \in Handles : object'[c] # None => object'[c].parent # p
    BY <1>7 DEF CallInv, CallOf, IsA, Children
  <2>1. CASE u = t
    BY <2>1, <1>1, <1>12, <1>19 DEF new
  <2>2. CASE u # t
    <3>1. Busy(u) /\ at'[u] = at[u] /\ subject'[u] = subject[u] /\ found'[u] = found[u]
      BY <2>2, <1>18 DEF Busy
    <3>2. WillBe(subject[u], "instance") \/ WillBe(subject[u], "device")
      BY <2>2, <3>1, <1>17, <1>11
    <3>3. Children(subject[u])' = Children(subject[u])
      BY <2>2, <3>1, <1>17
    <3>4. ASSUME at[u] = "destroy", NEW p \in Children(subject[u]),
                 NEW c \in Handles, object'[c] # None, object'[c].parent = p
          PROVE  FALSE
      <4>1. p \notin known /\ Children(p) = {}
        BY <3>1, <3>4, <1>t DEF CallInv, CallOf
      <4>2. p \in Handles /\ object[p] # None
        BY <3>4 DEF Children
      <4>3. p \notin new
        BY <4>2, <1>1
      <4>4. c \notin new
        BY <3>4, <4>1, <4>2, <4>3, <1>3, ContextConstants DEF new
      <4> QED
        BY <3>4, <4>1, <4>4, <1>2 DEF Children
    <3> QED
      BY <3>1, <3>2, <3>3, <3>4, <1>t DEF CallInv, CallOf
  <2> QED
    BY <2>1, <2>2
<1>21. AloneInv'
  <2> SUFFICES ASSUME NEW u \in Threads, NEW v \in Threads, u # v, Busy(u)', Busy(v)'
               PROVE  /\ at'[u] # "register" => subject'[v] # subject'[u]
                      /\ at'[u] = "destroy" => subject'[v] \notin Children(subject[u])'
    BY DEF AloneInv, Children
  <2>1. CASE u # t /\ v # t
    BY <2>1, <1>17, <1>18, <1>t DEF AloneInv, Busy
  <2>2. CASE u = t
    BY <2>2, <1>17, <1>18, <1>19 DEF Busy, new
  <2>3. CASE v = t
    <3>1. Busy(u) /\ subject'[u] = subject[u]
      BY <2>3, <1>18 DEF Busy
    <3>2. subject[u] # h /\ h \notin Children(subject[u])
      BY <2>3, <3>1, <1>17, <1>1 DEF new, Children
    <3> QED
      BY <2>3, <3>1, <3>2, <1>17, <1>19
  <2> QED
    BY <2>1, <2>2, <2>3
<1> QED
  BY <1>9, <1>13, <1>14, <1>15, <1>16, <1>20, <1>21 DEF IInv

LEMMA CreateInstanceInv ==
    ASSUME IInv, NEW t \in Threads, CreateInstance(t)
    PROVE  IInv'
<1>1. PICK p \in Places : /\ DriverCreates(p[1], "instance", None, p[2], "physical")
                          /\ Enter(t, "insert", p[1], {})
  BY DEF CreateInstance
<1>2. /\ p[1] \in Handles /\ p[2] \in SUBSET Handles /\ p[1] \notin p[2]
      /\ \A x \in {p[1]} \cup p[2] : Free(x)
  BY DEF Places
<1> QED
  BY <1>1, <1>2, CreatesInv DEF CreateInstance

LEMMA CreateDeviceInv ==
    ASSUME IInv, NEW t \in Threads, NEW q \in Handles, CreateDevice(t, q)
    PROVE  IInv'
<1>1. PICK p \in Places : /\ DriverCreates(p[1], "device", q, p[2], "queue")
                          /\ Enter(t, "insert", p[1], {})
  BY DEF CreateDevice
<1>2. /\ p[1] \in Handles /\ p[2] \in SUBSET Handles /\ p[1] \notin p[2]
      /\ \A x \in {p[1]} \cup p[2] : Free(x)
  BY DEF Places
<1>3. q \in known /\ IsA(q, "physical")
  BY DEF CreateDevice, HandlesOf, IInv, KnownInv, IsA
<1> QED
  BY <1>1, <1>2, <1>3, CreatesInv DEF CreateDevice

\* A call in progress goes on when the steps of other threads leave its objects alone.
LEMMA OtherCall ==
    ASSUME IInv, NEW u \in Threads, Busy(u), object' = object,
           at'[u] = at[u], subject'[u] = subject[u], found'[u] = found[u],
           at[u] = "insert" => subject[u] \notin known' /\ contexts'[subject[u]] = None,
           at[u] = "register" => subject[u] \in known' /\ contexts'[subject[u]] # None,
           at[u] = "destroy" => \A x \in {subject[u]} \cup Children(subject[u]) :
                                  x \notin known' /\ contexts'[x] = None
    PROVE  CallOf(u)'
<1>1. CallOf(u)
  BY DEF IInv, CallInv
<1>2. Children(subject[u])' = Children(subject[u])
  BY DEF Children
<1>3. (\A p \in Children(subject[u]) : Children(p) = {})'
         <=> (\A p \in Children(subject[u]) : Children(p) = {})
  BY DEF Children
<1>4. IsA(subject[u], "instance")' \/ IsA(subject[u], "device")'
  BY <1>1 DEF CallOf, IsA
<1> QED
  BY <1>1, <1>2, <1>3, <1>4 DEF CallOf

LEMMA InsertInv ==
    ASSUME IInv, NEW t \in Threads, Insert(t)
    PROVE  IInv'
<1> PICK s : s = subject[t]
  OBVIOUS
<1>t. TypeOK /\ TreeInv /\ KnownInv /\ OwnerInv /\ CallInv /\ AloneInv
      /\ NoStaleContext /\ OwnersKnowTheirChildren
  BY DEF IInv
<1>1. /\ at[t] = "insert" /\ object' = object /\ life' = life
      /\ known' = known \cup {s} /\ contexts' = Emplaced({s})
      /\ at' = [at EXCEPT ![t] = "idle"] /\ subject' = [subject EXCEPT ![t] = None]
      /\ found' = [found EXCEPT ![t] = {}]
  BY DEF Insert, driverVars, Leave, Enter
<1>2. /\ s \in Handles /\ object[s] # None /\ s \notin known /\ contexts[s] = None
      /\ object[s].kind \in {"instance", "device"}
  BY <1>1, <1>t DEF CallInv, CallOf, IsA, Busy
<1>3. /\ \A x \in Handles : x # s => contexts'[x] = contexts[x]
      /\ contexts'[s] = [kind |-> object[s].kind, life |-> life[s], children |-> {}]
      /\ contexts' = [x \in Handles |-> contexts'[x]]
  BY <1>1, <1>2 DEF Emplaced, NewContext
<1>4. contexts'[s] \in Contexts
  <2>1. life[s] \in 1..MaxLives
    BY <1>2, <1>t, ContextConstants DEF TypeOK, TreeInv
  <2> QED
    BY <1>2, <1>3, <2>1 DEF Contexts, Kinds
<1>5. TypeOK'
  <2>1. contexts' \in [Handles -> Contexts \cup {None}]
    BY <1>3, <1>4, <1>t DEF TypeOK
  <2> QED
    BY <2>1, <1>1, <1>2, <1>t DEF TypeOK, Steps
<1>6. contexts'[s] # None
  BY <1>4, ContextConstants
<1>7. TreeInv' /\ KnownInv'
  BY <1>1, <1>2, <1>t DEF TreeInv, IsA, KnownInv
<1>8. OwnerInv'
  BY <1>3, <1>t DEF OwnerInv
<1>9. NoStaleContext'
  <2>1. \A x \in Handles : x # s /\ contexts'[x] # None => IsCurrent(x)'
    BY <1>1, <1>3, <1>t DEF NoStaleContext, IsCurrent
  <2>2. IsCurrent(s)'
    BY <1>1, <1>2, <1>3 DEF IsCurrent
  <2> QED
    BY <2>1, <2>2 DEF NoStaleContext
<1>10. OwnersKnowTheirChildren'
  <2> SUFFICES ASSUME NEW x \in Handles, contexts'[x] # None
               PROVE  /\ \A c \in contexts'[x].children : contexts'[c] # None /\ object[c].parent = x
                      /\ object[x].kind \in {"physical", "queue"} =>
                           /\ contexts'[object[x].parent] # None
                           /\ x \in contexts'[object[x].parent].children
    BY <1>1 DEF OwnersKnowTheirChildren
  <2>1. CASE x = s
    BY <2>1, <1>2, <1>3
  <2>2. CASE x # s
    <3>1. contexts'[x] = contexts[x] /\ contexts[x] # None
      BY <2>2, <1>3
    <3>2. object[x] # None /\ contexts[x].children \subseteq Handles
      BY <3>1, ContextHasObject DEF Children
    <3>3. object[x].kind \in {"physical", "queue"} => object[x].parent \in Handles
      BY <3>2, <1>t DEF TreeInv, IsA
    <3> QED
      BY <3>1, <3>2, <3>3, <1>2, <1>3, <1>6, <1>t DEF OwnersKnowTheirChildren
  <2> QED
    BY <2>1, <2>2
<1>11. \A u \in Threads : u # t => /\ at'[u] = at[u] /\ subject'[u] = subject[u]
                                   /\ found'[u] = found[u]
  BY <1>1, <1>t DEF TypeOK
<1>12. at'[t] = "idle"
  BY <1>1, <1>t DEF TypeOK
<1>13. \A h : Children(h) = {c \in Handles : object'[c] # None /\ object'[c].parent = h}
  BY <1>1 DEF Children
<1>14. CallInv'
  <2> SUFFICES ASSUME NEW u \in Threads, Busy(u)'
               PROVE  CallOf(u)'
    BY DEF CallInv
  <2>1. u # t /\ Busy(u) /\ at'[u] = at[u] /\ subject'[u] = subject[u] /\ found'[u] = found[u]
    BY <1>11, <1>12 DEF Busy
  <2>2. subject[u] # s /\ (at[u] = "destroy" => s \notin Children(subject[u]))
    BY <2>1, <1>1, <1>t DEF AloneInv, Busy
  <2>3. CallOf(u) /\ subject[u] \in Handles /\ Children(subject[u]) \subseteq Handles
    BY <2>1, <1>t DEF CallInv, CallOf, IsA, Children
  <2>4. at[u] = "insert" => subject[u] \notin known' /\ contexts'[subject[u]] = None
    BY <2>2, <2>3, <1>1, <1>3 DEF CallOf
  <2>5. at[u] = "register" => subject[u] \in known' /\ contexts'[subject[u]] # None
    BY <2>2, <2>3, <1>1, <1>3 DEF CallOf
  <2>6. at[u] = "destroy" => \A x \in {subject[u]} \cup Children(subject[u]) :
                               x \notin known' /\ contexts'[x] = None
    BY <2>2, <2>3, <1>1, <1>3 DEF CallOf
  <2> QED
    BY <2>1, <2>4, <2>5, <2>6, <1>1, OtherCall
<1>15. AloneInv'
  BY <1>1, <1>11, <1>12, <1>t DEF AloneInv, Busy, Children
<1> QED
  BY <1>5, <1>7, <1>8, <1>9, <1>10, <1>14, <1>15 DEF IInv

\* A call that has the driver's answer goes on to register it; its object is known, so
\* no creation or destruction is about it.
LEMMA RegisterCallInv ==
    ASSUME IInv, NEW t \in Threads, at[t] = "idle",
           NEW h \in known, IsA(h, "instance") \/ IsA(h, "device"), contexts[h] # None,
           NEW s \in SUBSET Children(h), Enter(t, "register", h, s),
           UNCHANGED <<driverVars, contexts, known>>
    PROVE  IInv'
<1>t. TypeOK /\ TreeInv /\ KnownInv /\ OwnerInv /\ CallInv /\ AloneInv
      /\ NoStaleContext /\ OwnersKnowTheirChildren
  BY DEF IInv
<1>1. /\ object' = object /\ life' = life /\ contexts' = contexts /\ known' = known
      /\ at' = [at EXCEPT ![t] = "register"] /\ subject' = [subject EXCEPT ![t] = h]
      /\ found' = [found EXCEPT ![t] = s]
  BY DEF driverVars, Enter
<1>2. h \in Handles /\ s \subseteq Handles
  BY <1>t DEF TypeOK, Children
<1>3. TypeOK'
  BY <1>1, <1>2, <1>t DEF TypeOK, Steps
<1>4. TreeInv' /\ KnownInv' /\ OwnerInv'
  BY <1>1, <1>t DEF TreeInv, IsA, KnownInv, OwnerInv
<1>5. NoStaleContext' /\ OwnersKnowTheirChildren'
  BY <1>1, <1>t DEF NoStaleContext, IsCurrent, OwnersKnowTheirChildren
<1>6. \A u \in Threads : u # t => /\ at'[u] = at[u] /\ subject'[u] = subject[u]
                                  /\ found'[u] = found[u]
  BY <1>1, <1>t DEF TypeOK
<1>7. at'[t] = "register" /\ subject'[t] = h /\ found'[t] = s
  BY <1>1, <1>t DEF TypeOK
<1>8. ASSUME NEW u \in Threads, Busy(u)'
      PROVE  CallOf(u)'
  <2>1. CASE u = t
    <3>1. Children(subject[u])' = Children(h)
      BY <2>1, <1>1, <1>7 DEF Children
    <3>2. IsA(subject[u], "instance")' \/ IsA(subject[u], "device")'
      BY <2>1, <1>1, <1>7 DEF IsA
    <3> QED
      BY <2>1, <3>1, <3>2, <1>1, <1>7 DEF CallOf
  <2>2. CASE u # t
    <3>1. Busy(u) /\ at'[u] = at[u] /\ subject'[u] = subject[u] /\ found'[u] = found[u]
      BY <2>2, <1>6, <1>8 DEF Busy
    <3>2. CallOf(u)
      BY <3>1, <1>t DEF CallInv
    <3> QED
      BY <3>1, <3>2, <1>1, OtherCall DEF CallOf
  <2> QED
    BY <2>1, <2>2
<1>9. AloneInv'
  <2>1. \A u \in Threads : u # t /\ Busy(u) /\ at[u] # "register" =>
            /\ subject[u] \notin known
            /\ at[u] = "destroy" => \A c \in Children(subject[u]) : c \notin known
    BY <1>t DEF CallInv, CallOf, TypeOK, Steps, Busy
  <2> SUFFICES ASSUME NEW u \in Threads, NEW v \in Threads, u # v, Busy(u)', Busy(v)'
               PROVE  /\ at'[u] # "register" => subject'[v] # subject'[u]
                      /\ at'[u] = "destroy" => subject'[v] \notin Children(subject[u])'
    BY DEF AloneInv, Children
  <2>2. CASE u = t
    BY <2>2, <1>7
  <2>3. CASE u # t
    <3>1. Busy(u) /\ at'[u] = at[u] /\ subject'[u] = subject[u]
      BY <2>3, <1>6 DEF Busy
    <3>2. Children(subject[u])' = Children(subject[u])
      BY <3>1, <1>1 DEF Children
    <3> QED
      BY <2>1, <2>3, <3>1, <3>2, <1>6, <1>7, <1>t DEF AloneInv, Busy
  <2> QED
    BY <2>2, <2>3
<1> QED
  BY <1>3, <1>4, <1>5, <1>8, <1>9 DEF IInv, CallInv

LEMMA EnumeratePhysicalDevicesInv ==
    ASSUME IInv, NEW t \in Threads, NEW i \in Handles, EnumeratePhysicalDevices(t, i)
    PROVE  IInv'
<1>t. TypeOK /\ TreeInv /\ KnownInv /\ OwnerInv /\ CallInv /\ AloneInv
      /\ NoStaleContext /\ OwnersKnowTheirChildren
  BY DEF IInv
<1>1. /\ at[t] = "idle" /\ i \in known /\ IsA(i, "instance") /\ contexts[i] # None
      /\ UNCHANGED <<driverVars, contexts>>
  BY <1>t DEF EnumeratePhysicalDevices, HandlesOf, Found, IsA, KnownInv
<1>2. PICK s \in SUBSET Children(i) :
         IF EarlyReturn(i, s) THEN known' = known \cup s /\ UNCHANGED threadVars
         ELSE Enter(t, "register", i, s) /\ UNCHANGED known
  BY DEF EnumeratePhysicalDevices
<1>3. CASE ~EarlyReturn(i, s)
  BY <1>1, <1>2, <1>3, RegisterCallInv
<1>4. CASE EarlyReturn(i, s)
  <2>1. /\ object' = object /\ life' = life /\ contexts' = contexts /\ known' = known \cup s
        /\ at' = at /\ subject' = subject /\ found' = found
    BY <1>1, <1>2, <1>4 DEF driverVars, threadVars
  <2>2. \A c \in s : c \in Handles /\ object[c] # None /\ object[c].parent = i
                     /\ (IsA(c, "physical") \/ IsA(c, "queue"))
    BY <1>1, ChildKind
  <2>3. TypeOK'
    BY <2>1, <2>2, <1>t DEF TypeOK
  <2>4. TreeInv' /\ KnownInv' /\ OwnerInv'
    BY <2>1, <2>2, <1>t DEF TreeInv, IsA, KnownInv, OwnerInv
  <2>5. NoStaleContext' /\ OwnersKnowTheirChildren' /\ AloneInv'
    BY <2>1, <1>t DEF NoStaleContext, IsCurrent, OwnersKnowTheirChildren, AloneInv, Busy, Children
  <2>6. ASSUME NEW u \in Threads, Busy(u)'
        PROVE  CallOf(u)'
    <3>1. Busy(u) /\ CallOf(u)
      BY <2>1, <2>6, <1>t DEF Busy, CallInv
    <3>2. subject[u] \notin s
      BY <3>1, <2>2 DEF CallOf, IsA
    <3>3. at[u] = "destroy" => \A c \in Children(subject[u]) : c \notin s
      BY <3>1, <2>2, <1>1 DEF CallOf, Children
    <3> QED
      BY <3>1, <3>2, <3>3, <2>1, OtherCall DEF CallOf
  <2> QED
    BY <2>3, <2>4, <2>5, <2>6 DEF IInv, CallInv
<1> QED
  BY <1>3, <1>4

LEMMA GetDeviceQueueInv ==
    ASSUME IInv, NEW t \in Threads, NEW d \in Handles, GetDeviceQueue(t, d)
    PROVE  IInv'
<1>1. /\ at[t] = "idle" /\ d \in known /\ IsA(d, "device") /\ contexts[d] # None
      /\ UNCHANGED <<driverVars, contexts, known>>
  BY DEF GetDeviceQueue, HandlesOf, Found, IsA, IInv, KnownInv
<1>2. PICK q \in Children(d) : Enter(t, "register", d, {q})
  BY DEF GetDeviceQueue
<1> QED
  BY <1>1, <1>2, RegisterCallInv

\* Registering touches the owner and its children only; no other call that needs them
\* without a context is about them.
LEMMA RegisterInv ==
    ASSUME IInv, NEW t \in Threads, Register(t)
    PROVE  IInv'
<1> PICK s : s = subject[t]
  OBVIOUS
<1> PICK new : new = found[t]
  OBVIOUS
<1>t. TypeOK /\ TreeInv /\ KnownInv /\ OwnerInv /\ CallInv /\ AloneInv
      /\ NoStaleContext /\ OwnersKnowTheirChildren
  BY DEF IInv
<1>1. /\ at[t] = "register" /\ object' = object /\ life' = life
      /\ known' = known \cup new /\ contexts' = Adopted(Emplaced(new), s, new)
      /\ at' = [at EXCEPT ![t] = "idle"] /\ subject' = [subject EXCEPT ![t] = None]
      /\ found' = [found EXCEPT ![t] = {}]
  BY DEF Register, driverVars, Leave, Enter
<1>2. /\ s \in Handles /\ s \in known /\ contexts[s] # None /\ new \subseteq Children(s)
      /\ IsA(s, "instance") \/ IsA(s, "device")
  BY <1>1, <1>t DEF CallInv, CallOf, IsA, Busy
<1>3. \A c \in new : /\ c \in Handles /\ object[c] # None /\ object[c].parent = s /\ c # s
                     /\ IsA(c, "physical") \/ IsA(c, "queue")
  BY <1>2, ChildKind
<1>4. contexts[s] \in Contexts
  BY <1>2, ContextHasObject
<1>5. /\ \A x \in Handles : x \notin new /\ x # s => contexts'[x] = contexts[x]
      /\ \A x \in new : contexts'[x] = IF contexts[x] = None THEN NewContext(x) ELSE contexts[x]
      /\ contexts'[s] = [contexts[s] EXCEPT !.children = @ \cup new]
      /\ contexts' = [x \in Handles |-> contexts'[x]]
  BY <1>1, <1>2, <1>3 DEF Emplaced, Adopted
<1>6. /\ contexts'[s] \in Contexts /\ contexts'[s].children = contexts[s].children \cup new
      /\ contexts'[s].kind = contexts[s].kind /\ contexts'[s].life = contexts[s].life
  BY <1>3, <1>4, <1>5 DEF Contexts
<1>7. ASSUME NEW c \in new
      PROVE  /\ contexts'[c] \in Contexts /\ IsCurrent(c)'
             /\ contexts'[c].children = {}
  <2>1. CASE contexts[c] = None
    <3>1. contexts'[c] = [kind |-> object[c].kind, life |-> life[c], children |-> {}]
      BY <2>1, <1>5 DEF NewContext
    <3>2. life[c] \in 1..MaxLives /\ object[c].kind \in Kinds
      BY <1>3, <1>t, ContextConstants DEF TypeOK, TreeInv, Objects
    <3> QED
      BY <3>1, <3>2, <1>1, <1>3 DEF Contexts, IsCurrent
  <2>2. CASE contexts[c] # None
    <3>1. contexts'[c] = contexts[c] /\ contexts[c] \in Contexts
      BY <2>2, <1>3, <1>5, ContextHasObject
    <3>2. IsCurrent(c)'
      BY <2>2, <3>1, <1>1, <1>3, <1>t DEF NoStaleContext, IsCurrent
    <3>3. contexts[c].children = {}
      BY <2>2, <1>3, OwnerKind DEF IsA
    <3> QED
      BY <3>1, <3>2, <3>3
  <2> QED
    BY <2>1, <2>2
<1>8. TypeOK'
  <2>1. \A x \in Handles : contexts'[x] \in Contexts \cup {None}
    BY <1>5, <1>6, <1>7, <1>t DEF TypeOK
  <2>2. contexts' \in [Handles -> Contexts \cup {None}]
    BY <2>1, <1>5
  <2> QED
    BY <2>2, <1>1, <1>3, <1>t DEF TypeOK, Steps
\* Contexts only appear.
<1>9. \A x \in Handles : contexts[x] # None \/ x \in new => contexts'[x] # None
  BY <1>5, <1>6, <1>7, ContextConstants
<1>10. TreeInv' /\ KnownInv'
  BY <1>1, <1>3, <1>t DEF TreeInv, IsA, KnownInv
<1>11. OwnerInv'
  <2> SUFFICES ASSUME NEW x \in Handles, contexts'[x] # None, contexts'[x].children # {}
               PROVE  contexts'[x].kind \in {"instance", "device"}
    BY DEF OwnerInv
  <2>1. CASE x = s
    BY <2>1, <1>2, <1>6, ContextHasObject DEF IsA
  <2>2. CASE x # s
    BY <2>2, <1>5, <1>7, <1>t DEF OwnerInv
  <2> QED
    BY <2>1, <2>2
<1>12. NoStaleContext'
  <2>1. IsCurrent(s)
    BY <1>2, <1>t DEF NoStaleContext
  <2>2. object[s] # None /\ contexts'[s].kind = object[s].kind /\ contexts'[s].life = life[s]
    BY <2>1, <1>6 DEF IsCurrent
  <2>3. \A x \in Handles : x \notin new /\ x # s /\ contexts'[x] # None => IsCurrent(x)'
    BY <1>1, <1>5, <1>t DEF NoStaleContext, IsCurrent
  <2>4. \A x \in Handles : x = s => IsCurrent(x)'
    BY <2>2, <1>1 DEF IsCurrent
  <2> QED
    BY <2>3, <2>4, <1>7 DEF NoStaleContext
<1>13. OwnersKnowTheirChildren'
  <2> SUFFICES ASSUME NEW x \in Handles, contexts'[x] # None
               PROVE  /\ \A c \in contexts'[x].children : contexts'[c] # None /\ object[c].parent = x
                      /\ object[x].kind \in {"physical", "queue"} =>
                           /\ contexts'[object[x].parent] # None
                           /\ x \in contexts'[object[x].parent].children
    BY <1>1 DEF OwnersKnowTheirChildren
  <2>1. CASE x = s
    <3>1. \A c \in contexts[s].children : c \in Handles /\ contexts[c] # None /\ object[c].parent = s
      BY <1>2, <1>4, <1>t DEF OwnersKnowTheirChildren, Contexts
    <3>2. object[x].kind \notin {"physical", "queue"}
      BY <2>1, <1>2 DEF IsA
    <3> QED
      BY <2>1, <3>1, <3>2, <1>3, <1>6, <1>9
  <2>2. CASE x \in new
    BY <2>2, <1>2, <1>3, <1>6, <1>7, <1>9
  <2>3. CASE x # s /\ x \notin new
    <3>1. contexts'[x] = contexts[x] /\ contexts[x] # None
      BY <2>3, <1>5
    <3>2. contexts[x].children \subseteq Handles /\ object[x] # None
      BY <3>1, ContextHasObject DEF Children
    <3>3. \A c \in contexts[x].children : contexts'[c] # None /\ object[c].parent = x
      BY <3>1, <3>2, <1>9, <1>t DEF OwnersKnowTheirChildren
    <3>4. ASSUME object[x].kind \in {"physical", "queue"}
          PROVE  /\ contexts'[object[x].parent] # None
                 /\ x \in contexts'[object[x].parent].children
      <4>1. object[x].parent \in Handles
        BY <3>2, <3>4, <1>t DEF TreeInv, IsA
      <4>2. contexts[object[x].parent] # None /\ x \in contexts[object[x].parent].children
        BY <3>1, <3>4, <1>t DEF OwnersKnowTheirChildren
      <4>3. object[x].parent \notin new
        BY <4>1, <4>2, <1>3, OwnerKind DEF IsA
      <4> QED
        BY <4>1, <4>2, <4>3, <1>5, <1>6, <1>9
    <3> QED
      BY <3>1, <3>3, <3>4
  <2> QED
    BY <2>1, <2>2, <2>3
<1>14. \A u \in Threads : u # t => /\ at'[u] = at[u] /\ subject'[u] = subject[u]
                                   /\ found'[u] = found[u]
  BY <1>1, <1>t DEF TypeOK
<1>15. at'[t] = "idle"
  BY <1>1, <1>t DEF TypeOK
<1>16. ASSUME NEW u \in Threads, Busy(u)'
       PROVE  CallOf(u)'
  <2>1. /\ u # t /\ Busy(u) /\ CallOf(u)
        /\ at'[u] = at[u] /\ subject'[u] = subject[u] /\ found'[u] = found[u]
    BY <1>14, <1>15, <1>16, <1>t DEF Busy, CallInv
  <2>2. subject[u] \notin new /\ subject[u] \in Handles
    BY <2>1, <1>3 DEF CallOf, IsA
  <2>3. at[u] # "register" => subject[u] # s
    BY <2>1, <1>1, <1>t DEF AloneInv, Busy
  <2>4. at[u] = "destroy" =>
          \A x \in Children(subject[u]) : x \in Handles /\ x \notin new /\ x # s
    BY <2>1, <2>3, <1>1, <1>3, <1>t DEF AloneInv, Busy, Children
  <2> QED
    BY <2>1, <2>2, <2>3, <2>4, <1>1, <1>5, <1>9, OtherCall DEF CallOf
<1>17. AloneInv'
  BY <1>1, <1>14, <1>15, <1>t DEF AloneInv, Busy, Children
<1> QED
  BY <1>8, <1>10, <1>11, <1>12, <1>13, <1>16, <1>17 DEF IInv, CallInv

\* Destruction, the layer's part: what is erased is the object and all of its children
\* that have a context, and no call in progress is about them.
LEMMA DestroyInv ==
    ASSUME IInv, NEW t \in Threads, NEW h \in Handles, Destroy(t, h)
    PROVE  IInv'
<1>t. TypeOK /\ TreeInv /\ KnownInv /\ OwnerInv /\ CallInv /\ AloneInv
      /\ NoStaleContext /\ OwnersKnowTheirChildren
  BY DEF IInv
<1>1. /\ at[t] = "idle" /\ object' = object /\ life' = life
      /\ h \in known /\ contexts[h] # None /\ MayDestroy(h)
      /\ known' = known \ ({h} \cup Children(h)) /\ contexts' = Erased(h)
      /\ at' = [at EXCEPT ![t] = "destroy"] /\ subject' = [subject EXCEPT ![t] = h]
      /\ found' = [found EXCEPT ![t] = {}]
  BY DEF Destroy, driverVars, Enter, HandlesOf, Found
<1>2. IsA(h, "instance") \/ IsA(h, "device")
  BY <1>t DEF Destroy, HandlesOf, KnownInv, IsA
<1>3. /\ \A x \in {h} \cup contexts[h].children : contexts'[x] = None
      /\ \A x \in Handles : x # h /\ x \notin contexts[h].children => contexts'[x] = contexts[x]
      /\ contexts' = [x \in Handles |-> contexts'[x]]
      /\ contexts[h].children \subseteq Children(h)
  <2>1. contexts[h].children \subseteq Children(h)
    BY <1>1, ContextHasObject
  <2> QED
    BY <2>1, <1>1 DEF Erased, Children
<1>4. \A c \in Children(h) : /\ c \in Handles /\ object[c] # None /\ object[c].parent = h /\ c # h
                             /\ IsA(c, "physical") \/ IsA(c, "queue")
  BY <1>2, ChildKind
<1>5. \A x \in {h} \cup Children(h) : contexts'[x] = None
  <2>1. \A c \in Children(h) : contexts[c] # None => c \in contexts[h].children
    BY <1>4, <1>t DEF OwnersKnowTheirChildren, IsA
  <2> QED
    BY <2>1, <1>3, <1>4
<1>6. \A x \in Handles : contexts'[x] # None =>
          contexts'[x] = contexts[x] /\ x \notin {h} \cup Children(h)
  BY <1>3, <1>5
<1>7. TypeOK'
  <2>1. contexts' \in [Handles -> Contexts \cup {None}]
    BY <1>3, <1>4, <1>t DEF TypeOK
  <2> QED
    BY <2>1, <1>1, <1>t DEF TypeOK, Steps
<1>8. TreeInv' /\ KnownInv'
  BY <1>1, <1>t DEF TreeInv, IsA, KnownInv
<1>9. OwnerInv'
  BY <1>6, <1>t DEF OwnerInv
<1>10. NoStaleContext'
  BY <1>1, <1>6, <1>t DEF NoStaleContext, IsCurrent
<1>11. OwnersKnowTheirChildren'
  <2> SUFFICES ASSUME NEW x \in Handles, contexts'[x] # None
               PROVE  /\ \A c \in contexts[x].children : contexts'[c] # None /\ object[c].parent = x
                      /\ object[x].kind \in {"physical", "queue"} =>
                           /\ contexts'[object[x].parent] # None
                           /\ x \in contexts'[object[x].parent].children
    BY <1>1, <1>6 DEF OwnersKnowTheirChildren
  <2>1. contexts[x] # None /\ x # h /\ x \notin Children(h)
    BY <1>6
  <2>2. object[x] # None /\ contexts[x].children \subseteq Children(x)
    BY <2>1, ContextHasObject
  <2>3. ASSUME NEW c \in contexts[x].children
        PROVE  contexts'[c] # None /\ object[c].parent = x
    <3>1. c \in Handles /\ contexts[c] # None /\ object[c].parent = x
      BY <2>1, <2>2, <1>t DEF OwnersKnowTheirChildren, Children
    <3>2. IsA(c, "physical") \/ IsA(c, "queue")
      BY <2>1, <2>2, OwnerKind, ChildKind
    <3>3. c # h /\ c \notin Children(h)
      BY <2>1, <3>1, <3>2, <1>2, <1>4 DEF IsA
    <3> QED
      BY <3>1, <3>3, <1>3
  <2>4. ASSUME object[x].kind \in {"physical", "queue"}
        PROVE  /\ contexts'[object[x].parent] # None
               /\ x \in contexts'[object[x].parent].children
    <3>1. object[x].parent \in Handles
      BY <2>2, <2>4, <1>t DEF TreeInv, IsA
    <3>2. contexts[object[x].parent] # None /\ x \in contexts[object[x].parent].children
      BY <2>1, <2>4, <1>t DEF OwnersKnowTheirChildren
    <3>3. object[x].parent # h
      BY <2>1, <2>2 DEF Children
    <3>4. object[x].parent \notin Children(h)
      BY <3>1, <3>2, <1>4, OwnerKind DEF IsA
    <3> QED
      BY <3>1, <3>2, <3>3, <3>4, <1>3
  <2> QED
    BY <2>3, <2>4
<1>12. \A u \in Threads : u # t => /\ at'[u] = at[u] /\ subject'[u] = subject[u]
                                   /\ found'[u] = found[u]
  BY <1>1, <1>t DEF TypeOK
<1>13. at'[t] = "destroy" /\ subject'[t] = h
  BY <1>1, <1>t DEF TypeOK
<1>14. \A u \in Threads : Busy(u) => subject[u] # h /\ subject[u] \notin Children(h)
  BY <1>1 DEF MayDestroy, Unused, Busy
<1>15. ASSUME NEW u \in Threads, Busy(u)'
       PROVE  CallOf(u)'
  <2>1. CASE u = t
    <3>1. Children(subject[u])' = Children(h)
      BY <2>1, <1>1, <1>13 DEF Children
    <3>2. IsA(subject[u], "instance")' \/ IsA(subject[u], "device")'
      BY <2>1, <1>1, <1>2, <1>13 DEF IsA
    <3>3. (\A p \in Children(subject[u]) : Children(p) = {})'
             <=> (\A p \in Children(h) : Children(p) = {})
      BY <2>1, <1>1, <1>13 DEF Children
    <3> QED
      BY <2>1, <3>1, <3>2, <3>3, <1>1, <1>5, <1>13 DEF CallOf, MayDestroy
  <2>2. CASE u # t
    <3>1. /\ Busy(u) /\ CallOf(u)
          /\ at'[u] = at[u] /\ subject'[u] = subject[u] /\ found'[u] = found[u]
      BY <2>2, <1>12, <1>15, <1>t DEF Busy, CallInv
    <3>2. subject[u] # h /\ subject[u] \notin Children(h) /\ subject[u] \in Handles
      BY <3>1, <1>14 DEF CallOf, IsA
    <3>3. at[u] = "insert" => subject[u] \notin known' /\ contexts'[subject[u]] = None
      BY <3>1, <3>2, <1>1, <1>6 DEF CallOf
    <3>4. at[u] = "register" => subject[u] \in known' /\ contexts'[subject[u]] # None
      BY <3>1, <3>2, <1>1, <1>3 DEF CallOf
    <3>5. at[u] = "destroy" => \A x \in {subject[u]} \cup Children(subject[u]) :
                                 x \notin known' /\ contexts'[x] = None
      BY <3>1, <3>2, <1>1, <1>6 DEF CallOf, Children
    <3> QED
      BY <3>1, <3>3, <3>4, <3>5, <1>1, OtherCall
  <2> QED
    BY <2>1, <2>2
<1>16. AloneInv'
  <2> SUFFICES ASSUME NEW u \in Threads, NEW v \in Threads, u # v, Busy(u)', Busy(v)'
               PROVE  /\ at'[u] # "register" => subject'[v] # subject'[u]
                      /\ at'[u] = "destroy" => subject'[v] \notin Children(subject[u])'
    BY DEF AloneInv, Children
  <2>1. CASE u = t
    <3>1. Children(subject[u])' = Children(h)
      BY <2>1, <1>1, <1>13 DEF Children
    <3> QED
      BY <2>1, <3>1, <1>12, <1>13, <1>14 DEF Busy
  <2>2. CASE u # t
    <3>1. Busy(u) /\ at'[u] = at[u] /\ subject'[u] = subject[u]
      BY <2>2, <1>12 DEF Busy
    <3>2. Children(subject[u])' = Children(subject[u])
      BY <3>1, <1>1 DEF Children
    <3>3. subject[u] # h /\ (at[u] = "destroy" => h \notin Children(subject[u]))
      BY <3>1, <1>1, <1>14, <1>t DEF CallInv, CallOf
    <3> QED
      BY <2>2, <3>1, <3>2, <3>3, <1>12, <1>13, <1>t DEF AloneInv, Busy
  <2> QED
    BY <2>1, <2>2
<1> QED
  BY <1>7, <1>8, <1>9, <1>10, <1>11, <1>15, <1>16 DEF IInv, CallInv

\* Destruction, the driver's part: nothing the layer or the application remembers is
\* at the addresses that are freed, and no other call is about them.
LEMMA DriverDestroysInv ==
    ASSUME IInv, NEW t \in Threads, DriverDestroys(t)
    PROVE  IInv'
<1> PICK s : s = subject[t]
  OBVIOUS
<1> PICK dead : dead = {s} \cup Children(s)
  OBVIOUS
<1>t. TypeOK /\ TreeInv /\ KnownInv /\ OwnerInv /\ CallInv /\ AloneInv
      /\ NoStaleContext /\ OwnersKnowTheirChildren
  BY DEF IInv
<1>1. /\ at[t] = "destroy" /\ life' = life /\ contexts' = contexts /\ known' = known
      /\ object' = [x \in Handles |-> IF x \in dead THEN None ELSE object[x]]
      /\ at' = [at EXCEPT ![t] = "idle"] /\ subject' = [subject EXCEPT ![t] = None]
      /\ found' = [found EXCEPT ![t] = {}]
  BY DEF DriverDestroys, Leave, Enter
<1>2. /\ IsA(s, "instance") \/ IsA(s, "device")
      /\ \A x \in dead : x \notin known /\ contexts[x] = None
      /\ \A p \in Children(s) : Children(p) = {}
  BY <1>1, <1>t DEF CallInv, CallOf, Busy
<1>3. \A x \in Handles : object'[x] # None => x \notin dead /\ object'[x] = object[x]
  BY <1>1
<1>4. \A x \in Handles : x \notin dead => object'[x] = object[x]
  BY <1>1
\* The parent of what lives on lives on.
<1>5. ASSUME NEW x \in Handles, object'[x] # None
      PROVE  object'[x].parent \notin dead
  <2>1. object[x] # None /\ x \notin dead /\ object'[x] = object[x]
    BY <1>3, <1>5
  <2>2. object[x].parent # s
    BY <2>1 DEF Children
  <2>3. \A p \in Children(s) : object[x].parent # p
    BY <2>1, <1>2 DEF Children
  <2> QED
    BY <2>1, <2>2, <2>3
<1>6. TypeOK'
  BY <1>1, <1>t DEF TypeOK, Steps
<1>7. TreeInv'
  <2>1. \A x \in Handles : object'[x] # None =>
          object'[x] = object[x] /\ object[x] # None /\ object[x].parent \notin dead
    BY <1>3, <1>5
  <2> QED
    BY <2>1, <1>1, <1>4, <1>t DEF TreeInv, IsA
<1>8. KnownInv' /\ OwnerInv'
  BY <1>1, <1>2, <1>4, <1>t DEF KnownInv, OwnerInv, TypeOK
<1>9. NoStaleContext'
  BY <1>1, <1>2, <1>4, <1>t DEF NoStaleContext, IsCurrent
<1>10. OwnersKnowTheirChildren'
  <2> SUFFICES ASSUME NEW x \in Handles, contexts[x] # None
               PROVE  /\ \A c \in contexts[x].children : contexts[c] # None /\ object'[c].parent = x
                      /\ object'[x].kind \in {"physical", "queue"} =>
                           /\ contexts[object'[x].parent] # None
                           /\ x \in contexts[object'[x].parent].children
    BY <1>1 DEF OwnersKnowTheirChildren
  <2>1. object'[x] = object[x]
    BY <1>2, <1>4
  <2>2. \A c \in contexts[x].children : c \in Handles /\ contexts[c] # None
    BY ContextHasObject, <1>t DEF OwnersKnowTheirChildren, Children
  <2>3. \A c \in contexts[x].children : object'[c] = object[c]
    BY <2>2, <1>2, <1>4
  <2> QED
    BY <2>1, <2>2, <2>3, <1>t DEF OwnersKnowTheirChildren
<1>11. \A u \in Threads : u # t => /\ at'[u] = at[u] /\ subject'[u] = subject[u]
                                   /\ found'[u] = found[u]
  BY <1>1, <1>t DEF TypeOK
<1>12. at'[t] = "idle"
  BY <1>1, <1>t DEF TypeOK
<1>13. ASSUME NEW u \in Threads, Busy(u)'
       PROVE  CallOf(u)' /\ Children(subject[u])' \subseteq Children(subject[u])
  <2>1. /\ u # t /\ Busy(u) /\ CallOf(u)
        /\ at'[u] = at[u] /\ subject'[u] = subject[u] /\ found'[u] = found[u]
    BY <1>11, <1>12, <1>13, <1>t DEF Busy, CallInv
  <2>2. subject[u] # s /\ subject[u] \notin Children(s)
    BY <2>1, <1>1, <1>t DEF AloneInv, Busy
  <2>3. IsA(subject[u], "instance")' \/ IsA(subject[u], "device")'
    BY <2>1, <2>2, <1>4 DEF CallOf, IsA
  <2>4. Children(subject[u])' = {c \in Handles : object'[c] # None /\ object'[c].parent = subject[u]}
    BY <2>1 DEF Children
  <2>5. Children(subject[u])' \subseteq Children(subject[u])
    BY <2>4, <1>3 DEF Children
  <2>6. at[u] = "register" => found[u] \subseteq Children(subject[u])'
    <3> SUFFICES ASSUME at[u] = "register", NEW c \in found[u]
                 PROVE  c \in Handles /\ object'[c] # None /\ object'[c].parent = subject[u]
      BY <2>4
    <3>1. c \in Children(subject[u])
      BY <2>1 DEF CallOf
    <3>2. c \in Handles /\ object[c] # None /\ object[c].parent = subject[u]
          /\ (IsA(c, "physical") \/ IsA(c, "queue"))
      BY <3>1, <2>1, ChildKind DEF CallOf
    <3>3. c # s /\ c \notin Children(s)
      BY <3>2, <2>2, <1>2 DEF IsA, Children
    <3> QED
      BY <3>2, <3>3, <1>4
  <2>7. at[u] = "destroy" => (\A p \in Children(subject[u]) : Children(p) = {})'
    <3> SUFFICES ASSUME at[u] = "destroy", NEW p \in Children(subject[u])',
                        NEW c \in Handles, object'[c] # None, object'[c].parent = p
                 PROVE  FALSE
      BY DEF Children
    <3>1. p \in Children(subject[u])
      BY <2>5
    <3>2. Children(p) = {}
      BY <2>1, <3>1 DEF CallOf
    <3> QED
      BY <3>2, <1>3 DEF Children
  <2> QED
    BY <2>1, <2>3, <2>5, <2>6, <2>7, <1>1 DEF CallOf
<1>14. AloneInv'
  <2> SUFFICES ASSUME NEW u \in Threads, NEW v \in Threads, u # v, Busy(u)', Busy(v)'
               PROVE  /\ at'[u] # "register" => subject'[v] # subject'[u]
                      /\ at'[u] = "destroy" => subject'[v] \notin Children(subject[u])'
    BY DEF AloneInv, Children
  <2> QED
    BY <1>11, <1>12, <1>13, <1>t DEF AloneInv, Busy
<1> QED
  BY <1>6, <1>7, <1>8, <1>9, <1>10, <1>13, <1>14 DEF IInv, CallInv

LEMMA StutterInv == IInv /\ UNCHANGED vars => IInv'
<1> SUFFICES ASSUME IInv, UNCHANGED vars PROVE IInv'
  OBVIOUS
<1>1. /\ object' = object /\ life' = life /\ contexts' = contexts /\ known' = known
      /\ at' = at /\ subject' = subject /\ found' = found
  BY DEF vars, driverVars, threadVars
<1>2. TypeOK' /\ TreeInv' /\ KnownInv' /\ OwnerInv' /\ NoStaleContext' /\ OwnersKnowTheirChildren'
  BY <1>1 DEF IInv, TypeOK, TreeInv, IsA, KnownInv, OwnerInv, NoStaleContext, IsCurrent,
              OwnersKnowTheirChildren
<1>3. CallInv' /\ AloneInv'
  <2>1. ASSUME NEW u \in Threads, Busy(u)' PROVE CallOf(u)'
    <3>1. Busy(u) /\ CallOf(u)
      BY <1>1, <2>1 DEF Busy, IInv, CallInv
    <3> QED
      BY <3>1, <1>1, OtherCall DEF CallOf
  <2>2. AloneInv'
    BY <1>1 DEF IInv, AloneInv, Busy, Children
  <2> QED
    BY <2>1, <2>2 DEF CallInv
<1> QED
  BY <1>2, <1>3 DEF IInv

LEMMA NextInv == IInv /\ [Next]_vars => IInv'
<1> SUFFICES ASSUME IInv, [Next]_vars PROVE IInv'
  OBVIOUS
<1>1. CASE UNCHANGED vars
  BY <1>1, StutterInv
<1>2. CASE Next
  <2>1. PICK t \in Threads :
          \/ CreateInstance(t)
          \/ \E h \in Handles : \/ CreateDevice(t, h)
                                \/ EnumeratePhysicalDevices(t, h)
                                \/ GetDeviceQueue(t, h)
                                \/ Destroy(t, h)
          \/ Insert(t)
          \/ Register(t)
          \/ DriverDestroys(t)
    BY <1>2 DEF Next
  <2> QED
    BY <2>1, CreateInstanceInv, CreateDeviceInv, EnumeratePhysicalDevicesInv,
       GetDeviceQueueInv, DestroyInv, InsertInv, RegisterInv, DriverDestroysInv
<1> QED
  BY <1>1, <1>2

-----------------------------------------------------------------------------
(* The theorems.                                                           *)

\* The inductive invariant holds in every reachable state.
THEOREM Invariance == Spec => []IInv
BY InitInv, NextInv, PTL DEF Spec

\* The variables have their types, and no context is a null pointer.
THEOREM TypeCorrect == Spec => []TypeOK
<1>1. IInv => TypeOK
  BY DEF IInv
<1> QED
  BY <1>1, Invariance, PTL

\* No context outlives the object it was built for: whatever the driver puts at an
\* address that is used again, the map holds nothing for what was there before.
THEOREM ContextsAreFresh == Spec => []NoStaleContext
<1>1. IInv => NoStaleContext
  BY DEF IInv
<1> QED
  BY <1>1, Invariance, PTL

\* The assertion of vkCreateInstance and vkCreateDevice: the new object has no context.
THEOREM NewKeysAreFree == Spec => []KeyIsFree
<1>1. IInv => KeyIsFree
  BY DEF IInv, CallInv, CallOf, Busy, KeyIsFree
<1> QED
  BY <1>1, Invariance, PTL

\* What an owner's context remembers and what has the owner as parent agree, so that
\* destroying the owner erases all of its children and nothing else.
THEOREM OwnersKnow == Spec => []OwnersKnowTheirChildren
<1>1. IInv => OwnersKnowTheirChildren
  BY DEF IInv
<1> QED
  BY <1>1, Invariance, PTL

-----------------------------------------------------------------------------
(* get_context, for an application that always offers room for all         *)
(* physical devices.                                                       *)

\* A context that is built is one.
LEMMA NewContextReal ==
    ASSUME IInv, NEW h \in Handles, object[h] # None
    PROVE  NewContext(h) # None
<1>1. life[h] \in 1..MaxLives /\ object[h].kind \in Kinds
  BY ContextConstants DEF IInv, TypeOK, TreeInv, Objects
<1>2. NewContext(h) \in Contexts
  BY <1>1 DEF NewContext, Contexts
<1> QED
  BY <1>2, ContextConstants

\* A step after which every known handle has a context: it is of the right object.
LEMMA LookupFresh ==
    ASSUME IInv', \A h \in known' : contexts'[h] # None
    PROVE  LookupFindsObject'
<1>1. known' \subseteq Handles /\ NoStaleContext'
  BY DEF IInv, TypeOK
<1> QED
  BY <1>1 DEF NoStaleContext, LookupFindsObject

\* Every handle the application may use is found, and the context is that of the object
\* that lives there now, when it never asks for fewer physical devices than there are.
\* (An application that does breaks it: the finding about VK_INCOMPLETE.)
THEOREM LookupsSucceed ==
    ASSUME EnumeratesAll
    PROVE  Spec => []LookupFindsObject
<1>1. Init => LookupFindsObject
  BY DEF Init, LookupFindsObject
<1>2. IInv /\ IInv' /\ LookupFindsObject /\ [Next]_vars => LookupFindsObject'
  <2> SUFFICES ASSUME IInv, IInv', LookupFindsObject, [Next]_vars
               PROVE  \A h \in known' : contexts'[h] # None
    BY LookupFresh
  <2>1. \A h \in known : h \in Handles /\ contexts[h] # None
    BY DEF LookupFindsObject, IInv, TypeOK
  <2>2. CASE UNCHANGED <<contexts, known>>
    BY <2>1, <2>2
  <2>3. ASSUME NEW t \in Threads, Insert(t)
        PROVE  \A h \in known' : contexts'[h] # None
    <3>1. subject[t] \in Handles /\ object[subject[t]] # None
      BY <2>3 DEF IInv, CallInv, CallOf, Busy, Insert, IsA
    <3> QED
      BY <2>1, <2>3, <3>1, NewContextReal DEF Insert, Emplaced
  <2>4. ASSUME NEW t \in Threads, Register(t)
        PROVE  \A h \in known' : contexts'[h] # None
    <3>1. \A c \in found[t] : c \in Handles /\ object[c] # None
      BY <2>4 DEF IInv, CallInv, CallOf, Busy, Register, Children
    <3>2. \A h \in known' : h \in Handles /\ Emplaced(found[t])[h] # None
      BY <2>1, <2>4, <3>1, NewContextReal DEF Register, Emplaced
    <3>3. known' \subseteq Handles /\ contexts' \in [Handles -> Contexts \cup {None}]
          /\ contexts' = Adopted(Emplaced(found[t]), subject[t], found[t])
      BY <2>4 DEF Register, IInv, TypeOK
    <3>4. \A h \in known' : h # subject[t] => contexts'[h] = Emplaced(found[t])[h]
      BY <3>2, <3>3 DEF Adopted, Emplaced
    <3>5. subject[t] \in Handles /\ contexts[subject[t]] # None
      BY <2>4 DEF IInv, CallInv, CallOf, Busy, Register, IsA
    <3>6. subject[t] \in known' => IsCurrent(subject[t]) /\ contexts'[subject[t]] # None
      <4>1. Emplaced(found[t])[subject[t]] \in Contexts
        BY <3>5, ContextHasObject DEF Emplaced
      <4>2. contexts'[subject[t]] \in Contexts
        BY <3>1, <3>3, <3>5, <4>1 DEF Adopted, Emplaced, Contexts
      <4> QED
        BY <3>5, <4>2, ContextConstants DEF IInv, NoStaleContext
    <3> QED
      BY <3>2, <3>4, <3>6
  <2>5. ASSUME NEW t \in Threads, NEW i \in Handles, EnumeratePhysicalDevices(t, i)
        PROVE  UNCHANGED <<contexts, known>>
    BY <2>5 DEF EnumeratePhysicalDevices, EarlyReturn
  <2>6. ASSUME NEW t \in Threads, NEW d \in Handles, Destroy(t, d)
        PROVE  \A h \in known' : contexts'[h] # None
    <3>1. contexts[d] # None /\ contexts[d].children \subseteq Children(d)
      BY <2>6, ContextHasObject DEF Destroy, Found
    <3> QED
      BY <2>1, <2>6, <3>1 DEF Destroy, Erased
  <2>7. CASE Next
    <3>1. PICK t \in Threads :
            \/ CreateInstance(t)
            \/ \E h \in Handles : \/ CreateDevice(t, h)
                                  \/ EnumeratePhysicalDevices(t, h)
                                  \/ GetDeviceQueue(t, h)
                                  \/ Destroy(t, h)
            \/ Insert(t)
            \/ Register(t)
            \/ DriverDestroys(t)
      BY <2>7 DEF Next
    <3>2. \/ CreateInstance(t) \/ DriverDestroys(t)
          \/ \E h \in Handles : CreateDevice(t, h) \/ GetDeviceQueue(t, h)
          => UNCHANGED <<contexts, known>>
      BY DEF CreateInstance, DriverDestroys, CreateDevice, GetDeviceQueue
    <3> QED
      BY <2>2, <2>3, <2>4, <2>5, <2>6, <3>1, <3>2
  <2> QED
    BY <2>2, <2>7 DEF vars
<1> QED
  BY <1>1, <1>2, Invariance, PTL DEF Spec

=============================================================================
