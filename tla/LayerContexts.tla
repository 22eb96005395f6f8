---------------------------- MODULE LayerContexts ----------------------------
(***************************************************************************)
(* LayerContext::contexts, the layer's map from the address of a           *)
(* dispatchable Vulkan object to the context built for it: the calls that  *)
(* create, enumerate and destroy instances, physical devices, devices and  *)
(* queues (layer.cc), each split where it gives up layer_context.mutex or  *)
(* calls the driver.                                                       *)
(*                                                                         *)
(* A handle is an address: when an object is destroyed the driver may use  *)
(* its address for a new object, of any kind.  life[h] counts the objects  *)
(* that have lived at h, and a context remembers which one it was built    *)
(* for.  The driver and the application are external; the application      *)
(* synchronises its calls as Vulkan demands.                               *)
(***************************************************************************)
EXTENDS Naturals, FiniteSets

CONSTANTS Handles,
          Threads,          \* application threads
          MaxChildren,      \* bound: physical devices of an instance, queues of a device
          MaxLives,         \* bound: objects that live at one address
          EnumeratesAll,    \* the application always offers room for all physical devices
          None,             \* no object, no context
          Null              \* a null shared_ptr as context

Kinds == {"instance", "physical", "device", "queue"}

Objects  == [kind : Kinds, parent : Handles \cup {None}]
Contexts == [kind : Kinds, life : 1..MaxLives, children : SUBSET Handles]

ASSUME ContextConstants ==
    /\ MaxChildren \in Nat \ {0} /\ MaxLives \in Nat \ {0}
    /\ EnumeratesAll \in BOOLEAN
    /\ None \notin Handles /\ None \notin Objects /\ None \notin Contexts

Steps    == {"idle", "insert", "register", "destroy"}

VARIABLES
    object,     \* object[h]: what lives at address h for the driver
    life,       \* life[h]: number of objects that have lived at h
    contexts,   \* contexts[h]; children are InstanceContext::physical_devices,
                \* DeviceContext::queues
    known,      \* handles the application holds
    at,         \* at[t]: the step thread t is at inside a call
    subject,    \* subject[t]: the object of that call
    found       \* found[t]: the handles the driver returned to it

threadVars == <<at, subject, found>>
driverVars == <<object, life>>
vars == <<driverVars, contexts, known, threadVars>>

Init ==
    /\ object = [h \in Handles |-> None]
    /\ life = [h \in Handles |-> 0]
    /\ contexts = [h \in Handles |-> None]
    /\ known = {}
    /\ at = [t \in Threads |-> "idle"]
    /\ subject = [t \in Threads |-> None]
    /\ found = [t \in Threads |-> {}]

Free(h) == object[h] = None /\ life[h] < MaxLives
Children(h) == {c \in Handles : object[c] # None /\ object[c].parent = h}
HandlesOf(kind) == {h \in known : object[h].kind = kind}

\* Inside a call: from the first step to the last.
Enter(t, step, h, s) ==
    /\ at' = [at EXCEPT ![t] = step]
    /\ subject' = [subject EXCEPT ![t] = h]
    /\ found' = [found EXCEPT ![t] = s]
Leave(t) == Enter(t, "idle", None, {})

\* The application destroys an object while no call uses it or one of its children,
\* and an instance or physical device no device of which is left.
Unused(h) ==
    \A t \in Threads : at[t] # "idle" => subject[t] \notin {h} \cup Children(h)
MayDestroy(h) ==
    Unused(h) /\ \A p \in Children(h) : Children(p) = {}

\* The driver: an object of the given kind and its own children at free addresses.
DriverCreates(h, kind, parent, cs, childKind) ==
    /\ object' = [o \in Handles |->
                    IF o = h THEN [kind |-> kind, parent |-> parent]
                    ELSE IF o \in cs THEN [kind |-> childKind, parent |-> h]
                    ELSE object[o]]
    /\ life' = [o \in Handles |-> IF o \in {h} \cup cs THEN life[o] + 1 ELSE life[o]]

\* Where a created object and its children may be put.
Places == {p \in Handles \X SUBSET Handles :
             /\ p[1] \notin p[2]
             /\ Cardinality(p[2]) \in 1..MaxChildren
             /\ \A h \in {p[1]} \cup p[2] : Free(h)}

-----------------------------------------------------------------------------
(* The map.                                                                *)

\* Mutant of NewContext: try_emplace(key, nullptr) and nothing built.
MutNull(h) == Null

NewContext(h) == [kind |-> object[h].kind, life |-> life[h], children |-> {}]

\* get_context: the key is there and the dynamic_cast to its kind succeeds.  Both are
\* assertions: a call whose lookup fails does not go on.
Found(h) == contexts[h] \notin {None, Null} /\ contexts[h].kind = object[h].kind

\* Mutant of Adopted: the owner is not told.
MutOrphans(m, h, cs) == m

\* The owner h remembers the children cs.
Adopted(m, h, cs) == [m EXCEPT ![h].children = @ \cup cs]

\* try_emplace for every key in hs: a key that is there keeps its context.
Emplaced(hs) == [h \in Handles |-> IF h \in hs /\ contexts[h] = None
                                   THEN NewContext(h) ELSE contexts[h]]

\* Mutants of Erased: the children stay, the context itself stays.
MutChildrenStay(h) == [contexts EXCEPT ![h] = None]
MutSelfStays(h) ==
    [c \in Handles |-> IF c \in contexts[h].children THEN None ELSE contexts[c]]

\* The contexts of h and of the children it remembers are erased.
Erased(h) ==
    [c \in Handles |-> IF c \in {h} \cup contexts[h].children THEN None ELSE contexts[c]]

-----------------------------------------------------------------------------
(* Creation.  A driver that fails, or a missing link, changes nothing.     *)

\* vkCreateInstance, the driver's part.
CreateInstance(t) ==
    /\ at[t] = "idle"
    /\ \E p \in Places :
         /\ DriverCreates(p[1], "instance", None, p[2], "physical")
         /\ Enter(t, "insert", p[1], {})
    /\ UNCHANGED <<contexts, known>>

\* vkCreateDevice, for a physical device whose context is found.
CreateDevice(t, p) ==
    /\ at[t] = "idle"
    /\ p \in HandlesOf("physical")
    /\ Found(p)
    /\ \E d \in Places :
         /\ DriverCreates(d[1], "device", p, d[2], "queue")
         /\ Enter(t, "insert", d[1], {})
    /\ UNCHANGED <<contexts, known>>

\* The ends of both, under the lock.
Insert(t) ==
    /\ at[t] = "insert"
    /\ contexts' = Emplaced({subject[t]})
    /\ known' = known \cup {subject[t]}
    /\ Leave(t)
    /\ UNCHANGED driverVars

\* Mutant of EarlyReturn: nothing is ever registered.
MutAlways(i, s) == TRUE

\* vkEnumeratePhysicalDevices with room for fewer devices than there are returns
\* VK_INCOMPLETE, which is not VK_SUCCESS.
EarlyReturn(i, s) == s # Children(i)

\* vkEnumeratePhysicalDevices: the driver fills in s.
EnumeratePhysicalDevices(t, i) ==
    /\ at[t] = "idle"
    /\ i \in HandlesOf("instance")
    /\ Found(i)
    /\ \E s \in SUBSET Children(i) \ {{}} :
         /\ EnumeratesAll => s = Children(i)
         /\ IF EarlyReturn(i, s)
            THEN /\ known' = known \cup s
                 /\ UNCHANGED threadVars
            ELSE /\ Enter(t, "register", i, s)
                 /\ UNCHANGED known
    /\ UNCHANGED <<driverVars, contexts>>

\* vkGetDeviceQueue and vkGetDeviceQueue2: the driver returns the queue q.
GetDeviceQueue(t, d) ==
    /\ at[t] = "idle"
    /\ d \in HandlesOf("device")
    /\ Found(d)
    /\ \E q \in Children(d) : Enter(t, "register", d, {q})
    /\ UNCHANGED <<driverVars, contexts, known>>

\* The ends of both, under the lock: contexts for the handles that have none, and the
\* owner remembers all.
Register(t) ==
    /\ at[t] = "register"
    /\ contexts' = Adopted(Emplaced(found[t]), subject[t], found[t])
    /\ known' = known \cup found[t]
    /\ Leave(t)
    /\ UNCHANGED driverVars

-----------------------------------------------------------------------------
(* Destruction.                                                            *)

\* vkDestroyInstance and vkDestroyDevice, under the lock.
Destroy(t, h) ==
    /\ at[t] = "idle"
    /\ h \in HandlesOf("instance") \cup HandlesOf("device")
    /\ MayDestroy(h)
    /\ Found(h)
    /\ contexts' = Erased(h)
    /\ known' = known \ ({h} \cup Children(h))
    /\ Enter(t, "destroy", h, {})
    /\ UNCHANGED driverVars

\* Their last step, without the lock: the driver's function, which frees the addresses.
DriverDestroys(t) ==
    /\ at[t] = "destroy"
    /\ object' = [h \in Handles |->
                    IF h \in {subject[t]} \cup Children(subject[t]) THEN None ELSE object[h]]
    /\ Leave(t)
    /\ UNCHANGED <<life, contexts, known>>

-----------------------------------------------------------------------------

Next ==
    \E t \in Threads :
        \/ CreateInstance(t)
        \/ \E h \in Handles : \/ CreateDevice(t, h)
                              \/ EnumeratePhysicalDevices(t, h)
                              \/ GetDeviceQueue(t, h)
                              \/ Destroy(t, h)
        \/ Insert(t)
        \/ Register(t)
        \/ DriverDestroys(t)

Spec == Init /\ [][Next]_vars

-----------------------------------------------------------------------------
(* Properties.                                                             *)

\* The variables have their types; no context is the null pointer that try_emplace
\* puts into the map before the context is built.
TypeOK ==
    /\ object \in [Handles -> Objects \cup {None}]
    /\ life \in [Handles -> 0..MaxLives]
    /\ contexts \in [Handles -> Contexts \cup {None}]
    /\ known \subseteq Handles
    /\ at \in [Threads -> Steps]
    /\ subject \in [Threads -> Handles \cup {None}]
    /\ found \in [Threads -> SUBSET Handles]

\* The context h has is the one of the object that lives there now.
IsCurrent(h) == /\ object[h] # None
                /\ contexts[h].kind = object[h].kind
                /\ contexts[h].life = life[h]

\* Every handle the application has been given and may still use is found by
\* get_context, whose assertions are that the key is in the map and that the context
\* has the handle's kind; and it finds the context of that very object, never of one
\* that had the same address.
LookupFindsObject == \A h \in known : contexts[h] # None /\ IsCurrent(h)

\* A context is gone before the driver can give its address to another object: erasing
\* comes before the driver's destroy, and takes the children along.
NoStaleContext == \A h \in Handles : contexts[h] # None => IsCurrent(h)

\* The assertion of vkCreateInstance and vkCreateDevice before they insert: the address
\* of the new object is no key of the map, whatever was there earlier.
KeyIsFree == \A t \in Threads : at[t] = "insert" => contexts[subject[t]] = None

\* The contexts an owner remembers are in the map (asserted when it is destroyed), and
\* a physical device's or queue's context is remembered by the context of its owner, so
\* that it goes when the owner goes.
OwnersKnowTheirChildren ==
    \A h \in Handles : contexts[h] # None =>
        /\ \A c \in contexts[h].children : contexts[c] # None /\ object[c].parent = h
        /\ object[h].kind \in {"physical", "queue"} =>
             /\ contexts[object[h].parent] # None
             /\ h \in contexts[object[h].parent].children

=============================================================================
