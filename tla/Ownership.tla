------------------------------ MODULE Ownership ------------------------------
(***************************************************************************)
(* What lite::shared_ptr promises: an object lives from its creation until *)
(* its last owner goes, and is destroyed once.  Assigning to an owner does *)
(* not make it give up what it owned: that object becomes immortal.        *)
(***************************************************************************)
EXTENDS Naturals

CONSTANTS Owners, Objects, Nothing

VARIABLES
  owns,      \* the object each owner has, or Nothing
  living,    \* the objects created and not destroyed
  created,   \* the objects created so far
  immortal   \* the living objects that nobody will ever destroy

ownershipVars == <<owns, living, created, immortal>>

Init ==
  /\ owns = [o \in Owners |-> Nothing]
  /\ living = {}
  /\ created = {}
  /\ immortal = {}

Create(o, x) ==
  /\ owns[o] = Nothing
  /\ x \notin created
  /\ owns' = [owns EXCEPT ![o] = x]
  /\ living' = living \cup {x}
  /\ created' = created \cup {x}
  /\ UNCHANGED immortal

Share(o, p) ==
  /\ owns[o] = Nothing /\ owns[p] # Nothing
  /\ owns' = [owns EXCEPT ![o] = owns[p]]
  /\ UNCHANGED <<living, created, immortal>>

Overwrite(o, p) ==
  /\ o # p /\ owns[o] # Nothing /\ owns[p] # Nothing
  /\ owns' = [owns EXCEPT ![o] = owns[p]]
  /\ immortal' = immortal \cup {owns[o]}
  /\ UNCHANGED <<living, created>>

\* The owners of x other than o.
OtherOwners(o, x) == {p \in Owners \ {o} : owns[p] = x}

Drop(o) ==
  /\ owns[o] # Nothing
  /\ owns' = [owns EXCEPT ![o] = Nothing]
  /\ living' = IF OtherOwners(o, owns[o]) = {} /\ owns[o] \notin immortal
               THEN living \ {owns[o]} ELSE living
  /\ UNCHANGED <<created, immortal>>

Next ==
  \/ \E o \in Owners, x \in Objects : Create(o, x)
  \/ \E o, p \in Owners : Share(o, p) \/ Overwrite(o, p)
  \/ \E o \in Owners : Drop(o)

Spec == Init /\ [][Next]_ownershipVars
=============================================================================
