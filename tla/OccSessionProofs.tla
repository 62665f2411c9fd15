-------------------------- MODULE OccSessionProofs --------------------------
(* The session's invariants hold for every set of operations, names and    *)
(* shapes and for every bound.  What a helper makes of a session is stated *)
(* field by field first; that each call keeps the session sound and grows  *)
(* it the way reselection needs follows from those facts alone.            *)
EXTENDS OccSession, SequenceTheorems, TLAPS

\* The invariants of OccSession, of any session s.
IsSession(s) ==
  s = [next_id |-> s.next_id, entities |-> s.entities, name_to_id |-> s.name_to_id,
       frames |-> s.frames, op_stack |-> s.op_stack, planes |-> s.planes]

Typed(s) ==
  /\ IsSession(s)
  /\ s.next_id \in Nat \ {0}
  /\ Live(s) \subseteq 1 .. s.next_id - 1
  /\ \A id \in Live(s) : s.entities[id] \in EntityRec
  /\ \A n \in DOMAIN s.name_to_id : n \in Label /\ s.name_to_id[n] \in Nat
  /\ s.op_stack \in Seq(Op)
  /\ s.planes \in [Plane -> Nat]

WorldNames == {WorldName[p] : p \in Plane}

Named(s) ==
  /\ \A n \in DOMAIN s.name_to_id :
       s.name_to_id[n] \in Live(s) /\ s.entities[s.name_to_id[n]].name = n
  /\ \A id \in Live(s) :
       s.entities[id].name # "" /\ s.entities[id].name \notin WorldNames
         => /\ s.entities[id].name \in DOMAIN s.name_to_id
            /\ s.name_to_id[s.entities[id].name] = id

Placed(s) ==
  /\ \A f \in s.frames : f[1] \in Live(s)
  /\ \A p \in Plane : s.planes[p] # 0 =>
       /\ s.planes[p] \in Live(s)
       /\ s.entities[s.planes[p]].created_by = WorldOp[p]
       /\ s.entities[s.planes[p]].kind = "FACE"
       /\ <<s.planes[p], "cs">> \in s.frames

Sound(s) == Typed(s) /\ Named(s) /\ Placed(s)

\* What a call makes of the old entities, and where the new ones come from.
Grows(s, t) ==
  /\ s.next_id <= t.next_id
  /\ \A id \in Live(s) \cap Live(t) :
       /\ t.entities[id].created_by = s.entities[id].created_by
       /\ t.entities[id].kind = s.entities[id].kind
  /\ \A id \in Live(t) \ Live(s) : id >= s.next_id

\* Who tagged the new ones.
Tagged(s, t) ==
  /\ \A id \in Live(t) \ Live(s) :
       \/ t.entities[id].created_by = CurrentOp(s)
       \/ \E p \in Plane : t.planes[p] = id /\ t.entities[id].created_by = WorldOp[p]
  /\ Live(t) \ Live(s) # {} => t.op_stack = s.op_stack

\* The helpers, by what they leave: Register adds n entities after the old ones;
Registered(s, t, n) ==
  /\ IsSession(t)
  /\ t.next_id = s.next_id + n
  /\ Live(t) = Live(s) \cup s.next_id .. (s.next_id + n - 1)
  /\ \A id \in Live(s) : t.entities[id] = s.entities[id]
  /\ t.name_to_id = s.name_to_id /\ t.frames = s.frames
  /\ t.op_stack = s.op_stack /\ t.planes = s.planes

\* the three steps of naming change nothing but names,
OnlyNames(s, t) ==
  /\ IsSession(t) /\ t.next_id = s.next_id /\ t.op_stack = s.op_stack
  /\ t.frames = s.frames /\ t.planes = s.planes /\ Live(t) = Live(s)
  /\ \A i \in Live(s) : /\ t.entities[i] \in EntityRec
                        /\ t.entities[i].kind = s.entities[i].kind
                        /\ t.entities[i].created_by = s.entities[i].created_by

\* and of these StealName the one of who has n,
Stolen(s, t, id, n) ==
  /\ t.name_to_id = s.name_to_id
  /\ t.entities[id] = s.entities[id]
  /\ \A i \in Live(s) : i # id =>
       t.entities[i].name = IF n \in DOMAIN s.name_to_id /\ s.name_to_id[n] = i
                            THEN "" ELSE s.entities[i].name

\* UnbindName the one of id, if its binding is its own,
Unbound(s, t, id) ==
  /\ \A i \in Live(s) : i # id => t.entities[i].name = s.entities[i].name
  /\ \A m \in DOMAIN t.name_to_id :
       m \in DOMAIN s.name_to_id /\ t.name_to_id[m] = s.name_to_id[m]
  /\ \A m \in DOMAIN s.name_to_id :
       m \in DOMAIN t.name_to_id <=> ~(m = s.entities[id].name /\ s.name_to_id[m] = id)

\* and Bind that of id to n.
Bound(s, t, id, n) ==
  /\ \A i \in Live(s) : i # id => t.entities[i] = s.entities[i]
  /\ t.entities[id].name = n
  /\ DOMAIN t.name_to_id = DOMAIN s.name_to_id \cup {n}
  /\ t.name_to_id[n] = id
  /\ \A m \in DOMAIN s.name_to_id : m # n => t.name_to_id[m] = s.name_to_id[m]

----------------------------------------------------------------------------
(* The constants.                                                          *)

LEMMA WorldFacts ==
  /\ \A p \in Plane : WorldOp[p] \in Tag /\ WorldName[p] \in Label /\ WorldName[p] # ""
  /\ \A p, q \in Plane : WorldName[p] = WorldName[q] => p = q
<1>1. WorldName["xy"] = "world_xy" /\ WorldName["yz"] = "world_yz" /\ WorldName["zx"] = "world_zx"
  BY DEF WorldName, Plane
<1>2. \A p \in Plane : WorldOp[p] \in Tag /\ WorldName[p] \in Label
  BY DEF Tag, Label
<1> QED BY <1>1, <1>2 DEF Plane

LEMMA IdFacts ==
  ASSUME NEW s, Typed(s)
  PROVE  s.next_id \in Nat /\ s.next_id <= s.next_id
         /\ \A id \in Live(s) : id \in Nat /\ id # 0 /\ id < s.next_id /\ id # s.next_id
<1> DEFINE k == s.next_id
<1>1. k \in Nat \ {0} /\ Live(s) \subseteq 1 .. k - 1
  BY DEF Typed
<1> HIDE DEF k
<1>2. k \in Nat /\ k <= k /\ \A id \in Live(s) : id \in Nat /\ id # 0 /\ id < k /\ id # k
  BY <1>1
<1> QED BY <1>2 DEF k

----------------------------------------------------------------------------
(* Registration.                                                           *)

LEMMA CurrentOpType ==
  ASSUME NEW s, Typed(s)
  PROVE  CurrentOp(s) \in Op \cup {<<>>}
<1>1. CASE s.op_stack = <<>>
  BY <1>1 DEF CurrentOp
<1>2. CASE s.op_stack # <<>>
  <2>1. Len(s.op_stack) \in 1 .. Len(s.op_stack)
    BY <1>2 DEF Typed
  <2> QED BY <1>2, <2>1 DEF CurrentOp, Typed
<1> QED BY <1>1, <1>2

\* Register adds a run of entities and touches nothing else.
LEMMA RegisterFields ==
  ASSUME NEW s, IsSession(s), NEW kinds \in Seq(Kind), NEW has \in BOOLEAN
  PROVE  Registered(s, Register(s, kinds, has), Len(kinds))
<1> DEFINE t == Register(s, kinds, has)
           new == s.next_id .. (s.next_id + Len(kinds) - 1)
           table == [id \in Live(s) \cup new |->
                       IF id \in Live(s) THEN s.entities[id]
                       ELSE [kind |-> kinds[id - s.next_id + 1], created_by |-> CurrentOp(s),
                             name |-> "", has_shape |-> has]]
<1>2. t = [next_id |-> s.next_id + Len(kinds), entities |-> table, name_to_id |-> s.name_to_id,
           frames |-> s.frames, op_stack |-> s.op_stack, planes |-> s.planes]
  <2> HIDE DEF new
  <2>1. t = [s EXCEPT !.next_id = @ + Len(kinds), !.entities = table]
    BY DEF Register, new
  <2> HIDE DEF table, t
  <2> QED BY <2>1 DEF IsSession
<1>3. DOMAIN table = Live(s) \cup new /\ \A id \in Live(s) : table[id] = s.entities[id]
  OBVIOUS
<1> HIDE DEF table, t
<1>4. Live(t) = Live(s) \cup new /\ \A id \in Live(s) : t.entities[id] = s.entities[id]
  BY <1>2, <1>3 DEF Live
<1> QED BY <1>2, <1>4 DEF IsSession, Registered, t

LEMMA RegisterNew ==
  ASSUME NEW s, IsSession(s), s.next_id \in Nat, CurrentOp(s) \in Tag,
         NEW kinds \in Seq(Kind), NEW has \in BOOLEAN,
         NEW id \in Live(Register(s, kinds, has)) \ Live(s)
  PROVE  LET e == Register(s, kinds, has).entities[id]
         IN  /\ e \in EntityRec
             /\ id >= s.next_id /\ e.kind = kinds[id - s.next_id + 1]
             /\ e.created_by = CurrentOp(s) /\ e.name = ""
<1> DEFINE e == [kind |-> kinds[id - s.next_id + 1], created_by |-> CurrentOp(s),
                 name |-> "", has_shape |-> has]
<1>1. id \in s.next_id .. (s.next_id + Len(kinds) - 1)
  BY RegisterFields DEF Registered
<1>2. Len(kinds) \in Nat
  OBVIOUS
<1>3. id - s.next_id + 1 \in 1 .. Len(kinds) /\ id >= s.next_id
  BY <1>1, <1>2
<1>4. kinds[id - s.next_id + 1] \in Kind
  BY <1>3
<1>6. Register(s, kinds, has).entities[id] = e
  BY <1>1 DEF IsSession, Register, Live
<1>7. e \in EntityRec
  BY <1>4 DEF EntityRec
<1>8. /\ e.kind = kinds[id - s.next_id + 1] /\ e.created_by = CurrentOp(s)
      /\ e.name = ""
  OBVIOUS
<1> HIDE DEF e
<1> QED BY <1>3, <1>6, <1>7, <1>8

LEMMA RegisterSound ==
  ASSUME NEW s, Sound(s), NEW kinds \in Seq(Kind), NEW has \in BOOLEAN
  PROVE  LET t == Register(s, kinds, has)
         IN  Sound(t) /\ Grows(s, t) /\ Tagged(s, t)
<1> DEFINE t == Register(s, kinds, has)
<1>1. /\ Typed(s) /\ Named(s) /\ Placed(s)
      /\ IsSession(s) /\ s.next_id \in Nat /\ CurrentOp(s) \in Tag
  BY CurrentOpType DEF Sound, Typed, Tag
<1>2. Registered(s, t, Len(kinds))
  BY <1>1, RegisterFields
<1>3. \A id \in Live(t) \ Live(s) :
        /\ t.entities[id] \in EntityRec /\ id >= s.next_id
        /\ t.entities[id].created_by = CurrentOp(s) /\ t.entities[id].name = ""
  <2> SUFFICES ASSUME NEW id \in Live(t) \ Live(s)
               PROVE  /\ t.entities[id] \in EntityRec /\ id >= s.next_id
                      /\ t.entities[id].created_by = CurrentOp(s) /\ t.entities[id].name = ""
    OBVIOUS
  <2>1. t.entities[id] \in EntityRec /\ id >= s.next_id
    BY <1>1, RegisterNew
  <2>2. t.entities[id].created_by = CurrentOp(s)
    BY <1>1, RegisterNew
  <2>3. t.entities[id].name = ""
    BY <1>1, RegisterNew
  <2> QED BY <2>1, <2>2, <2>3
<1> HIDE DEF t
<1> USE DEF Registered
<1>4. s.next_id \in Nat \ {0} /\ Len(kinds) \in Nat /\ Live(s) \subseteq 1 .. s.next_id - 1
  BY <1>1 DEF Typed
<1>5. Typed(t)
  <2>1. Live(t) \subseteq 1 .. t.next_id - 1
    BY <1>2, <1>4
  <2>2. \A id \in Live(t) : t.entities[id] \in EntityRec
    BY <1>1, <1>2, <1>3 DEF Typed
  <2> QED BY <2>1, <2>2, <1>1, <1>2, <1>4 DEF Typed
<1>6. Named(t)
  <2>1. \A n \in DOMAIN t.name_to_id :
          t.name_to_id[n] \in Live(t) /\ t.entities[t.name_to_id[n]].name = n
    <3> SUFFICES ASSUME NEW n \in DOMAIN t.name_to_id
                 PROVE  t.name_to_id[n] \in Live(t) /\ t.entities[t.name_to_id[n]].name = n
      OBVIOUS
    <3>1. s.name_to_id[n] \in Live(s) /\ s.entities[s.name_to_id[n]].name = n
      BY <1>1, <1>2 DEF Named
    <3>2. t.name_to_id[n] = s.name_to_id[n]
      BY <1>2
    <3> QED BY <1>2, <3>1, <3>2
  <2>2. ASSUME NEW id \in Live(t), t.entities[id].name # "", t.entities[id].name \notin WorldNames
        PROVE  /\ t.entities[id].name \in DOMAIN t.name_to_id
               /\ t.name_to_id[t.entities[id].name] = id
    <3>1. id \in Live(s)
      BY <2>2, <1>3
    <3>2. t.entities[id] = s.entities[id]
      BY <3>1, <1>2
    <3> QED BY <1>1, <1>2, <2>2, <3>1, <3>2 DEF Named
  <2> QED BY <2>1, <2>2 DEF Named
<1>7. Placed(t)
  BY <1>1, <1>2 DEF Placed
<1>8. Grows(s, t)
  <2>1. s.next_id <= t.next_id
    BY <1>2, <1>4
  <2>2. \A id \in Live(s) : t.entities[id] = s.entities[id]
    BY <1>2
  <2>3. \A id \in Live(t) \ Live(s) : id >= s.next_id
    BY <1>3
  <2> QED BY <2>1, <2>2, <2>3 DEF Grows
<1>9. Tagged(s, t)
  BY <1>2, <1>3 DEF Tagged
<1> QED BY <1>5, <1>6, <1>7, <1>8, <1>9 DEF Sound, t

----------------------------------------------------------------------------
(* Frames, names and release.                                              *)

LEMMA FramedSound ==
  ASSUME NEW s, Sound(s), NEW id \in Live(s), NEW f
  PROVE  LET t == Framed(s, id, f)
         IN  Sound(t) /\ t.entities = s.entities /\ t.next_id = s.next_id
             /\ t.op_stack = s.op_stack /\ t.planes = s.planes
<1> DEFINE t == Framed(s, id, f)
<1>1. t = [next_id |-> s.next_id, entities |-> s.entities, name_to_id |-> s.name_to_id,
           frames |-> s.frames \cup {<<id, f>>}, op_stack |-> s.op_stack, planes |-> s.planes]
  <2> DEFINE framed == s.frames \cup {<<id, f>>}
  <2> HIDE DEF framed
  <2>1. t = [s EXCEPT !.frames = framed]
    BY DEF Framed, framed
  <2>2. IsSession(s)
    BY DEF Sound, Typed
  <2> HIDE DEF t
  <2>3. t = [next_id |-> s.next_id, entities |-> s.entities, name_to_id |-> s.name_to_id,
             frames |-> framed, op_stack |-> s.op_stack, planes |-> s.planes]
    BY <2>1, <2>2 DEF IsSession
  <2> QED BY <2>3 DEF framed
<1> HIDE DEF t
<1>2. /\ IsSession(t) /\ t.entities = s.entities /\ t.next_id = s.next_id
      /\ t.name_to_id = s.name_to_id /\ t.op_stack = s.op_stack /\ t.planes = s.planes
      /\ t.frames = s.frames \cup {<<id, f>>} /\ Live(t) = Live(s)
  BY <1>1 DEF IsSession, Live
<1>3. Typed(t)
  BY <1>2 DEF Sound, Typed
<1>4. Named(t)
  BY <1>2 DEF Sound, Named
<1>5. Placed(t)
  BY <1>2 DEF Sound, Placed
<1> QED BY <1>2, <1>3, <1>4, <1>5 DEF Sound, t

\* Releasing an entity: it goes, with its binding, its frames and its plane slot.
LEMMA ReleaseFields ==
  ASSUME NEW s, IsSession(s), NEW id \in Live(s)
  PROVE  LET t == Erase(EraseFrames(UnbindName(s, id), id), id)
         IN  /\ IsSession(t) /\ t.next_id = s.next_id /\ t.op_stack = s.op_stack
             /\ Live(t) = Live(s) \ {id}
             /\ \A i \in Live(t) : t.entities[i] = s.entities[i]
             /\ \A n \in DOMAIN t.name_to_id :
                  n \in DOMAIN s.name_to_id /\ t.name_to_id[n] = s.name_to_id[n]
             /\ \A n \in DOMAIN s.name_to_id :
                  n \in DOMAIN t.name_to_id <=> ~(n = s.entities[id].name /\ s.name_to_id[n] = id)
             /\ t.frames = {f \in s.frames : f[1] # id}
             /\ t.planes = [p \in Plane |-> IF s.planes[p] = id THEN 0 ELSE s.planes[p]]
<1> DEFINE t == Erase(EraseFrames(UnbindName(s, id), id), id)
           cleared == [s.entities EXCEPT ![id].name = ""]
           bound == Without(s.name_to_id,
                      {m \in DOMAIN s.name_to_id : m = s.entities[id].name /\ s.name_to_id[m] = id})
           kept == {f \in s.frames : f[1] # id}
           slots == [p \in Plane |-> IF s.planes[p] = id THEN 0 ELSE s.planes[p]]
<1> HIDE DEF cleared, bound, kept, slots
<1>1. UnbindName(s, id) = [next_id |-> s.next_id, entities |-> cleared, name_to_id |-> bound,
                           frames |-> s.frames, op_stack |-> s.op_stack, planes |-> s.planes]
  <2>1. UnbindName(s, id) = [s EXCEPT !.entities = cleared, !.name_to_id = bound]
    BY DEF UnbindName, cleared, bound
  <2> QED BY <2>1 DEF IsSession
<1>2. EraseFrames(UnbindName(s, id), id)
        = [next_id |-> s.next_id, entities |-> cleared, name_to_id |-> bound,
           frames |-> kept, op_stack |-> s.op_stack, planes |-> s.planes]
  <2> DEFINE u == UnbindName(s, id)
  <2> HIDE DEF u
  <2>1. u.frames = s.frames
    BY <1>1 DEF u
  <2>2. EraseFrames(u, id) = [u EXCEPT !.frames = kept]
    BY <2>1 DEF EraseFrames, kept
  <2>3. EraseFrames(u, id)
          = [next_id |-> s.next_id, entities |-> cleared, name_to_id |-> bound,
             frames |-> kept, op_stack |-> s.op_stack, planes |-> s.planes]
    BY <1>1, <2>2 DEF u
  <2> QED BY <2>3 DEF u
<1>3. t = [next_id |-> s.next_id, entities |-> Without(cleared, {id}), name_to_id |-> bound,
           frames |-> kept, op_stack |-> s.op_stack, planes |-> slots]
  <2> DEFINE u == EraseFrames(UnbindName(s, id), id)
             rest == Without(cleared, {id})
  <2> HIDE DEF u, rest
  <2>0. u = [next_id |-> s.next_id, entities |-> cleared, name_to_id |-> bound,
             frames |-> kept, op_stack |-> s.op_stack, planes |-> s.planes]
    BY <1>2 DEF u
  <2>1. u.planes = s.planes /\ u.entities = cleared
    BY <2>0
  <2>2. Erase(u, id) = [u EXCEPT !.planes = slots, !.entities = rest]
    BY <2>1 DEF Erase, slots, rest
  <2>3. Erase(u, id) = [next_id |-> s.next_id, entities |-> rest, name_to_id |-> bound,
                        frames |-> kept, op_stack |-> s.op_stack, planes |-> slots]
    BY <2>0, <2>2
  <2> QED BY <2>3 DEF u, rest
<1>4. DOMAIN Without(cleared, {id}) = Live(s) \ {id}
      /\ \A i \in Live(s) \ {id} : Without(cleared, {id})[i] = s.entities[i]
  BY DEF Without, cleared, Live
<1>5. /\ \A n \in DOMAIN bound : n \in DOMAIN s.name_to_id /\ bound[n] = s.name_to_id[n]
      /\ \A n \in DOMAIN s.name_to_id :
           n \in DOMAIN bound <=> ~(n = s.entities[id].name /\ s.name_to_id[n] = id)
  BY DEF Without, bound
<1> HIDE DEF t
<1> QED BY <1>3, <1>4, <1>5 DEF IsSession, Live, t, kept, slots

LEMMA ReleaseSound ==
  ASSUME NEW s, Sound(s), NEW id \in Live(s)
  PROVE  LET t == Erase(EraseFrames(UnbindName(s, id), id), id)
         IN  Sound(t) /\ Grows(s, t) /\ Tagged(s, t)
<1> DEFINE t == Erase(EraseFrames(UnbindName(s, id), id), id)
<1>1. Typed(s) /\ Named(s) /\ Placed(s) /\ IsSession(s)
  BY DEF Sound, Typed
<1>2. /\ IsSession(t) /\ t.next_id = s.next_id /\ t.op_stack = s.op_stack
      /\ Live(t) = Live(s) \ {id}
      /\ \A i \in Live(t) : t.entities[i] = s.entities[i]
      /\ \A n \in DOMAIN t.name_to_id :
           n \in DOMAIN s.name_to_id /\ t.name_to_id[n] = s.name_to_id[n]
      /\ \A n \in DOMAIN s.name_to_id :
           n \in DOMAIN t.name_to_id <=> ~(n = s.entities[id].name /\ s.name_to_id[n] = id)
      /\ t.frames = {f \in s.frames : f[1] # id}
      /\ t.planes = [p \in Plane |-> IF s.planes[p] = id THEN 0 ELSE s.planes[p]]
  BY <1>1, ReleaseFields
<1> HIDE DEF t
<1>3. s.next_id \in Nat \ {0} /\ Live(s) \subseteq 1 .. s.next_id - 1 /\ s.planes \in [Plane -> Nat]
  BY <1>1 DEF Typed
<1>4. Typed(t)
  BY <1>1, <1>2, <1>3 DEF Typed
<1>5. Named(t)
  <2>1. ASSUME NEW n \in DOMAIN t.name_to_id
        PROVE  t.name_to_id[n] \in Live(t) /\ t.entities[t.name_to_id[n]].name = n
    <3>1. /\ n \in DOMAIN s.name_to_id /\ t.name_to_id[n] = s.name_to_id[n]
          /\ ~(n = s.entities[id].name /\ s.name_to_id[n] = id)
      BY <1>2
    <3>2. s.name_to_id[n] \in Live(s) /\ s.entities[s.name_to_id[n]].name = n
      BY <1>1, <3>1 DEF Named
    <3>3. s.name_to_id[n] # id
      BY <3>1, <3>2
    <3>4. s.name_to_id[n] \in Live(t)
      BY <1>2, <3>2, <3>3
    <3> QED BY <1>2, <3>1, <3>2, <3>4
  <2>2. ASSUME NEW i \in Live(t), t.entities[i].name # "", t.entities[i].name \notin WorldNames
        PROVE  t.entities[i].name \in DOMAIN t.name_to_id /\ t.name_to_id[t.entities[i].name] = i
    <3>1. i \in Live(s) /\ i # id /\ t.entities[i] = s.entities[i]
      BY <1>2
    <3>2. s.entities[i].name \in DOMAIN s.name_to_id /\ s.name_to_id[s.entities[i].name] = i
      BY <1>1, <2>2, <3>1 DEF Named
    <3> QED BY <1>2, <3>1, <3>2
  <2> QED BY <2>1, <2>2 DEF Named
<1>6. Placed(t)
  <2>1. \A f \in t.frames : f[1] \in Live(t)
    BY <1>1, <1>2 DEF Placed
  <2>2. ASSUME NEW p \in Plane, t.planes[p] # 0
        PROVE  /\ t.planes[p] \in Live(t) /\ t.entities[t.planes[p]].created_by = WorldOp[p]
               /\ t.entities[t.planes[p]].kind = "FACE" /\ <<t.planes[p], "cs">> \in t.frames
    <3>1. t.planes[p] = s.planes[p] /\ s.planes[p] # id /\ s.planes[p] # 0
      BY <1>2, <2>2
    <3>2. /\ s.planes[p] \in Live(s) /\ s.entities[s.planes[p]].created_by = WorldOp[p]
          /\ s.entities[s.planes[p]].kind = "FACE" /\ <<s.planes[p], "cs">> \in s.frames
      BY <1>1, <3>1 DEF Placed
    <3> QED BY <1>2, <3>1, <3>2
  <2> QED BY <2>1, <2>2 DEF Placed
<1>7. Grows(s, t)
  BY <1>2, <1>3 DEF Grows
<1>8. Tagged(s, t)
  BY <1>2 DEF Tagged
<1> QED BY <1>4, <1>5, <1>6, <1>7, <1>8 DEF Sound, t

----------------------------------------------------------------------------
(* Naming: the name is taken from who has it, the entity's old name goes,  *)
(* and the two are bound.                                                  *)

LEMMA Renamed ==
  ASSUME NEW r \in EntityRec, NEW x \in Label \cup {""}
  PROVE  LET q == [r EXCEPT !.name = x]
         IN  q \in EntityRec /\ q.kind = r.kind /\ q.created_by = r.created_by /\ q.name = x
BY DEF EntityRec

LEMMA StealFields ==
  ASSUME NEW s, Typed(s), NEW id \in Live(s), NEW n
  PROVE  OnlyNames(s, StealName(s, id, n)) /\ Stolen(s, StealName(s, id, n), id, n)
<1> DEFINE t == StealName(s, id, n)
           o == s.name_to_id[n]
           stolen == n \in DOMAIN s.name_to_id /\ o # id /\ o \in Live(s)
           table == [s.entities EXCEPT ![o].name = ""]
<1>1. IsSession(s) /\ \A i \in Live(s) : s.entities[i] \in EntityRec
  BY DEF Typed
<1>2. CASE stolen
  <2>1. t = [s EXCEPT !.entities = table]
    BY <1>2 DEF StealName
  <2>2. DOMAIN table = Live(s) /\ (\A i \in Live(s) \ {o} : table[i] = s.entities[i])
        /\ table[o] = [s.entities[o] EXCEPT !.name = ""]
    BY <1>2 DEF Live
  <2>3. /\ table[o] \in EntityRec /\ table[o].name = "" /\ table[o].kind = s.entities[o].kind
        /\ table[o].created_by = s.entities[o].created_by
    <3>1. s.entities[o] \in EntityRec
      BY <1>1, <1>2
    <3> HIDE DEF table, o
    <3>2. LET q == [s.entities[o] EXCEPT !.name = ""]
          IN  /\ q \in EntityRec /\ q.name = "" /\ q.kind = s.entities[o].kind
              /\ q.created_by = s.entities[o].created_by
      BY <3>1, Renamed
    <3> QED BY <3>2, <2>2
  <2> HIDE DEF table, t
  <2>4. t = [next_id |-> s.next_id, entities |-> table, name_to_id |-> s.name_to_id,
             frames |-> s.frames, op_stack |-> s.op_stack, planes |-> s.planes]
    BY <1>1, <2>1 DEF IsSession
  <2>5. /\ IsSession(t) /\ t.next_id = s.next_id /\ t.op_stack = s.op_stack
        /\ t.frames = s.frames /\ t.planes = s.planes /\ t.name_to_id = s.name_to_id
        /\ Live(t) = Live(s) /\ t.entities = table
    BY <2>2, <2>4 DEF IsSession, Live
  <2>6. t.entities[id] = s.entities[id]
    BY <1>2, <2>2, <2>5
  <2>7. ASSUME NEW i \in Live(s)
        PROVE  /\ t.entities[i] \in EntityRec
               /\ t.entities[i].kind = s.entities[i].kind
               /\ t.entities[i].created_by = s.entities[i].created_by
               /\ i # id =>
                    t.entities[i].name = IF n \in DOMAIN s.name_to_id /\ s.name_to_id[n] = i
                                         THEN "" ELSE s.entities[i].name
    <3>1. CASE i = o
      BY <3>1, <1>2, <2>3, <2>5
    <3>2. CASE i # o
      BY <3>2, <1>1, <2>2, <2>5
    <3> QED BY <3>1, <3>2
  <2> QED BY <2>5, <2>6, <2>7 DEF t, OnlyNames, Stolen
<1>3. CASE ~stolen
  <2>1. t = s
    BY <1>3 DEF StealName
  <2>2. \A i \in Live(s) : i # id => ~(n \in DOMAIN s.name_to_id /\ s.name_to_id[n] = i)
    BY <1>3
  <2> HIDE DEF t
  <2> QED BY <1>1, <2>1, <2>2 DEF t, OnlyNames, Stolen
<1> QED BY <1>2, <1>3

LEMMA UnbindFields ==
  ASSUME NEW s, IsSession(s), NEW id \in Live(s), \A i \in Live(s) : s.entities[i] \in EntityRec
  PROVE  OnlyNames(s, UnbindName(s, id)) /\ Unbound(s, UnbindName(s, id), id)
<1> DEFINE t == UnbindName(s, id)
           table == [s.entities EXCEPT ![id].name = ""]
           bound == Without(s.name_to_id,
                      {m \in DOMAIN s.name_to_id : m = s.entities[id].name /\ s.name_to_id[m] = id})
<1>1. t = [s EXCEPT !.entities = table, !.name_to_id = bound]
  BY DEF UnbindName
<1>2. DOMAIN table = Live(s) /\ (\A i \in Live(s) \ {id} : table[i] = s.entities[i])
      /\ table[id] = [s.entities[id] EXCEPT !.name = ""]
  BY DEF Live
<1>3. /\ table[id] \in EntityRec /\ table[id].kind = s.entities[id].kind
      /\ table[id].created_by = s.entities[id].created_by
  BY <1>2, Renamed
<1>4. /\ \A m \in DOMAIN bound : m \in DOMAIN s.name_to_id /\ bound[m] = s.name_to_id[m]
      /\ \A m \in DOMAIN s.name_to_id :
           m \in DOMAIN bound <=> ~(m = s.entities[id].name /\ s.name_to_id[m] = id)
  BY DEF Without
<1> HIDE DEF table, bound, t
<1>5. t = [next_id |-> s.next_id, entities |-> table, name_to_id |-> bound,
           frames |-> s.frames, op_stack |-> s.op_stack, planes |-> s.planes]
  BY <1>1 DEF IsSession
<1>6. /\ IsSession(t) /\ t.next_id = s.next_id /\ t.op_stack = s.op_stack
      /\ t.frames = s.frames /\ t.planes = s.planes /\ t.name_to_id = bound
      /\ Live(t) = Live(s) /\ t.entities = table
  BY <1>2, <1>5 DEF IsSession, Live
<1>7. ASSUME NEW i \in Live(s)
      PROVE  /\ t.entities[i] \in EntityRec
             /\ t.entities[i].kind = s.entities[i].kind
             /\ t.entities[i].created_by = s.entities[i].created_by
             /\ i # id => t.entities[i].name = s.entities[i].name
  <2>1. CASE i = id
    BY <2>1, <1>3, <1>6
  <2>2. CASE i # id
    BY <2>2, <1>2, <1>6
  <2> QED BY <2>1, <2>2
<1> QED BY <1>4, <1>6, <1>7 DEF t, OnlyNames, Unbound

LEMMA BindFields ==
  ASSUME NEW s, IsSession(s), NEW id \in Live(s), NEW n \in Label,
         \A i \in Live(s) : s.entities[i] \in EntityRec
  PROVE  OnlyNames(s, Bind(s, id, n)) /\ Bound(s, Bind(s, id, n), id, n)
<1> DEFINE t == Bind(s, id, n)
           table == [s.entities EXCEPT ![id].name = n]
           bound == [m \in DOMAIN s.name_to_id \cup {n} |-> IF m = n THEN id ELSE s.name_to_id[m]]
<1>1. t = [s EXCEPT !.entities = table, !.name_to_id = bound]
  BY DEF Bind
<1>2. DOMAIN table = Live(s) /\ (\A i \in Live(s) \ {id} : table[i] = s.entities[i])
      /\ table[id] = [s.entities[id] EXCEPT !.name = n]
  BY DEF Live
<1>3. /\ table[id] \in EntityRec /\ table[id].name = n /\ table[id].kind = s.entities[id].kind
      /\ table[id].created_by = s.entities[id].created_by
  BY <1>2, Renamed
<1>4. /\ DOMAIN bound = DOMAIN s.name_to_id \cup {n} /\ bound[n] = id
      /\ \A m \in DOMAIN s.name_to_id : m # n => bound[m] = s.name_to_id[m]
  OBVIOUS
<1> HIDE DEF table, bound, t
<1>5. t = [next_id |-> s.next_id, entities |-> table, name_to_id |-> bound,
           frames |-> s.frames, op_stack |-> s.op_stack, planes |-> s.planes]
  BY <1>1 DEF IsSession
<1>6. /\ IsSession(t) /\ t.next_id = s.next_id /\ t.op_stack = s.op_stack
      /\ t.frames = s.frames /\ t.planes = s.planes /\ t.name_to_id = bound
      /\ Live(t) = Live(s) /\ t.entities = table
  BY <1>2, <1>5 DEF IsSession, Live
<1>7. ASSUME NEW i \in Live(s)
      PROVE  /\ t.entities[i] \in EntityRec
             /\ t.entities[i].kind = s.entities[i].kind
             /\ t.entities[i].created_by = s.entities[i].created_by
             /\ i # id => t.entities[i] = s.entities[i]
  <2>1. CASE i = id
    BY <2>1, <1>3, <1>6
  <2>2. CASE i # id
    BY <2>2, <1>2, <1>6
  <2> QED BY <2>1, <2>2
<1> QED BY <1>3, <1>4, <1>6, <1>7 DEF t, OnlyNames, Bound

LEMMA SetNameSound ==
  ASSUME NEW s, Sound(s), NEW id \in Live(s), NEW n \in Label, n # ""
  PROVE  LET t == Bind(UnbindName(StealName(s, id, n), id), id, n)
         IN  Sound(t) /\ Grows(s, t) /\ Tagged(s, t)
<1> DEFINE a == StealName(s, id, n)
           b == UnbindName(a, id)
           t == Bind(b, id, n)
           old == s.entities[id].name
<1>1. Typed(s) /\ Named(s) /\ Placed(s)
  BY DEF Sound
<1>2. OnlyNames(s, a) /\ Stolen(s, a, id, n)
  BY <1>1, StealFields
<1> HIDE DEF a
<1>3. OnlyNames(a, b) /\ Unbound(a, b, id)
  <2>1. IsSession(a) /\ id \in Live(a) /\ \A i \in Live(a) : a.entities[i] \in EntityRec
    BY <1>2 DEF OnlyNames
  <2> QED BY <2>1, UnbindFields
<1> HIDE DEF b
<1>4. OnlyNames(b, t) /\ Bound(b, t, id, n)
  <2>1. IsSession(b) /\ id \in Live(b) /\ \A i \in Live(b) : b.entities[i] \in EntityRec
    BY <1>2, <1>3 DEF OnlyNames
  <2> QED BY <2>1, BindFields
<1> HIDE DEF t, old
<1>5. /\ OnlyNames(s, t)
      /\ \A m \in DOMAIN b.name_to_id :
           m \in DOMAIN s.name_to_id /\ b.name_to_id[m] = s.name_to_id[m]
      /\ \A m \in DOMAIN s.name_to_id :
           m \in DOMAIN b.name_to_id <=> ~(m = old /\ s.name_to_id[m] = id)
      /\ t.entities[id].name = n
      /\ \A i \in Live(s) : i # id =>
           t.entities[i].name = IF n \in DOMAIN s.name_to_id /\ s.name_to_id[n] = i
                                THEN "" ELSE s.entities[i].name
  <2>1. OnlyNames(s, t)
    BY <1>2, <1>3, <1>4 DEF OnlyNames
  <2>2. /\ \A m \in DOMAIN b.name_to_id :
             m \in DOMAIN s.name_to_id /\ b.name_to_id[m] = s.name_to_id[m]
        /\ \A m \in DOMAIN s.name_to_id :
             m \in DOMAIN b.name_to_id <=> ~(m = old /\ s.name_to_id[m] = id)
    BY <1>2, <1>3 DEF Stolen, Unbound, old
  <2>3. t.entities[id].name = n
    BY <1>4 DEF Bound
  <2>4. ASSUME NEW i \in Live(s), i # id
        PROVE  t.entities[i].name = IF n \in DOMAIN s.name_to_id /\ s.name_to_id[n] = i
                                    THEN "" ELSE s.entities[i].name
    <3>1. i \in Live(a) /\ i \in Live(b)
      BY <1>2, <1>3 DEF OnlyNames
    <3>2. t.entities[i].name = a.entities[i].name
      BY <1>3, <1>4, <2>4, <3>1 DEF Unbound, Bound
    <3> QED BY <1>2, <2>4, <3>2 DEF Stolen
  <2> QED BY <2>1, <2>2, <2>3, <2>4
<1>6. id \in Nat
  BY <1>1, IdFacts
<1>7. Typed(t)
  <2>1. ASSUME NEW m \in DOMAIN t.name_to_id PROVE m \in Label /\ t.name_to_id[m] \in Nat
    <3>1. CASE m = n
      BY <3>1, <1>4, <1>6 DEF Bound
    <3>2. CASE m # n
      BY <3>2, <1>1, <1>4, <1>5 DEF Bound, Typed
    <3> QED BY <3>1, <3>2
  <2> QED BY <1>1, <1>5, <2>1 DEF Typed, OnlyNames
<1>8. Named(t)
  <2>1. ASSUME NEW m \in DOMAIN t.name_to_id
        PROVE  t.name_to_id[m] \in Live(t) /\ t.entities[t.name_to_id[m]].name = m
    <3>1. CASE m = n
      BY <3>1, <1>4, <1>5 DEF Bound, OnlyNames
    <3>2. CASE m # n
      <4> DEFINE i == s.name_to_id[m]
      <4>1. /\ m \in DOMAIN s.name_to_id /\ t.name_to_id[m] = i
            /\ ~(m = old /\ i = id)
        BY <3>2, <1>4, <1>5 DEF Bound
      <4>2. i \in Live(s) /\ s.entities[i].name = m
        BY <1>1, <4>1 DEF Named
      <4>3. i # id
        BY <4>1, <4>2 DEF old
      <4>4. ~(n \in DOMAIN s.name_to_id /\ s.name_to_id[n] = i)
        BY <3>2, <1>1, <4>2 DEF Named
      <4> QED BY <1>5, <4>1, <4>2, <4>3, <4>4 DEF OnlyNames
    <3> QED BY <3>1, <3>2
  <2>2. ASSUME NEW i \in Live(t), t.entities[i].name # "", t.entities[i].name \notin WorldNames
        PROVE  t.entities[i].name \in DOMAIN t.name_to_id /\ t.name_to_id[t.entities[i].name] = i
    <3>1. CASE i = id
      BY <3>1, <1>4, <1>5 DEF Bound
    <3>2. CASE i # id
      <4> DEFINE m == s.entities[i].name
      <4>1. i \in Live(s) /\ t.entities[i].name = m
            /\ ~(n \in DOMAIN s.name_to_id /\ s.name_to_id[n] = i)
        BY <3>2, <2>2, <1>5 DEF OnlyNames
      <4>2. m \in DOMAIN s.name_to_id /\ s.name_to_id[m] = i
        BY <1>1, <2>2, <4>1 DEF Named
      <4>3. m # n
        BY <4>1, <4>2
      <4>4. m \in DOMAIN b.name_to_id /\ b.name_to_id[m] = i
        BY <3>2, <4>2, <1>5
      <4> QED BY <1>4, <4>1, <4>3, <4>4 DEF Bound
    <3> QED BY <3>1, <3>2
  <2> QED BY <2>1, <2>2 DEF Named
<1>9. Placed(t)
  <2>1. \A f \in t.frames : f[1] \in Live(t)
    BY <1>1, <1>5 DEF Placed, OnlyNames
  <2>2. ASSUME NEW p \in Plane, t.planes[p] # 0
        PROVE  /\ t.planes[p] \in Live(t) /\ t.entities[t.planes[p]].created_by = WorldOp[p]
               /\ t.entities[t.planes[p]].kind = "FACE" /\ <<t.planes[p], "cs">> \in t.frames
    <3>1. /\ s.planes[p] \in Live(s) /\ s.entities[s.planes[p]].created_by = WorldOp[p]
          /\ s.entities[s.planes[p]].kind = "FACE" /\ <<s.planes[p], "cs">> \in s.frames
      BY <1>1, <1>5, <2>2 DEF Placed, OnlyNames
    <3>2. t.planes = s.planes /\ t.frames = s.frames /\ Live(t) = Live(s)
      BY <1>5 DEF OnlyNames
    <3>3. /\ t.entities[s.planes[p]].created_by = s.entities[s.planes[p]].created_by
          /\ t.entities[s.planes[p]].kind = s.entities[s.planes[p]].kind
      BY <1>5, <3>1 DEF OnlyNames
    <3> QED BY <3>1, <3>2, <3>3
  <2> QED BY <2>1, <2>2 DEF Placed
<1>10. Grows(s, t)
  <2>1. s.next_id <= t.next_id
    BY <1>1, <1>5, IdFacts DEF OnlyNames
  <2> QED BY <1>5, <2>1 DEF Grows, OnlyNames
<1>11. Tagged(s, t)
  BY <1>5 DEF Tagged, OnlyNames
<1> QED BY <1>7, <1>8, <1>9, <1>10, <1>11 DEF Sound, t, b, a

----------------------------------------------------------------------------
(* World planes.                                                           *)

\* AddPlane adds one entity, binds its name, frames it and puts it in its slot.
PlaneAdded(s, t, p, id) ==
  /\ IsSession(t) /\ t.next_id = id + 1 /\ t.op_stack = s.op_stack
  /\ Live(t) = Live(s) \cup {id}
  /\ \A i \in Live(s) : t.entities[i] = s.entities[i]
  /\ t.entities[id] \in EntityRec /\ t.entities[id].kind = "FACE"
  /\ t.entities[id].created_by = WorldOp[p] /\ t.entities[id].name = WorldName[p]
  /\ DOMAIN t.name_to_id = DOMAIN s.name_to_id \cup {WorldName[p]}
  /\ t.name_to_id[WorldName[p]] = id
  /\ \A m \in DOMAIN s.name_to_id : m # WorldName[p] => t.name_to_id[m] = s.name_to_id[m]
  /\ t.frames = s.frames \cup {<<id, "cs">>}
  /\ t.planes = [s.planes EXCEPT ![p] = id]

\* What making planes adds to a session: nothing but planes, each under its own operation.
Planted(s, t) ==
  /\ s.next_id <= t.next_id /\ t.op_stack = s.op_stack
  /\ Live(s) \subseteq Live(t)
  /\ \A id \in Live(s) : t.entities[id] = s.entities[id]
  /\ \A p \in Plane : s.planes[p] \in Live(s) => t.planes[p] = s.planes[p]
  /\ \A id \in Live(t) \ Live(s) :
       id >= s.next_id /\ \E p \in Plane : t.planes[p] = id /\ t.entities[id].created_by = WorldOp[p]

LEMMA AddPlaneFields ==
  ASSUME NEW s, Sound(s), NEW p \in Plane
  PROVE  PlaneAdded(s, AddPlane(s, p), p, s.next_id)
<1> DEFINE id == s.next_id
           pushed == [s EXCEPT !.op_stack = Append(s.op_stack, WorldOp[p])]
           made == Register(pushed, <<"FACE">>, TRUE)
           popped == [made EXCEPT !.op_stack = Popped(made.op_stack)]
           bound == Bind(popped, id, WorldName[p])
           t == AddPlane(s, p)
<1>1. IsSession(s) /\ Live(s) \subseteq 1 .. id - 1 /\ id \in Nat \ {0} /\ s.op_stack \in Seq(Op)
      /\ \A i \in Live(s) : s.entities[i] \in EntityRec
  BY DEF Sound, Typed
<1>2. /\ IsSession(pushed) /\ pushed.next_id = id /\ pushed.entities = s.entities
      /\ Live(pushed) = Live(s) /\ pushed.name_to_id = s.name_to_id /\ pushed.frames = s.frames
      /\ pushed.planes = s.planes /\ pushed.op_stack = Append(s.op_stack, WorldOp[p])
  <2> DEFINE stack == Append(s.op_stack, WorldOp[p])
  <2> HIDE DEF stack
  <2>1. pushed = [s EXCEPT !.op_stack = stack]
    BY DEF stack
  <2> HIDE DEF pushed
  <2>2. pushed = [next_id |-> s.next_id, entities |-> s.entities, name_to_id |-> s.name_to_id,
                  frames |-> s.frames, op_stack |-> stack, planes |-> s.planes]
    BY <1>1, <2>1 DEF IsSession
  <2> QED BY <2>2 DEF IsSession, Live, stack
<1> HIDE DEF pushed
<1>3. CurrentOp(pushed) = WorldOp[p] /\ CurrentOp(pushed) \in Tag
  <2> DEFINE w == WorldOp[p]
             k == Len(s.op_stack)
  <2> HIDE DEF w
  <2>1. w \in Tag /\ s.op_stack \in Seq(Tag)
    <3>1. w \in Tag
      BY WorldFacts DEF w
    <3>2. Op \subseteq Tag
      BY DEF Tag
    <3> QED BY <1>1, <3>1, <3>2, SeqMonotonic
  <2>2. Len(Append(s.op_stack, w)) = k + 1 /\ Append(s.op_stack, w)[k + 1] = w /\ k \in Nat
    BY <2>1
  <2>3. pushed.op_stack # <<>> /\ pushed.op_stack[Len(pushed.op_stack)] = WorldOp[p]
    <3>1. pushed.op_stack = Append(s.op_stack, w)
      BY <1>2 DEF w
    <3>2. pushed.op_stack # <<>>
      BY <2>2, <3>1
    <3>3. pushed.op_stack[Len(pushed.op_stack)] = w
      BY <2>2, <3>1
    <3> QED BY <3>2, <3>3 DEF w
  <2> QED BY <2>3, WorldFacts DEF CurrentOp
<1>4. <<"FACE">> \in Seq(Kind) /\ Len(<<"FACE">>) = 1
  BY DEF Kind
<1>5. /\ IsSession(made) /\ made.next_id = id + 1
      /\ Live(made) = Live(s) \cup {id}
      /\ \A i \in Live(s) : made.entities[i] = s.entities[i]
      /\ made.name_to_id = s.name_to_id /\ made.frames = s.frames
      /\ made.op_stack = pushed.op_stack /\ made.planes = s.planes
  <2>1. Registered(pushed, made, 1)
    BY <1>2, <1>4, RegisterFields
  <2>2. id .. (id + 1 - 1) = {id}
    BY <1>1
  <2> QED BY <1>2, <2>1, <2>2 DEF Registered
<1>6. /\ made.entities[id] \in EntityRec /\ made.entities[id].kind = "FACE"
      /\ made.entities[id].created_by = WorldOp[p]
  <2>1. id \in Live(made) \ Live(pushed)
    <3>1. id \notin 1 .. id - 1
      BY <1>1
    <3> QED BY <1>1, <1>2, <1>5, <3>1
  <2>2. made.entities[id] \in EntityRec
    BY <1>1, <1>2, <1>3, <1>4, <2>1, RegisterNew
  <2>3. made.entities[id].kind = <<"FACE">>[id - pushed.next_id + 1]
    BY <1>1, <1>2, <1>3, <1>4, <2>1, RegisterNew
  <2>4. made.entities[id].created_by = WorldOp[p]
    BY <1>1, <1>2, <1>3, <1>4, <2>1, RegisterNew
  <2>5. id - pushed.next_id + 1 = 1
    BY <1>1, <1>2
  <2>6. <<"FACE">>[1] = "FACE"
    OBVIOUS
  <2>7. made.entities[id].kind = "FACE"
    BY <2>3, <2>5, <2>6
  <2> QED BY <2>2, <2>4, <2>7
<1> HIDE DEF made
<1>7. Popped(made.op_stack) = s.op_stack
  BY <1>1, <1>2, <1>5 DEF Popped
<1>8. /\ IsSession(popped) /\ popped.next_id = id + 1 /\ popped.entities = made.entities
      /\ Live(popped) = Live(made) /\ popped.name_to_id = s.name_to_id
      /\ popped.frames = s.frames /\ popped.planes = s.planes /\ popped.op_stack = s.op_stack
  <2>1. popped = [made EXCEPT !.op_stack = s.op_stack]
    BY <1>7
  <2> HIDE DEF popped
  <2>2. popped = [next_id |-> made.next_id, entities |-> made.entities,
                  name_to_id |-> made.name_to_id, frames |-> made.frames,
                  op_stack |-> s.op_stack, planes |-> made.planes]
    BY <1>5, <2>1 DEF IsSession
  <2> QED BY <1>5, <2>2 DEF IsSession, Live
<1> HIDE DEF popped
<1>9. id \in Live(popped) /\ WorldName[p] \in Label
      /\ \A i \in Live(popped) : popped.entities[i] \in EntityRec
  BY <1>1, <1>5, <1>6, <1>8, WorldFacts
<1>10. OnlyNames(popped, bound) /\ Bound(popped, bound, id, WorldName[p])
  BY <1>8, <1>9, BindFields
<1> HIDE DEF bound
<1>11. /\ IsSession(bound) /\ bound.next_id = id + 1 /\ bound.op_stack = s.op_stack
       /\ bound.frames = s.frames /\ bound.planes = s.planes /\ Live(bound) = Live(s) \cup {id}
       /\ bound.entities[id] \in EntityRec /\ bound.entities[id].kind = "FACE"
       /\ bound.entities[id].created_by = WorldOp[p]
       /\ \A i \in Live(s) : bound.entities[i] = s.entities[i]
       /\ Bound(s, bound, id, WorldName[p])
  <2>1. \A i \in Live(s) : i # id /\ i \in Live(popped) /\ popped.entities[i] = s.entities[i]
    BY <1>1, <1>5, <1>8
  <2>2. \A i \in Live(s) : bound.entities[i] = s.entities[i]
    BY <1>10, <2>1 DEF Bound
  <2>3. Bound(s, bound, id, WorldName[p])
    BY <1>8, <1>10, <2>2 DEF Bound
  <2>4. /\ bound.entities[id] \in EntityRec /\ bound.entities[id].kind = "FACE"
        /\ bound.entities[id].created_by = WorldOp[p]
    BY <1>6, <1>8, <1>9, <1>10 DEF OnlyNames
  <2> QED BY <1>5, <1>8, <1>10, <2>2, <2>3, <2>4 DEF OnlyNames
<1>12. t = [bound EXCEPT !.frames = bound.frames \cup {<<id, "cs">>},
                         !.planes = [bound.planes EXCEPT ![p] = id]]
  BY DEF AddPlane, bound, popped, made, pushed
<1> HIDE DEF bound, t
<1>13. /\ IsSession(t) /\ t.next_id = bound.next_id /\ t.op_stack = bound.op_stack
       /\ t.entities = bound.entities /\ Live(t) = Live(bound) /\ t.name_to_id = bound.name_to_id
       /\ t.frames = bound.frames \cup {<<id, "cs">>}
       /\ t.planes = [bound.planes EXCEPT ![p] = id]
  <2> DEFINE frames == bound.frames \cup {<<id, "cs">>}
             planes == [bound.planes EXCEPT ![p] = id]
  <2> HIDE DEF frames, planes
  <2>1. t = [bound EXCEPT !.frames = frames, !.planes = planes]
    BY <1>12 DEF frames, planes
  <2>2. t = [next_id |-> bound.next_id, entities |-> bound.entities,
             name_to_id |-> bound.name_to_id, frames |-> frames,
             op_stack |-> bound.op_stack, planes |-> planes]
    BY <1>11, <2>1 DEF IsSession
  <2> QED BY <2>2 DEF IsSession, Live, frames, planes
<1> QED BY <1>11, <1>13 DEF t, Bound, PlaneAdded

LEMMA AddPlaneSound ==
  ASSUME NEW s, Sound(s), NEW p \in Plane, ~HasPlane(s, p)
  PROVE  Sound(AddPlane(s, p)) /\ Planted(s, AddPlane(s, p))
<1> DEFINE t == AddPlane(s, p)
           id == s.next_id
<1>1. Typed(s) /\ Named(s) /\ Placed(s)
  BY DEF Sound
<1>2. PlaneAdded(s, t, p, id)
  BY AddPlaneFields
<1> HIDE DEF t
<1>3. /\ id \in Nat \ {0} /\ Live(s) \subseteq 1 .. id - 1 /\ id \notin Live(s) /\ 0 \notin Live(s)
      /\ s.planes \in [Plane -> Nat]
  BY <1>1, IdFacts DEF Typed
<1>4. WorldName[p] \in Label /\ WorldName[p] # "" /\ WorldName[p] \in WorldNames
  BY WorldFacts DEF WorldNames
<1> HIDE DEF id
<1>5. Typed(t)
  <2>1. IsSession(t) /\ t.next_id \in Nat \ {0} /\ t.op_stack \in Seq(Op)
    BY <1>1, <1>2, <1>3 DEF PlaneAdded, Typed
  <2>2. Live(t) \subseteq 1 .. t.next_id - 1
    <3>1. Live(t) = Live(s) \cup {id} /\ t.next_id = id + 1
      BY <1>2 DEF PlaneAdded
    <3> QED BY <1>3, <3>1
  <2>3. ASSUME NEW i \in Live(t) PROVE t.entities[i] \in EntityRec
    BY <1>1, <1>2, <2>3 DEF PlaneAdded, Typed
  <2>4. ASSUME NEW m \in DOMAIN t.name_to_id PROVE m \in Label /\ t.name_to_id[m] \in Nat
    <3>1. CASE m = WorldName[p]
      BY <3>1, <1>2, <1>3, <1>4 DEF PlaneAdded
    <3>2. CASE m # WorldName[p]
      BY <3>2, <1>1, <1>2 DEF PlaneAdded, Typed
    <3> QED BY <3>1, <3>2
  <2>5. t.planes \in [Plane -> Nat]
    BY <1>2, <1>3 DEF PlaneAdded
  <2> QED BY <2>1, <2>2, <2>3, <2>4, <2>5 DEF Typed
<1>6. Named(t)
  <2>1. ASSUME NEW m \in DOMAIN t.name_to_id
        PROVE  t.name_to_id[m] \in Live(t) /\ t.entities[t.name_to_id[m]].name = m
    <3>1. CASE m = WorldName[p]
      BY <3>1, <1>2 DEF PlaneAdded
    <3>2. CASE m # WorldName[p]
      <4>1. m \in DOMAIN s.name_to_id /\ t.name_to_id[m] = s.name_to_id[m]
        BY <3>2, <1>2 DEF PlaneAdded
      <4>2. s.name_to_id[m] \in Live(s) /\ s.entities[s.name_to_id[m]].name = m
        BY <1>1, <4>1 DEF Named
      <4> QED BY <1>2, <4>1, <4>2 DEF PlaneAdded
    <3> QED BY <3>1, <3>2
  <2>2. ASSUME NEW i \in Live(t), t.entities[i].name # "", t.entities[i].name \notin WorldNames
        PROVE  t.entities[i].name \in DOMAIN t.name_to_id /\ t.name_to_id[t.entities[i].name] = i
    <3>1. i # id
      BY <1>2, <1>4, <2>2 DEF PlaneAdded
    <3>2. i \in Live(s) /\ t.entities[i] = s.entities[i]
      BY <1>2, <3>1 DEF PlaneAdded
    <3>3. s.entities[i].name \in DOMAIN s.name_to_id /\ s.name_to_id[s.entities[i].name] = i
      BY <1>1, <2>2, <3>2 DEF Named
    <3>4. s.entities[i].name # WorldName[p]
      BY <1>4, <2>2, <3>2
    <3> QED BY <1>2, <3>2, <3>3, <3>4 DEF PlaneAdded
  <2> QED BY <2>1, <2>2 DEF Named
<1>7. Placed(t)
  <2>1. \A f \in t.frames : f[1] \in Live(t)
    BY <1>1, <1>2 DEF PlaneAdded, Placed
  <2>2. ASSUME NEW q \in Plane, t.planes[q] # 0
        PROVE  /\ t.planes[q] \in Live(t) /\ t.entities[t.planes[q]].created_by = WorldOp[q]
               /\ t.entities[t.planes[q]].kind = "FACE" /\ <<t.planes[q], "cs">> \in t.frames
    <3>1. CASE q = p
      <4>1. t.planes[p] = id
        BY <1>2, <1>3 DEF PlaneAdded
      <4> QED BY <1>2, <3>1, <4>1 DEF PlaneAdded
    <3>2. CASE q # p
      <4>1. t.planes[q] = s.planes[q]
        BY <1>2, <1>3, <3>2 DEF PlaneAdded
      <4>2. /\ s.planes[q] \in Live(s) /\ s.entities[s.planes[q]].created_by = WorldOp[q]
            /\ s.entities[s.planes[q]].kind = "FACE" /\ <<s.planes[q], "cs">> \in s.frames
        BY <1>1, <2>2, <4>1 DEF Placed
      <4> QED BY <1>2, <4>1, <4>2 DEF PlaneAdded
    <3> QED BY <3>1, <3>2
  <2> QED BY <2>1, <2>2 DEF Placed
<1>8. Planted(s, t)
  <2>1. id <= t.next_id /\ t.op_stack = s.op_stack /\ Live(s) \subseteq Live(t)
    BY <1>2, <1>3 DEF PlaneAdded
  <2>2. \A i \in Live(s) : t.entities[i] = s.entities[i]
    BY <1>2 DEF PlaneAdded
  <2>3. ASSUME NEW q \in Plane, s.planes[q] \in Live(s) PROVE t.planes[q] = s.planes[q]
    <3>1. q # p
      BY <1>3, <2>3 DEF HasPlane
    <3> QED BY <1>2, <1>3, <3>1 DEF PlaneAdded
  <2>4. ASSUME NEW i \in Live(t) \ Live(s)
        PROVE  i >= id /\ \E q \in Plane : t.planes[q] = i /\ t.entities[i].created_by = WorldOp[q]
    <3>1. i = id
      BY <1>2, <2>4 DEF PlaneAdded
    <3>2. t.planes[p] = id /\ t.entities[id].created_by = WorldOp[p]
      BY <1>2, <1>3 DEF PlaneAdded
    <3>3. id >= id
      BY <1>3
    <3> QED BY <3>1, <3>2, <3>3
  <2> QED BY <2>1, <2>2, <2>3, <2>4 DEF Planted, id
<1> QED BY <1>5, <1>6, <1>7, <1>8 DEF Sound, t

LEMMA PlantedSelf ==
  ASSUME NEW s, Sound(s)
  PROVE  Planted(s, s)
<1>1. s.next_id <= s.next_id
  BY IdFacts DEF Sound
<1> QED BY <1>1 DEF Planted

LEMMA EnsureOneSound ==
  ASSUME NEW s, Sound(s), NEW p \in Plane
  PROVE  Sound(EnsureOne(s, p)) /\ Planted(s, EnsureOne(s, p))
<1>1. CASE HasPlane(s, p)
  BY <1>1, PlantedSelf DEF EnsureOne
<1>2. CASE ~HasPlane(s, p)
  BY <1>2, AddPlaneSound DEF EnsureOne
<1> QED BY <1>1, <1>2

\* Planes made in one go after another are planes made in one go: none is displaced.
LEMMA PlantedTwice ==
  ASSUME NEW s, Sound(s), NEW t, Sound(t), NEW u, Sound(u), Planted(s, t), Planted(t, u)
  PROVE  Planted(s, u)
<1>1. s.next_id <= u.next_id
  <2> DEFINE a == s.next_id
             b == t.next_id
             c == u.next_id
  <2>1. a \in Nat /\ b \in Nat /\ c \in Nat
    BY IdFacts DEF Sound
  <2>2. a <= b /\ b <= c
    BY DEF Planted
  <2> HIDE DEF a, b, c
  <2>3. a <= c
    BY <2>1, <2>2
  <2> QED BY <2>3 DEF a, c
<1>2. u.op_stack = s.op_stack /\ Live(s) \subseteq Live(u)
  BY DEF Planted
<1>3. \A id \in Live(s) : u.entities[id] = s.entities[id]
  BY DEF Planted
<1>4. \A p \in Plane : s.planes[p] \in Live(s) => u.planes[p] = s.planes[p]
  BY DEF Planted
<1>5. ASSUME NEW id \in Live(u) \ Live(s)
      PROVE  id >= s.next_id /\ \E p \in Plane : u.planes[p] = id /\ u.entities[id].created_by = WorldOp[p]
  <2>1. CASE id \in Live(t)
    <3>1. PICK p \in Plane : t.planes[p] = id /\ t.entities[id].created_by = WorldOp[p]
      BY <1>5, <2>1 DEF Planted
    <3>2. id >= s.next_id
      BY <1>5, <2>1 DEF Planted
    <3>3. u.planes[p] = id /\ u.entities[id] = t.entities[id]
      BY <2>1, <3>1 DEF Planted
    <3> QED BY <3>1, <3>2, <3>3
  <2>2. CASE id \notin Live(t)
    <3>1. /\ id >= t.next_id
          /\ \E p \in Plane : u.planes[p] = id /\ u.entities[id].created_by = WorldOp[p]
      BY <1>5, <2>2 DEF Planted
    <3>2. id >= s.next_id
      <4> DEFINE a == s.next_id
                 b == t.next_id
      <4>1. a \in Nat /\ b \in Nat /\ id \in Nat
        BY <1>5, IdFacts DEF Sound
      <4>2. a <= b /\ id >= b
        BY <3>1 DEF Planted
      <4> HIDE DEF a, b
      <4>3. id >= a
        BY <4>1, <4>2
      <4> QED BY <4>3 DEF a
    <3> QED BY <3>1, <3>2
  <2> QED BY <2>1, <2>2
<1> QED BY <1>1, <1>2, <1>3, <1>4, <1>5 DEF Planted

LEMMA EnsurePlanesSound ==
  ASSUME NEW s, Sound(s)
  PROVE  LET t == EnsurePlanes(s)
         IN  Sound(t) /\ Grows(s, t) /\ Tagged(s, t)
<1> DEFINE a == EnsureOne(s, "xy")
           b == EnsureOne(a, "yz")
           t == EnsureOne(b, "zx")
<1> HIDE DEF a, b, t
<1>1. "xy" \in Plane /\ "yz" \in Plane /\ "zx" \in Plane
  BY DEF Plane
<1>2. Sound(a) /\ Planted(s, a)
  BY <1>1, EnsureOneSound DEF a
<1>3. Sound(b) /\ Planted(a, b)
  BY <1>1, <1>2, EnsureOneSound DEF b
<1>4. Sound(t) /\ Planted(b, t)
  BY <1>1, <1>3, EnsureOneSound DEF t
<1>5. Planted(s, t)
  <2>1. Planted(s, b)
    BY <1>2, <1>3, PlantedTwice
  <2> QED BY <1>3, <1>4, <2>1, PlantedTwice
<1>6. Grows(s, t)
  BY <1>5 DEF Planted, Grows
<1>7. Tagged(s, t)
  BY <1>5 DEF Planted, Tagged
<1>8. EnsurePlanes(s) = t
  BY DEF EnsurePlanes, a, b, t
<1> QED BY <1>4, <1>6, <1>7, <1>8

----------------------------------------------------------------------------
(* The calls.                                                              *)

Good(s, t) == Sound(t) /\ Grows(s, t) /\ Tagged(s, t)

LEMMA StackGood ==
  ASSUME NEW s, Sound(s), NEW stack \in Seq(Op)
  PROVE  Good(s, [s EXCEPT !.op_stack = stack])
<1> DEFINE t == [s EXCEPT !.op_stack = stack]
<1>1. IsSession(s) /\ s.next_id <= s.next_id
  BY IdFacts DEF Sound, Typed
<1>2. t = [next_id |-> s.next_id, entities |-> s.entities, name_to_id |-> s.name_to_id,
           frames |-> s.frames, op_stack |-> stack, planes |-> s.planes]
  BY <1>1 DEF IsSession
<1> HIDE DEF t
<1>3. /\ IsSession(t) /\ t.entities = s.entities /\ t.next_id = s.next_id
      /\ t.name_to_id = s.name_to_id /\ t.frames = s.frames /\ t.planes = s.planes
      /\ t.op_stack = stack /\ Live(t) = Live(s)
  BY <1>2 DEF IsSession, Live
<1>4. Typed(t) /\ Named(t) /\ Placed(t)
  BY <1>3 DEF Sound, Typed, Named, Placed
<1>5. Grows(s, t) /\ Tagged(s, t)
  BY <1>1, <1>3 DEF Grows, Tagged
<1> QED BY <1>4, <1>5 DEF Good, Sound, t

LEMMA ClearGood ==
  ASSUME NEW s, Sound(s)
  PROVE  Good(s, [s EXCEPT !.entities = <<>>, !.name_to_id = <<>>, !.frames = {},
                           !.op_stack = <<>>, !.planes = [p \in Plane |-> 0]])
<1> DEFINE none == [p \in Plane |-> 0]
           t == [s EXCEPT !.entities = <<>>, !.name_to_id = <<>>, !.frames = {},
                          !.op_stack = <<>>, !.planes = none]
<1>1. IsSession(s) /\ s.next_id \in Nat \ {0} /\ s.next_id <= s.next_id
  BY IdFacts DEF Sound, Typed
<1>2. none \in [Plane -> Nat] /\ \A p \in Plane : none[p] = 0
  OBVIOUS
<1> HIDE DEF none
<1>3. t = [next_id |-> s.next_id, entities |-> <<>>, name_to_id |-> <<>>,
           frames |-> {}, op_stack |-> <<>>, planes |-> none]
  <2> DEFINE nothing == <<>>
             noFrames == {}
  <2> HIDE DEF nothing, noFrames
  <2>1. t = [s EXCEPT !.entities = nothing, !.name_to_id = nothing, !.frames = noFrames,
                      !.op_stack = nothing, !.planes = none]
    BY DEF nothing, noFrames
  <2> HIDE DEF t
  <2>2. t = [next_id |-> s.next_id, entities |-> nothing, name_to_id |-> nothing,
             frames |-> noFrames, op_stack |-> nothing, planes |-> none]
    BY <1>1, <2>1 DEF IsSession
  <2> QED BY <2>2 DEF nothing, noFrames
<1> HIDE DEF t
<1>4. /\ IsSession(t) /\ t.next_id = s.next_id /\ Live(t) = {} /\ DOMAIN t.name_to_id = {}
      /\ t.frames = {} /\ t.op_stack = <<>> /\ t.planes = none
  BY <1>3 DEF IsSession, Live
<1>5. Typed(t) /\ Named(t) /\ Placed(t)
  BY <1>1, <1>2, <1>4 DEF Typed, Named, Placed
<1>6. Grows(s, t) /\ Tagged(s, t)
  BY <1>1, <1>4 DEF Grows, Tagged
<1> QED BY <1>5, <1>6 DEF Good, Sound, t, none

\* The free-floating frame: an entity is made and framed.
LEMMA FloatingGood ==
  ASSUME NEW s, Sound(s), NEW f
  PROVE  Good(s, Framed(Register(s, <<"FRAME">>, FALSE), s.next_id, f))
<1> DEFINE r == Register(s, <<"FRAME">>, FALSE)
           t == Framed(r, s.next_id, f)
<1>1. <<"FRAME">> \in Seq(Kind) /\ Len(<<"FRAME">>) = 1
  BY DEF Kind
<1>2. Sound(r) /\ Grows(s, r) /\ Tagged(s, r)
  BY <1>1, RegisterSound
<1>3. s.next_id \in Live(r)
  <2>1. Registered(s, r, 1)
    BY <1>1, RegisterFields DEF Sound, Typed
  <2> DEFINE k == s.next_id
  <2>2. k \in Nat
    BY IdFacts DEF Sound
  <2> HIDE DEF r
  <2>3. Live(r) = Live(s) \cup k .. (k + 1 - 1)
    BY <2>1 DEF Registered
  <2> HIDE DEF k
  <2>4. k \in Live(r)
    BY <2>2, <2>3
  <2> QED BY <2>4 DEF k
<1> HIDE DEF r
<1>4. /\ Sound(t) /\ t.entities = r.entities /\ t.next_id = r.next_id
      /\ t.op_stack = r.op_stack /\ t.planes = r.planes
  BY <1>2, <1>3, FramedSound
<1> HIDE DEF t
<1>5. Live(t) = Live(r)
  BY <1>4 DEF Live
<1>6. Grows(s, t) /\ Tagged(s, t)
  BY <1>2, <1>4, <1>5 DEF Grows, Tagged
<1> QED BY <1>4, <1>6 DEF Good, t, r

LEMMA FramedGood ==
  ASSUME NEW s, Sound(s), NEW id \in Live(s), NEW f
  PROVE  Good(s, Framed(s, id, f))
<1> DEFINE t == Framed(s, id, f)
<1>1. /\ Sound(t) /\ t.entities = s.entities /\ t.next_id = s.next_id
      /\ t.op_stack = s.op_stack /\ t.planes = s.planes
  BY FramedSound
<1>2. s.next_id <= s.next_id
  BY IdFacts DEF Sound
<1> HIDE DEF t
<1>3. Live(t) = Live(s)
  BY <1>1 DEF Live
<1>4. Grows(s, t) /\ Tagged(s, t)
  BY <1>1, <1>2, <1>3 DEF Grows, Tagged
<1> QED BY <1>1, <1>4 DEF Good, t

LEMMA SameGood ==
  ASSUME NEW s, Sound(s)
  PROVE  Good(s, s)
<1>1. s.next_id <= s.next_id
  BY IdFacts DEF Sound
<1> QED BY <1>1 DEF Good, Grows, Tagged

\* Every call either is refused or leaves a sound session, grown as reselection needs it.
Answered == refused' = FALSE /\ issued' = issued \cup Live(S)' /\ Good(S, S')

LEMMA DoneAnswers ==
  ASSUME NEW t, Good(S, t), Done(t)
  PROVE  Answered
BY DEF Answered, Done, Becomes, Live

LEMMA Calls ==
  ASSUME Sound(S), Next
  PROVE  Fail \/ Answered
<1>1. CASE Clear
  BY <1>1, ClearGood, DoneAnswers DEF Clear
<1>2. ASSUME NEW op \in Op \cup {<<>>}, BeginOp(op)
      PROVE  Fail \/ Answered
  <2>1. CASE op = <<>> /\ Fail
    BY <2>1
  <2>2. CASE op # <<>> /\ Done([S EXCEPT !.op_stack = Append(@, op)])
    <3> DEFINE stack == Append(S.op_stack, op)
    <3>1. stack \in Seq(Op)
      BY <1>2, <2>2 DEF Sound, Typed
    <3> HIDE DEF stack
    <3>2. Done([S EXCEPT !.op_stack = stack])
      BY <2>2 DEF stack
    <3> QED BY <3>1, <3>2, StackGood, DoneAnswers
  <2> QED BY <1>2, <2>1, <2>2 DEF BeginOp
<1>3. ASSUME NEW op \in Op \cup {<<>>}, EndOp(op)
      PROVE  Fail \/ Answered
  <2>1. CASE Fail
    BY <2>1
  <2>2. CASE S.op_stack # <<>> /\ Done([S EXCEPT !.op_stack = Popped(@)])
    <3> DEFINE stack == Popped(S.op_stack)
    <3>1. stack \in Seq(Op)
      <4>1. S.op_stack \in Seq(Op)
        BY DEF Sound, Typed
      <4> QED BY <2>2, <4>1 DEF Popped
    <3> HIDE DEF stack
    <3>2. Done([S EXCEPT !.op_stack = stack])
      BY <2>2 DEF stack
    <3> QED BY <3>1, <3>2, StackGood, DoneAnswers
  <2> QED BY <1>3, <2>1, <2>2 DEF EndOp
<1>4. ASSUME NEW shape \in Shape, RegisterShape(shape) \/ RegisterShapeRootOnly(shape)
      PROVE  Fail \/ Answered
  <2>1. CASE KindOf[shape] = "ANY"
    BY <1>4, <2>1 DEF RegisterShape, RegisterShapeRootOnly, RegisterKinds
  <2>2. CASE KindOf[shape] # "ANY"
    <3>1. KindOf[shape] \in Kind /\ Subs[shape] \in Seq(Kind)
      BY <2>2, ShapeAssumption
    <3>2. /\ <<KindOf[shape]>> \in Seq(Kind)
          /\ <<KindOf[shape]>> \o Subs[shape] \in Seq(Kind)
      BY <3>1
    <3>3. \A kinds \in Seq(Kind) : Done(Register(S, kinds, TRUE)) => Answered
      BY RegisterSound, DoneAnswers DEF Good
    <3> QED BY <1>4, <2>2, <3>2, <3>3 DEF RegisterShape, RegisterShapeRootOnly, RegisterKinds
  <2> QED BY <2>1, <2>2
<1>5. ASSUME NEW id, ReleaseEntity(id)
      PROVE  Fail \/ Answered
  BY <1>5, ReleaseSound, DoneAnswers DEF ReleaseEntity, Good
<1>6. ASSUME NEW id, NEW n \in Name \cup {""}, SetName(id, n)
      PROVE  Fail \/ Answered
  <2>1. CASE Fail
    BY <2>1
  <2>2. CASE n # "" /\ id \in Live(S) /\ Done(Bind(UnbindName(StealName(S, id, n), id), id, n))
    <3>1. n \in Label
      BY <2>2, <1>6 DEF Label
    <3> QED BY <2>2, <3>1, SetNameSound, DoneAnswers DEF Good
  <2> QED BY <1>6, <2>1, <2>2 DEF SetName
<1>7. ASSUME NEW id, NEW f, NEW valid \in BOOLEAN, AttachFrame(id, f, valid)
      PROVE  Fail \/ Answered
  BY <1>7, FloatingGood, FramedGood, DoneAnswers DEF AttachFrame
<1>8. CASE EnsureWorldPlanes
  BY <1>8, EnsurePlanesSound, DoneAnswers DEF EnsureWorldPlanes, Good
<1>9. ASSUME NEW p \in Plane, WorldPlane(p)
      PROVE  Fail \/ Answered
  BY <1>8, <1>9, SameGood, DoneAnswers DEF WorldPlane
<1> QED BY <1>1, <1>2, <1>3, <1>4, <1>5, <1>6, <1>7, <1>8, <1>9 DEF Next

----------------------------------------------------------------------------
(* The invariant, and what follows from it.                                *)

\* Sound is inductive together with this: no id that ever was an entity's is still to come.
Inv == Sound(S) /\ refused \in BOOLEAN /\ issued \subseteq 1 .. S.next_id - 1

LEMMA InitInv == ASSUME Init PROVE Inv
<1> DEFINE none == [p \in Plane |-> 0]
<1>1. none \in [Plane -> Nat] /\ \A p \in Plane : none[p] = 0
  OBVIOUS
<1> HIDE DEF none
<1>2. S = [next_id |-> 1, entities |-> <<>>, name_to_id |-> <<>>, frames |-> {},
           op_stack |-> <<>>, planes |-> none]
  BY DEF Init, none
<1>3. /\ IsSession(S) /\ S.next_id = 1 /\ Live(S) = {} /\ DOMAIN S.name_to_id = {}
      /\ S.frames = {} /\ S.op_stack = <<>> /\ S.planes = none
  BY <1>2 DEF IsSession, Live
<1>4. Typed(S) /\ Named(S) /\ Placed(S)
  BY <1>1, <1>3 DEF Typed, Named, Placed
<1>5. refused \in BOOLEAN /\ issued = {}
  BY DEF Init
<1> QED BY <1>4, <1>5 DEF Inv, Sound

LEMMA NextInv == ASSUME Inv, [Next]_vars PROVE Inv'
<1>1. CASE UNCHANGED vars
  BY <1>1 DEF Inv, vars, Sound, Typed, IsSession, Named, Placed, Live
<1>2. CASE Next
  <2>1. Sound(S)
    BY DEF Inv
  <2>2. CASE Fail
    <3>1. S' = S /\ issued' = issued /\ refused' = TRUE
      BY <2>2 DEF Fail
    <3> QED BY <3>1 DEF Inv, Sound, Typed, IsSession, Named, Placed, Live
  <2>3. CASE Answered
    <3> DEFINE a == S.next_id
               b == S'.next_id
               live == Live(S')
    <3>1. Sound(S') /\ a <= b
      BY <2>3 DEF Answered, Good, Grows
    <3>2. a \in Nat /\ b \in Nat /\ live \subseteq 1 .. b - 1
      BY <2>1, <3>1, IdFacts DEF Sound, Typed
    <3>3. issued' = issued \cup live /\ issued \subseteq 1 .. a - 1 /\ refused' = FALSE
      BY <2>3 DEF Answered, Inv, Live
    <3> HIDE DEF a, b, live
    <3>4. issued' \subseteq 1 .. b - 1
      BY <3>1, <3>2, <3>3
    <3>5. Sound(S)'
      BY <3>1 DEF Sound, Typed, IsSession, Named, Placed, Live
    <3> QED BY <3>3, <3>4, <3>5 DEF Inv, b
  <2> QED BY <1>2, <2>1, <2>2, <2>3, Calls
<1> QED BY <1>1, <1>2

THEOREM SpecInv == Spec => []Inv
BY InitInv, NextInv, PTL DEF Spec

\* The tables keep their types, and ids in use stay below the one to be handed out next.
THEOREM TypeCorrect == Spec => []TypeOK
<1>1. Inv => TypeOK
  BY DEF Inv, Sound, Typed, IsSession, TypeOK
<1> QED BY <1>1, SpecInv, PTL

\* A name that is bound is bound to a live entity that has it, and a name no world plane takes
\* is always found: set_name's stealing and unbinding, and release_entity's, leave no stale entry.
THEOREM NamesFindTheirEntity == Spec => []NamesSound
<1>1. Inv => NamesSound
  BY DEF Inv, Sound, Named, NamesSound, WorldNames
<1> QED BY <1>1, SpecInv, PTL

\* release_entity leaves no frame and no plane slot pointing at what it erased.
THEOREM ReleaseLeavesNothing == Spec => []PlacementsLive
<1>1. Inv => PlacementsLive
  BY DEF Inv, Sound, Placed, PlacementsLive
<1> QED BY <1>1, SpecInv, PTL

\* New entities carry the operation that was open, or are world planes under their own, and the
\* stack of open operations is as it was.
THEOREM TagsAreOpenOps == Spec => TagsFollowOps
<1>1. ASSUME Inv, [Next]_vars
      PROVE  [ /\ \A id \in Live(S)' \ Live(S) :
                    \/ S'.entities[id].created_by = CurrentOp(S)
                    \/ \E p \in Plane : S'.planes[p] = id /\ S'.entities[id].created_by = WorldOp[p]
               /\ Live(S)' \ Live(S) # {} => S'.op_stack = S.op_stack ]_S
  <2>1. CASE S' = S
    BY <2>1
  <2>2. CASE Next /\ ~Fail
    <3>1. Tagged(S, S')
      BY <1>1, <2>2, Calls DEF Inv, Answered, Good
    <3> QED BY <3>1 DEF Tagged, Live
  <2> QED BY <1>1, <2>1, <2>2 DEF vars, Fail
<1> QED BY <1>1, SpecInv, PTL DEF Spec, TagsFollowOps

\* A call that answers an error has left the session as it was.
THEOREM RefusalIsHarmless == Spec => RefusedChangesNothing
<1>1. ASSUME Inv, [Next]_vars
      PROVE  [refused' => S' = S]_vars
  BY <1>1, Calls DEF Inv, Answered, Fail
<1> QED BY <1>1, SpecInv, PTL DEF Spec, RefusedChangesNothing

\* A query finds again what it found and is still alive, before anything new, and no id is
\* used twice.
THEOREM QueriesReselect == Spec => ReselectStable
<1>1. ASSUME Inv, [Next]_vars
      PROVE  [ S' # S =>
               /\ \A prefix \in Prefix, kind \in Wanted :
                    LET before == Matches(S, prefix, kind)
                        after == Matches(S, prefix, kind)'
                    IN  /\ before \cap Live(S)' = after \cap Live(S)
                        /\ \A old \in before, new \in after \ before : old < new
               /\ issued \cap (Live(S)' \ Live(S)) = {} ]_S
  <2>1. CASE S' = S
    BY <2>1
  <2>2. CASE Next /\ ~Fail
    <3> DEFINE k == S.next_id
               live == Live(S)
               more == Live(S')
    <3>1. Grows(S, S') /\ Sound(S')
      BY <1>1, <2>2, Calls DEF Inv, Answered, Good
    <3>2. /\ k \in Nat /\ live \subseteq 1 .. k - 1 /\ issued \subseteq 1 .. k - 1
          /\ \A id \in more \ live : id >= k
      BY <1>1, <3>1, IdFacts DEF Inv, Sound, Typed, Grows
    <3>3. \A id \in more : id \in Nat
      BY <3>1, IdFacts DEF Sound
    <3>4. issued \cap (more \ live) = {}
      <4> HIDE DEF k, live, more
      <4> QED BY <3>2, <3>3
    <3>5. ASSUME NEW prefix \in Prefix, NEW kind \in Wanted
          PROVE  LET before == Matches(S, prefix, kind)
                     after == Matches(S, prefix, kind)'
                 IN  /\ before \cap Live(S)' = after \cap Live(S)
                     /\ \A old \in before, new \in after \ before : old < new
      <4> DEFINE before == Matches(S, prefix, kind)
                 after == Matches(S', prefix, kind)
      <4>1. before \subseteq live /\ after \subseteq more
        BY DEF Matches
      <4>2. \A id \in live \cap more : id \in before <=> id \in after
        BY <3>1 DEF Grows, Matches
      <4>3. after = Matches(S, prefix, kind)' /\ more = Live(S)'
        BY DEF Matches, Live
      <4> HIDE DEF before, after
      <4>4. before \cap more = after \cap live
        BY <4>1, <4>2
      <4>5. \A old \in before, new \in after \ before : old < new
        <5> HIDE DEF live, more, k
        <5>1. \A new \in after \ before : new \in more \ live
          BY <4>1, <4>2
        <5> QED BY <3>2, <3>3, <4>1, <5>1
      <4> QED BY <4>3, <4>4, <4>5 DEF before
    <3> QED BY <3>4, <3>5 DEF Live
  <2> QED BY <1>1, <2>1, <2>2 DEF vars, Fail
<1> QED BY <1>1, SpecInv, PTL DEF Spec, ReselectStable
=============================================================================
