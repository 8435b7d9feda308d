----------------------- MODULE DirectoryFailover_proofs -----------------------
(***************************************************************************)
(* Proofs about DirectoryFailover, for any persons, any number of          *)
(* overlapping requests and any cooldown, with and without a replica.      *)
(***************************************************************************)
EXTENDS DirectoryFailover, FiniteSetTheorems, TLAPS

Endpoints == {<<>>, <<"master">>, <<"replica">>, <<"master", "replica">>, <<"replica", "master">>}

\* What a session finds at the head of its list, and what is left when it moves on.
LEMMA EndpointLists ==
    ASSUME NEW t \in Endpoints, t # <<>>
    PROVE  /\ Head(t) \in Server /\ Tail(t) \in Endpoints
           /\ Len(t) > 1 \/ Len(t) = 1
           /\ Len(t) > 1 => Tail(t) # <<>>
           /\ Len(t) > 1 /\ Head(t) = "replica" => Tail(t) = <<"master">>
           /\ Len(t) > 1 /\ Head(t) = "master" => Tail(t) = <<"replica">>
           /\ t = <<"master">> => Head(t) = "master" /\ ~(Len(t) > 1)
           /\ t = <<"replica", "master">> => Head(t) = "replica"
           /\ t = <<"master", "replica">> => Head(t) = "master"
  <1>1. CASE t = <<"master">>
    BY <1>1 DEF Endpoints, Server
  <1>2. CASE t = <<"replica">>
    BY <1>2 DEF Endpoints, Server
  <1>3. CASE t = <<"master", "replica">>
    BY <1>3 DEF Endpoints, Server
  <1>4. CASE t = <<"replica", "master">>
    BY <1>4 DEF Endpoints, Server
  <1> QED BY <1>1, <1>2, <1>3, <1>4 DEF Endpoints

\* The end of a request keeps the types, whatever else its last step wrote.
LEMMA FinishKeeps ==
    ASSUME TypeOK, NEW w \in Worker, Finish(w), UNCHANGED reachable,
           held' \in [Server -> SUBSET Person], cooling' \in 0 .. Cooldown,
           excused' \in SUBSET Worker
    PROVE  TypeOK'
  BY DEF TypeOK, Finish, Stage, Server

\* The types hold at first, and every step keeps them.
LEMMA TypeInit == Init => TypeOK
  BY ConstantsAssumption DEF Init, TypeOK, Server, Stage

LEMMA TypeStep == TypeOK /\ [Next]_vars => TypeOK'
  <1> SUFFICES ASSUME TypeOK, [Next]_vars PROVE TypeOK'
    OBVIOUS
  <1>1. /\ todo \in [Worker -> Endpoints] /\ Cooldown \in Nat \ {0} /\ cooling \in 0 .. Cooldown
        /\ excused \in SUBSET Worker /\ held \in [Server -> SUBSET Person]
        /\ "master" \in Server /\ "replica" \in Server
    BY ConstantsAssumption DEF TypeOK, Endpoints, Server
  <1>2. ReadEndpoints \in Endpoints /\ ReadEndpoints # <<>>
    <2>1. CASE ~Replicated
      BY <2>1 DEF ReadEndpoints, Endpoints
    <2>2. CASE Replicated /\ Degraded
      BY <2>2 DEF ReadEndpoints, Endpoints
    <2>3. CASE Replicated /\ ~Degraded
      BY <2>3 DEF ReadEndpoints, Endpoints
    <2> QED BY <2>1, <2>2, <2>3
  <1>3. ClosedOn \in SUBSET Worker /\ OnReplica \in SUBSET Worker
    BY DEF ClosedOn, OnReplica
  <1>4. ASSUME NEW w \in Worker, NEW u \in Person,
               AddMember(w, u) \/ RemoveMember(w, u) \/ RemoveUnguarded(w, u)
        PROVE  TypeOK'
    BY <1>4 DEF AddMember, RemoveMember, RemoveUnguarded, Arrive, TypeOK, directory, Stage
  <1>5. ASSUME NEW w \in Worker, OpenRead(w) PROVE TypeOK'
    <2>1. /\ stage[w] = "guard" /\ todo' = [todo EXCEPT ![w] = ReadEndpoints]
          /\ UNCHANGED <<directory, cooling, stage, op, target, dialled, source, excused>>
      BY <1>5 DEF OpenRead
    <2>2. todo' \in [Worker -> Endpoints] /\ \A v \in Worker : v # w => todo'[v] = todo[v]
      BY <1>1, <1>2, <2>1
    <2>3. todo'[w] # <<>>
      BY <1>1, <1>2, <2>1
    <2> QED BY <2>1, <2>2, <2>3 DEF TypeOK, directory, Endpoints
  <1>6. ASSUME NEW w \in Worker, OpenWrite(w) PROVE TypeOK'
    <2>1. CASE Finish(w)
      BY <1>1, <1>6, <2>1, FinishKeeps DEF OpenWrite, directory
    <2>2. CASE ~Finish(w)
      <3>1. /\ stage[w] = "write" /\ todo' = [todo EXCEPT ![w] = <<"master">>]
            /\ UNCHANGED <<directory, cooling, stage, op, target, dialled, source, excused>>
        BY <1>6, <2>2 DEF OpenWrite
      <3>2. /\ todo' \in [Worker -> Endpoints] /\ todo'[w] = <<"master">>
            /\ \A v \in Worker : v # w => todo'[v] = todo[v]
        BY <1>1, <3>1 DEF Endpoints
      <3> QED BY <3>1, <3>2 DEF TypeOK, directory, Endpoints
    <2> QED BY <2>1, <2>2
  <1>7. ASSUME NEW w \in Worker, Dial(w) PROVE TypeOK'
    BY <1>7 DEF Dial, TypeOK, directory
  <1>8. ASSUME NEW w \in Worker, Redial(w) PROVE TypeOK'
    <2>1. /\ dialled[w] = "failed" /\ todo[w] \in Endpoints /\ todo[w] # <<>>
      BY <1>1, <1>8 DEF Redial, TypeOK
    <2>2. cooling' \in 0 .. Cooldown /\ excused' \in SUBSET Worker
      BY <1>1, <1>8 DEF Redial, Trip
    <2>3. CASE Finish(w)
      BY <1>1, <1>8, <2>2, <2>3, FinishKeeps DEF Redial, directory
    <2>4. CASE ~Finish(w)
      <3>1. /\ Len(todo[w]) > 1 /\ todo' = [todo EXCEPT ![w] = Tail(@)]
            /\ dialled' = [dialled EXCEPT ![w] = "no"]
            /\ UNCHANGED <<directory, stage, op, target, source>>
        BY <1>8, <2>4 DEF Redial
      <3>2. Tail(todo[w]) \in Endpoints /\ Tail(todo[w]) # <<>> /\ todo[w] # <<"master">>
        BY <2>1, <3>1, EndpointLists
      <3>3. /\ todo' \in [Worker -> Endpoints] /\ todo'[w] = Tail(todo[w])
            /\ \A v \in Worker : v # w => todo'[v] = todo[v]
        BY <1>1, <3>1, <3>2
      <3>4. stage[w] = "guard"
        BY <2>1, <3>2 DEF TypeOK, Stage
      <3> QED BY <2>2, <3>1, <3>2, <3>3, <3>4 DEF TypeOK, directory, Endpoints
    <2> QED BY <2>3, <2>4
  <1>9. ASSUME NEW w \in Worker, GuardLastAdmin(w) PROVE TypeOK'
    <2>1. /\ cooling' \in 0 .. Cooldown /\ excused' \in SUBSET Worker
          /\ Head(todo[w]) \in Server /\ UNCHANGED directory
      <3>1. todo[w] \in Endpoints /\ todo[w] # <<>>
        BY <1>1, <1>9 DEF GuardLastAdmin, TypeOK
      <3> QED BY <1>1, <1>3, <1>9, <3>1, EndpointLists DEF GuardLastAdmin
    <2>2. CASE Finish(w)
      BY <1>1, <2>1, <2>2, FinishKeeps DEF directory
    <2>3. CASE ~Finish(w)
      <3>1. /\ stage[w] = "guard"
            /\ stage' = [stage EXCEPT ![w] = "audit"] /\ todo' = [todo EXCEPT ![w] = <<>>]
            /\ dialled' = [dialled EXCEPT ![w] = "no"]
            /\ source' = [source EXCEPT ![w] = Head(todo[w])]
            /\ UNCHANGED <<op, target>>
        BY <1>9, <2>3 DEF GuardLastAdmin
      <3> QED BY <2>1, <3>1 DEF TypeOK, directory, Stage
    <2> QED BY <2>2, <2>3
  <1>10. ASSUME NEW w \in Worker, Audit(w) PROVE TypeOK'
    BY <1>10 DEF Audit, TypeOK, directory, Stage
  <1>11. ASSUME NEW w \in Worker, Modify(w) PROVE TypeOK'
    <2>1. held' \in [Server -> SUBSET Person]
      <3>1. target[w] \in Person \cup {Nobody}
        BY DEF TypeOK
      <3>2. op[w] = "grant" => target[w] \in Person
        BY <1>11 DEF TypeOK, Modify
      <3> QED BY <1>1, <1>11, <3>1, <3>2 DEF Modify
    <2>2. /\ Finish(w) /\ UNCHANGED reachable /\ cooling' \in 0 .. Cooldown
          /\ excused' \in SUBSET Worker
      BY <1>1, <1>3, <1>11 DEF Modify
    <2> QED BY <2>1, <2>2, FinishKeeps
  <1>12. ASSUME NEW w \in Worker, Fail(w) PROVE TypeOK'
    BY <1>1, <1>12, FinishKeeps DEF Fail, directory
  <1>13. CASE Tick
    <2>1. cooling' \in 0 .. Cooldown /\ excused' \in SUBSET Worker
      BY <1>1, <1>3, <1>13 DEF Tick, Degraded
    <2> QED BY <1>13, <2>1 DEF Tick, TypeOK, directory, request
  <1>14. CASE Flip
    BY <1>1, <1>14 DEF Flip, TypeOK, request
  <1>15. CASE Replicate
    <2>1. held' \in [Server -> SUBSET Person]
      BY <1>1, <1>15 DEF Replicate
    <2> QED BY <1>15, <2>1 DEF Replicate, TypeOK, request
  <1>16. CASE UNCHANGED vars
    BY <1>16 DEF vars, directory, request, TypeOK
  <1> QED
    BY <1>4, <1>5, <1>6, <1>7, <1>8, <1>9, <1>10, <1>11, <1>12, <1>13, <1>14, <1>15, <1>16 DEF Next
\* Every reachable state is typed, and a request that acts has a target.
THEOREM TypeCorrect == Spec => []TypeOK
  BY TypeInit, TypeStep, PTL DEF Spec

-----------------------------------------------------------------------------
\* Only a service with a replica ever lists it or hears from it.
Routed(w) ==
    todo[w] \notin {<<>>, <<"master">>} \/ source[w] = "replica" => Replicated

\* What a removal that nothing has excused may rely on: what the master counted still
\* stands, and what the replica counted is followed by a write only if the breaker
\* closes, which would excuse it.
Guarded(w) ==
    op[w] = "revoke" /\ w \notin excused =>
        /\ stage[w] \in {"audit", "write"} /\ source[w] = "master"
           => \A u \in Person : held["master"] \ {u} # {}
        /\ stage[w] \in {"audit", "write"} /\ source[w] = "replica" /\ todo[w] = <<>>
           => Degraded
        /\ stage[w] = "guard" /\ todo[w] # <<>> /\ Head(todo[w]) = "replica" => Degraded
        /\ stage[w] = "write" /\ todo[w] # <<>> => source[w] = "master"

LagInv == \A w \in Worker : Routed(w) /\ Guarded(w)

\* Who counted more than one member leaves somebody behind.
LEMMA MoreThanOne ==
    ASSUME NEW S \in SUBSET Person, Cardinality(S) > 1
    PROVE  \A u \in Person : S \ {u} # {}
  <1> SUFFICES ASSUME NEW u \in Person, S \ {u} = {} PROVE FALSE
    OBVIOUS
  <1>1. S = {} \/ S = {u}
    OBVIOUS
  <1>2. Cardinality({}) = 0 /\ Cardinality({u}) = 1
    BY FS_EmptySet, FS_Singleton
  <1> QED BY <1>1, <1>2

\* A request that another one's step leaves where it is stays guarded, if what it
\* counted is still there and the breaker does not close on it unexcused.
LEMMA Bystander ==
    ASSUME LagInv, NEW v \in Worker,
           stage'[v] = stage[v], op'[v] = op[v], todo'[v] = todo[v], source'[v] = source[v],
           v \notin excused' => v \notin excused,
           \/ v \in excused' \/ stage[v] \notin {"audit", "write"}
           \/ held["master"] \subseteq held'["master"],
           Degraded' \/ ~Degraded \/ v \notin OnReplica \/ v \in excused'
    PROVE  Routed(v)' /\ Guarded(v)'
  <1>1. Routed(v)'
    BY DEF LagInv, Routed
  <1>2. ASSUME op[v] = "revoke", v \notin excused' PROVE Guarded(v)'
    <2>1. Guarded(v) /\ v \notin excused
      BY <1>2 DEF LagInv
    <2>2. stage[v] \in {"audit", "write"} => held["master"] \subseteq held'["master"]
      BY <1>2
    <2>3. v \in OnReplica /\ Degraded => Degraded'
      BY <1>2
    <2> QED BY <1>2, <2>1, <2>2, <2>3 DEF Guarded, OnReplica
  <1> QED BY <1>1, <1>2 DEF Guarded

\* A request that ends is nobody's concern, and the others stay where they are.
LEMMA Ended ==
    ASSUME TypeOK, NEW w \in Worker, Finish(w)
    PROVE  /\ Routed(w)' /\ Guarded(w)'
           /\ \A v \in Worker \ {w} : /\ stage'[v] = stage[v] /\ op'[v] = op[v]
                                      /\ todo'[v] = todo[v] /\ source'[v] = source[v]
  <1>1. /\ op'[w] = "none" /\ todo'[w] = <<>> /\ source'[w] = "master"
        /\ \A v \in Worker \ {w} : /\ stage'[v] = stage[v] /\ op'[v] = op[v]
                                   /\ todo'[v] = todo[v] /\ source'[v] = source[v]
    BY DEF Finish, TypeOK
  <1> QED BY <1>1 DEF Routed, Guarded

\* No request is under way at first.
LEMMA LagInit == Init => LagInv
  BY DEF Init, LagInv, Routed, Guarded

\* For each step: the request it belongs to, then all others as bystanders.
LEMMA LagStep == TypeOK /\ LagInv /\ [Next]_vars => LagInv'
  <1> SUFFICES ASSUME TypeOK, LagInv, [Next]_vars PROVE LagInv'
    OBVIOUS
  <1> USE DEF directory, request
  <1>1. /\ todo \in [Worker -> Endpoints] /\ Cooldown \in Nat \ {0} /\ cooling \in 0 .. Cooldown
        /\ held \in [Server -> SUBSET Person] /\ "master" \in Server /\ "replica" \in Server
        /\ stage \in [Worker -> Stage] /\ op \in [Worker -> {"none", "grant", "revoke", "unguarded"}]
        /\ source \in [Worker -> Server] /\ excused \in SUBSET Worker
    BY ConstantsAssumption DEF TypeOK, Endpoints, Server
  <1>2. \A w \in Worker : Routed(w) /\ Guarded(w)
    BY DEF LagInv
  <1>3. ASSUME NEW w \in Worker, NEW u \in Person,
               AddMember(w, u) \/ RemoveMember(w, u) \/ RemoveUnguarded(w, u)
        PROVE  LagInv'
    <2>1. /\ \/ stage'[w] = "guard" /\ todo'[w] = <<>>
             \/ op'[w] = "unguarded"
          /\ \A v \in Worker \ {w} : stage'[v] = stage[v] /\ op'[v] = op[v]
          /\ todo' = todo /\ source' = source /\ held' = held /\ cooling' = cooling
          /\ excused' = excused \ {w}
      BY <1>1, <1>3 DEF AddMember, RemoveMember, RemoveUnguarded, Arrive, TypeOK
    <2>2. Routed(w)' /\ Guarded(w)'
      BY <1>2, <2>1 DEF Routed, Guarded
    <2>3. ASSUME NEW v \in Worker \ {w} PROVE Routed(v)' /\ Guarded(v)'
      BY <2>1, Bystander DEF Degraded
    <2> QED BY <2>2, <2>3 DEF LagInv
  <1>4. ASSUME NEW w \in Worker, OpenRead(w) PROVE LagInv'
    <2>1. /\ stage[w] = "guard" /\ todo'[w] = ReadEndpoints
          /\ \A v \in Worker \ {w} : todo'[v] = todo[v]
          /\ stage' = stage /\ op' = op /\ source' = source /\ held' = held
          /\ cooling' = cooling /\ excused' = excused
      BY <1>1, <1>4 DEF OpenRead
    <2>2. /\ ReadEndpoints \notin {<<>>, <<"master">>} => Replicated
          /\ Head(ReadEndpoints) = "replica" => Degraded
      BY DEF ReadEndpoints
    <2>3. Routed(w)' /\ Guarded(w)'
      BY <1>2, <2>1, <2>2 DEF Routed, Guarded, Degraded
    <2>4. ASSUME NEW v \in Worker \ {w} PROVE Routed(v)' /\ Guarded(v)'
      BY <2>1, Bystander DEF Degraded
    <2> QED BY <2>3, <2>4 DEF LagInv
  <1>5. ASSUME NEW w \in Worker, OpenWrite(w) PROVE LagInv'
    <2>1. held' = held /\ cooling' = cooling /\ excused' = excused
      BY <1>5 DEF OpenWrite
    <2>2. CASE Finish(w)
      <3>1. ASSUME NEW v \in Worker \ {w} PROVE Routed(v)' /\ Guarded(v)'
        BY <2>1, <2>2, Ended, Bystander DEF Degraded
      <3> QED BY <2>2, <3>1, Ended DEF LagInv
    <2>3. CASE ~Finish(w)
      <3>1. /\ stage[w] = "write" /\ todo[w] = <<>> /\ ~(Replicated /\ Degraded)
            /\ todo'[w] = <<"master">> /\ \A v \in Worker \ {w} : todo'[v] = todo[v]
            /\ stage' = stage /\ op' = op /\ source' = source
        BY <1>1, <1>5, <2>3 DEF OpenWrite
      <3>2. op[w] = "revoke" /\ w \notin excused => source[w] = "master"
        BY <1>1, <1>2, <3>1 DEF Routed, Guarded, Server
      <3>3. Routed(w)' /\ Guarded(w)'
        BY <1>2, <2>1, <3>1, <3>2 DEF Routed, Guarded
      <3>4. ASSUME NEW v \in Worker \ {w} PROVE Routed(v)' /\ Guarded(v)'
        BY <2>1, <3>1, Bystander DEF Degraded
      <3> QED BY <3>3, <3>4 DEF LagInv
    <2> QED BY <2>2, <2>3
  <1>6. ASSUME NEW w \in Worker, Dial(w) PROVE LagInv'
    BY <1>2, <1>6 DEF Dial, LagInv, Routed, Guarded, Degraded
  <1>7. ASSUME NEW w \in Worker, Redial(w) PROVE LagInv'
    <2>1. todo[w] \in Endpoints /\ todo[w] # <<>> /\ held' = held
      BY <1>1, <1>7 DEF Redial, TypeOK
    <2>2. /\ Degraded => Degraded'
          /\ \A v \in Worker \ {w} : v \notin excused' => v \notin excused
          /\ Head(todo[w]) = "master" => Degraded'
      BY <1>1, <1>7 DEF Redial, Trip, Degraded
    <2>3. CASE Finish(w)
      <3>1. ASSUME NEW v \in Worker \ {w} PROVE Routed(v)' /\ Guarded(v)'
        BY <2>1, <2>2, <2>3, Ended, Bystander
      <3> QED BY <2>3, <3>1, Ended DEF LagInv
    <2>4. CASE ~Finish(w)
      <3>1. /\ Len(todo[w]) > 1 /\ todo'[w] = Tail(todo[w])
            /\ \A v \in Worker \ {w} : todo'[v] = todo[v]
            /\ stage' = stage /\ op' = op /\ source' = source
        BY <1>1, <1>7, <2>4 DEF Redial
      <3>2. /\ todo[w] \notin {<<>>, <<"master">>} /\ Head(todo[w]) \in Server
            /\ Head(todo[w]) = "replica" => Tail(todo[w]) = <<"master">>
            /\ Head(todo[w]) = "master" => Tail(todo[w]) = <<"replica">>
        BY <2>1, <3>1, EndpointLists
      <3>3. stage[w] = "guard" /\ Replicated
        BY <1>1, <1>2, <3>2 DEF TypeOK, Stage, Routed
      <3>4. Head(todo'[w]) = "replica" => Degraded'
        <4>1. CASE Head(todo[w]) = "master"
          BY <2>2, <4>1
        <4>2. CASE Head(todo[w]) = "replica"
          <5>1. todo'[w] = <<"master">>
            BY <3>1, <3>2, <4>2
          <5> QED BY <5>1
        <4> QED BY <3>2, <4>1, <4>2 DEF Server
      <3>5. Routed(w)' /\ Guarded(w)'
        BY <3>1, <3>3, <3>4 DEF Routed, Guarded
      <3>6. ASSUME NEW v \in Worker \ {w} PROVE Routed(v)' /\ Guarded(v)'
        BY <2>1, <2>2, <3>1, Bystander
      <3> QED BY <3>5, <3>6 DEF LagInv
    <2> QED BY <2>3, <2>4
  <1>8. ASSUME NEW w \in Worker, GuardLastAdmin(w) PROVE LagInv'
    <2>1. /\ stage[w] = "guard" /\ todo[w] \in Endpoints /\ todo[w] # <<>>
          /\ Head(todo[w]) \in Server /\ held' = held
      BY <1>1, <1>8, EndpointLists DEF GuardLastAdmin, TypeOK
    <2>2. ASSUME NEW v \in Worker \ {w}
          PROVE  /\ v \notin excused' => v \notin excused
                 /\ Degraded' \/ ~Degraded \/ v \notin OnReplica \/ v \in excused'
      BY <1>8 DEF GuardLastAdmin, ClosedOn, Degraded
    <2>3. CASE Finish(w)
      <3>1. ASSUME NEW v \in Worker \ {w} PROVE Routed(v)' /\ Guarded(v)'
        BY <2>1, <2>2, <2>3, Ended, Bystander
      <3> QED BY <2>3, <3>1, Ended DEF LagInv
    <2>4. CASE ~Finish(w)
      <3>1. /\ stage'[w] = "audit" /\ todo'[w] = <<>> /\ source'[w] = Head(todo[w])
            /\ \A v \in Worker \ {w} : /\ stage'[v] = stage[v] /\ todo'[v] = todo[v]
                                       /\ source'[v] = source[v]
            /\ op' = op
            /\ op[w] = "revoke" => Cardinality(held[Head(todo[w])]) > 1
        BY <1>1, <1>8, <2>4 DEF GuardLastAdmin
      <3>2. Routed(w)'
        BY <1>2, <2>1, <3>1 DEF Routed
      <3>3. Guarded(w)'
        <4>1. CASE Head(todo[w]) = "master"
          <5>1. op[w] = "revoke" => \A u \in Person : held["master"] \ {u} # {}
            BY <1>1, <3>1, <4>1, MoreThanOne
          <5> QED BY <2>1, <3>1, <4>1, <5>1 DEF Guarded
        <4>2. CASE Head(todo[w]) = "replica"
          <5>1. cooling' = cooling /\ excused' = excused
            BY <1>8, <4>2 DEF GuardLastAdmin
          <5>2. op[w] = "revoke" /\ w \notin excused => Degraded
            BY <1>2, <2>1, <4>2 DEF Guarded
          <5> QED BY <3>1, <4>2, <5>1, <5>2 DEF Guarded, Degraded
        <4> QED BY <2>1, <4>1, <4>2 DEF Server
      <3>4. ASSUME NEW v \in Worker \ {w} PROVE Routed(v)' /\ Guarded(v)'
        BY <2>1, <2>2, <3>1, Bystander
      <3> QED BY <3>2, <3>3, <3>4 DEF LagInv
    <2> QED BY <2>3, <2>4
  <1>9. ASSUME NEW w \in Worker, Audit(w) PROVE LagInv'
    <2>1. /\ stage[w] = "audit" /\ todo[w] = <<>> /\ stage'[w] = "write"
          /\ \A v \in Worker \ {w} : stage'[v] = stage[v]
          /\ op' = op /\ todo' = todo /\ source' = source /\ held' = held
          /\ cooling' = cooling /\ excused' = excused
      BY <1>1, <1>9 DEF Audit, TypeOK
    <2>2. Routed(w)' /\ Guarded(w)'
      BY <1>2, <2>1 DEF Routed, Guarded, Degraded
    <2>3. ASSUME NEW v \in Worker \ {w} PROVE Routed(v)' /\ Guarded(v)'
      BY <2>1, Bystander DEF Degraded
    <2> QED BY <2>2, <2>3 DEF LagInv
  <1>10. ASSUME NEW w \in Worker, Modify(w) PROVE LagInv'
    <2>1. Finish(w)
      BY <1>10 DEF Modify
    <2>2. ASSUME NEW v \in Worker \ {w}
          PROVE  /\ v \notin excused' => v \notin excused
                 /\ Degraded' \/ ~Degraded \/ v \notin OnReplica \/ v \in excused'
                 /\ \/ v \in excused' \/ stage[v] \notin {"audit", "write"}
                    \/ held["master"] \subseteq held'["master"]
      BY <1>1, <1>10 DEF Modify, ClosedOn
    <2>3. ASSUME NEW v \in Worker \ {w} PROVE Routed(v)' /\ Guarded(v)'
      BY <2>1, <2>2, Ended, Bystander
    <2> QED BY <2>1, <2>3, Ended DEF LagInv
  <1>11. ASSUME NEW w \in Worker, Fail(w) PROVE LagInv'
    <2>1. Finish(w) /\ held' = held /\ cooling' = cooling /\ excused' = excused
      BY <1>11 DEF Fail
    <2>2. ASSUME NEW v \in Worker \ {w} PROVE Routed(v)' /\ Guarded(v)'
      BY <2>1, Ended, Bystander DEF Degraded
    <2> QED BY <2>1, <2>2, Ended DEF LagInv
  <1>12. CASE Tick
    <2>1. ASSUME NEW v \in Worker
          PROVE  /\ v \notin excused' => v \notin excused
                 /\ Degraded' \/ v \notin OnReplica \/ v \in excused'
      BY <1>1, <1>12 DEF Tick, Degraded
    <2>2. ASSUME NEW v \in Worker PROVE Routed(v)' /\ Guarded(v)'
      BY <1>12, <2>1, Bystander DEF Tick
    <2> QED BY <2>2 DEF LagInv
  <1>13. CASE Flip
    BY <1>2, <1>13 DEF Flip, LagInv, Routed, Guarded, Degraded
  <1>14. CASE Replicate
    <2>1. held'["master"] = held["master"]
      BY <1>1, <1>14 DEF Replicate
    <2> QED BY <1>2, <1>14, <2>1 DEF Replicate, LagInv, Routed, Guarded, Degraded
  <1>15. CASE UNCHANGED vars
    BY <1>2, <1>15 DEF vars, LagInv, Routed, Guarded, Degraded
  <1> QED
    BY <1>3, <1>4, <1>5, <1>6, <1>7, <1>8, <1>9, <1>10, <1>11, <1>12, <1>13, <1>14, <1>15
    DEF Next

\* A removal over a master's connection leaves nobody only if its guard was excused, or
\* it met none.
LEMMA LastAdminStep == TypeOK /\ LagInv /\ [Next]_vars => LastAdminLost
  <1> SUFFICES ASSUME TypeOK, LagInv, [Next]_vars,
                      held["master"] # {}, held'["master"] = {}
               PROVE  \E w \in Worker :
                        /\ stage[w] = "write" /\ stage'[w] = "idle"
                        /\ op[w] = "unguarded" \/ (op[w] = "revoke" /\ w \in excused)
    BY DEF LastAdminLost
  <1>1. held \in [Server -> SUBSET Person] /\ "master" \in Server /\ "replica" \in Server
    BY DEF TypeOK, Server
  <1>2. held' # held
    OBVIOUS
  <1>3. PICK w \in Worker : Modify(w)
    <2>1. ~Replicate
      BY <1>1 DEF Replicate
    <2> QED
      BY <1>2, <2>1 DEF Next, vars, directory, AddMember, RemoveMember, RemoveUnguarded,
         Arrive, OpenRead, OpenWrite, Dial, Redial, GuardLastAdmin, Audit, Fail, Tick, Flip
  <1>4. /\ op[w] \in {"revoke", "unguarded"} /\ held'["master"] = held["master"] \ {target[w]}
        /\ stage[w] = "write" /\ dialled[w] = "ok" /\ stage'[w] = "idle"
    BY <1>1, <1>2, <1>3 DEF Modify, Finish, TypeOK
  <1>5. target[w] \in Person /\ todo[w] # <<>>
    BY <1>4 DEF TypeOK
  <1>6. op[w] = "revoke" => w \in excused
    BY <1>4, <1>5 DEF LagInv, Guarded
  <1> QED BY <1>4, <1>6

\* The tenant loses its last administrator only to a removal that a lagging replica
\* guarded across the closing of the breaker, that another one overlapped, or that
\* spelled the role otherwise and was never guarded.
THEOREM LastAdmin == Spec => LastAdminLostOnlyByLag
  <1>1. Init => TypeOK /\ LagInv
    BY TypeInit, LagInit
  <1>2. TypeOK /\ LagInv /\ [Next]_vars => TypeOK' /\ LagInv'
    BY TypeStep, LagStep
  <1>3. TypeOK /\ LagInv /\ [Next]_vars => LastAdminLost
    BY LastAdminStep
  <1> QED BY <1>1, <1>2, <1>3, PTL DEF Spec, LastAdminLostOnlyByLag

-----------------------------------------------------------------------------
\* Every removal is guarded, and no two are past the guard at a time; the way to the
\* guard, grants and outages come as they like.
Removing(w) == op[w] = "revoke" /\ stage[w] \in {"audit", "write"}
RemovalsApart ==
    /\ \A w \in Worker : op[w] # "unguarded"
    /\ \A v, w \in Worker : Removing(v) /\ Removing(w) => v = w

\* Nothing but the replica's word excuses a removal then.
Misled(w) ==
    w \in excused /\ op[w] = "revoke" /\ stage[w] \in {"audit", "write"}
        => source[w] = "replica"
MisledInv == \A w \in Worker : Misled(w)

\* A request that goes on as it was is excused only as one that the breaker closed on.
LEMMA StillMisled ==
    ASSUME MisledInv, NEW v \in Worker,
           stage'[v] = stage[v], op'[v] = op[v], source'[v] = source[v],
           v \in excused' => v \in excused \cup OnReplica \/ op[v] # "revoke"
    PROVE  Misled(v)'
  BY DEF MisledInv, Misled, OnReplica

LEMMA MisledStep == TypeOK /\ RemovalsApart /\ MisledInv /\ [Next]_vars => MisledInv'
  <1> SUFFICES ASSUME TypeOK, RemovalsApart, MisledInv, [Next]_vars PROVE MisledInv'
    OBVIOUS
  <1> USE DEF directory, request
  <1>1. /\ stage \in [Worker -> Stage] /\ op \in [Worker -> {"none", "grant", "revoke", "unguarded"}]
        /\ source \in [Worker -> Server] /\ todo \in [Worker -> Endpoints]
    BY DEF TypeOK, Endpoints
  <1>2. ASSUME NEW w \in Worker, Finish(w) PROVE Misled(w)'
    BY <1>1, <1>2 DEF Finish, Misled
  <1>3. ASSUME NEW w \in Worker, NEW v \in Worker \ {w}, Finish(w)
        PROVE  stage'[v] = stage[v] /\ op'[v] = op[v] /\ source'[v] = source[v]
    BY <1>1, <1>3 DEF Finish
  <1>4. ASSUME NEW w \in Worker, Finish(w), excused' \subseteq excused PROVE MisledInv'
    BY <1>2, <1>3, <1>4, StillMisled DEF MisledInv
  <1>5. ASSUME NEW w \in Worker, NEW u \in Person,
               AddMember(w, u) \/ RemoveMember(w, u) \/ RemoveUnguarded(w, u)
        PROVE  MisledInv'
    BY <1>1, <1>5 DEF AddMember, RemoveMember, RemoveUnguarded, Arrive, MisledInv, Misled
  <1>6. ASSUME NEW w \in Worker, OpenRead(w) \/ Dial(w) PROVE MisledInv'
    BY <1>6 DEF OpenRead, Dial, MisledInv, Misled
  <1>7. ASSUME NEW w \in Worker, OpenWrite(w) \/ Fail(w) PROVE MisledInv'
    BY <1>4, <1>7 DEF OpenWrite, Fail, MisledInv, Misled
  <1>8. ASSUME NEW w \in Worker, Redial(w) PROVE MisledInv'
    <2>1. excused' \subseteq excused
      BY <1>8 DEF Redial, Trip
    <2>2. Finish(w) \/ UNCHANGED <<stage, op, source>>
      BY <1>8 DEF Redial
    <2> QED BY <1>4, <2>1, <2>2, StillMisled DEF MisledInv
  <1>9. ASSUME NEW w \in Worker, GuardLastAdmin(w) PROVE MisledInv'
    <2>1. /\ excused' \subseteq excused \cup OnReplica
          /\ Head(todo[w]) = "master" => w \notin excused'
          /\ Head(todo[w]) \in Server
      BY <1>9 DEF GuardLastAdmin, ClosedOn, Server
    <2>2. CASE Finish(w)
      <3>1. ASSUME NEW v \in Worker \ {w} PROVE Misled(v)'
        BY <1>3, <2>1, <2>2, StillMisled
      <3> QED BY <1>2, <2>2, <3>1 DEF MisledInv
    <2>3. CASE ~Finish(w)
      <3>1. /\ source'[w] = Head(todo[w]) /\ op' = op
            /\ \A v \in Worker \ {w} : stage'[v] = stage[v] /\ source'[v] = source[v]
        BY <1>1, <1>9, <2>3 DEF GuardLastAdmin
      <3>2. Misled(w)'
        BY <2>1, <3>1 DEF Misled, Server
      <3>3. ASSUME NEW v \in Worker \ {w} PROVE Misled(v)'
        BY <2>1, <3>1, StillMisled
      <3> QED BY <3>2, <3>3 DEF MisledInv
    <2> QED BY <2>2, <2>3
  <1>10. ASSUME NEW w \in Worker, Audit(w) PROVE MisledInv'
    BY <1>1, <1>10 DEF Audit, MisledInv, Misled
  <1>11. ASSUME NEW w \in Worker, Modify(w) PROVE MisledInv'
    <2>1. Finish(w)
      BY <1>11 DEF Modify
    <2>2. ASSUME NEW v \in Worker \ {w}, v \in excused'
          PROVE  v \in excused \cup OnReplica \/ op[v] # "revoke"
      <3>0. op[w] # "unguarded" /\ stage[w] = "write"
        BY <1>11 DEF RemovalsApart, Modify
      <3>1. CASE op[w] = "revoke"
        BY <1>11, <2>2, <3>1 DEF Modify, ClosedOn, RemovalsApart, Removing
      <3>2. CASE op[w] # "revoke"
        BY <1>11, <2>2, <3>0, <3>2 DEF Modify, ClosedOn
      <3> QED BY <3>1, <3>2
    <2>3. ASSUME NEW v \in Worker \ {w} PROVE Misled(v)'
      BY <1>3, <2>1, <2>2, StillMisled
    <2> QED BY <1>2, <2>1, <2>3 DEF MisledInv
  <1>12. CASE Tick
    <2>1. excused' \subseteq excused \cup OnReplica /\ UNCHANGED <<stage, op, source>>
      BY <1>12 DEF Tick
    <2> QED BY <2>1, StillMisled DEF MisledInv
  <1>13. CASE Flip \/ Replicate \/ UNCHANGED vars
    BY <1>13 DEF Flip, Replicate, vars, MisledInv, Misled
  <1> QED
    BY <1>5, <1>6, <1>7, <1>8, <1>9, <1>10, <1>11, <1>12, <1>13 DEF Next

\* Without another removal, and without one that skips the guard, a tenant loses its last administrator on the replica's
\* word alone: the master's count still stands when its removal is written.
LostOnReplicasWord ==
    held["master"] # {} /\ held'["master"] = {}
    => \E w \in Worker : /\ stage[w] = "write" /\ op[w] = "revoke" /\ source[w] = "replica"
                         /\ stage'[w] = "idle"

LEMMA LostStep ==
    TypeOK /\ LagInv /\ RemovalsApart /\ MisledInv /\ [Next]_vars => LostOnReplicasWord
  BY LastAdminStep DEF LastAdminLost, LostOnReplicasWord, RemovalsApart, MisledInv, Misled

THEOREM LostByReplica == Spec /\ []RemovalsApart => [][LostOnReplicasWord]_vars
  <1>1. Init => MisledInv
    BY DEF Init, MisledInv, Misled
  <1>2. TypeOK /\ LagInv /\ RemovalsApart /\ MisledInv /\ [Next]_vars => [LostOnReplicasWord]_vars
    BY LostStep
  <1> QED
    BY <1>1, <1>2, TypeInit, TypeStep, LagInit, LagStep, MisledStep, PTL DEF Spec

\* SPECIFICATION.md lines 130-131, "the last administrator cannot be removed", holds as
\* it stands where no replica is configured, every removal spells the role as the code
\* does, and no two are past the guard at a time, whatever outages and grants come between a removal's count and its write.
AdminRemains == held["master"] # {}

THEOREM AdminRemainsAlone ==
    ASSUME ~Replicated
    PROVE  Spec /\ []RemovalsApart => []AdminRemains
  <1>1. Init => MisledInv /\ AdminRemains
    BY DEF Init, MisledInv, Misled, AdminRemains, Server
  <1>2. TypeOK /\ LagInv /\ RemovalsApart /\ MisledInv /\ AdminRemains /\ [Next]_vars => AdminRemains'
    BY LostStep DEF LostOnReplicasWord, LagInv, Routed, AdminRemains
  <1> QED
    BY <1>1, <1>2, TypeInit, TypeStep, LagInit, LagStep, MisledStep, PTL DEF Spec
=============================================================================
