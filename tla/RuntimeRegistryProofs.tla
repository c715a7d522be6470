------------------------ MODULE RuntimeRegistryProofs ------------------------
(***************************************************************************)
(* Theorems about RuntimeRegistry, for any number of requests, workspaces, *)
(* runtimes and LightRAG instances: its state is well typed, a workspace   *)
(* has one runtime, a runtime in use is ready, and a shutdown that         *)
(* completes leaves open only what it cannot reach.                        *)
(***************************************************************************)
EXTENDS RuntimeRegistry, TLAPS

USE RegistryAssumption

(* The registry knows every runtime until the shutdown clears it. *)
Registered ==
    /\ OneRuntimePerWorkspace
    /\ \A w \in Workspaces : registry[w] # None => runtime[registry[w]].workspace = w
    /\ shutdown.step = "running" => \A x \in Runtimes :
          runtime[x].workspace # None => registry[runtime[x].workspace] = x

(* The instances a runtime holds were built for it. *)
BuiltForHolder ==
    /\ \A x \in Runtimes, i \in Instances :
          i \in {runtime[x].lightrag, runtime[x].anything} => built[i] = x
    /\ \A i \in Instances : built[i] # None => runtime[built[i]].workspace # None
    /\ \A i \in opened \cup abandoned : built[i] # None

(* Where a request stands, and the shutdown. *)
Stands ==
    /\ \A u \in Users :
        LET x == Mine(u) IN
        /\ Busy(u) => x \in Runtimes /\ runtime[x].workspace # None /\ shutdown.step = "running"
        /\ user[u].step \in {"opening", "attaching"} =>
              ~runtime[x].initialized /\ runtime[x].lightrag \in Instances \ abandoned
        /\ At(u, "attaching") => runtime[x].anything = runtime[x].lightrag
                                 /\ runtime[x].lightrag \in opened
        /\ At(u, "using") => runtime[x].initialized
    /\ shutdown.step = "finalizing" => shutdown.at \in Runtimes
    /\ shutdown.step = "done" => shutdown.left = {}

(* What an initialization that succeeded has built, and what others left.  *)
Outcome ==
    \A x \in Runtimes :
        LET r == runtime[x] IN
        /\ r.initialized => r.lightrag = r.anything /\ r.lightrag \in opened \ abandoned
        /\ ~r.initialized /\ r.lock = None /\ r.lightrag # None => r.lightrag \in abandoned
        /\ r.anything # None => r.lightrag # None /\ r.anything \in {r.lightrag} \cup abandoned

(* An open instance is held by a runtime the shutdown will come to, or it  *)
(* was given up for another one.                                           *)
Replaced(i) == i \in abandoned /\ \E j \in Instances \ {i} : built[j] = built[i]

InReach(x) == \/ shutdown.step = "running" \/ x \in shutdown.left
              \/ shutdown.step = "finalizing" /\ shutdown.at = x

Accounted ==
    shutdown.step # "error" => \A i \in opened :
        \/ Replaced(i)
        \/ InReach(built[i]) /\ i \in {runtime[built[i]].lightrag, runtime[built[i]].anything}

IInv == TypeOK /\ Registered /\ BuiltForHolder /\ Stands /\ Outcome /\ Accounted

LEMMA InitInv == Init => IInv
<1> SUFFICES ASSUME Init PROVE IInv
  OBVIOUS
<1> USE DEF Init
<1>1. TypeOK
  BY DEF TypeOK, RuntimeStates, UserStates, ShutdownStates, Handles, Mine
<1>2. Registered  BY DEF Registered, OneRuntimePerWorkspace
<1>3. BuiltForHolder  BY DEF BuiltForHolder
<1>4. Stands  BY DEF Stands, Mine, At, Busy
<1>5. Outcome  BY DEF Outcome
<1>6. Accounted  BY DEF Accounted
<1> QED  BY <1>1, <1>2, <1>3, <1>4, <1>5, <1>6 DEF IInv

LEMMA GetInv ==
    ASSUME IInv, NEW u \in Users, NEW w \in Workspaces, Get(u, w)
    PROVE  IInv'
<1>1. PICK x \in Runtimes :
         /\ \/ registry[w] = x /\ UNCHANGED <<runtime, registry>>
            \/ /\ registry[w] = None /\ runtime[x].workspace = None
               /\ runtime' = [runtime EXCEPT ![x].workspace = w]
               /\ registry' = [registry EXCEPT ![w] = x]
         /\ user' = [user EXCEPT ![u] = [step |-> "initialize", calls |-> 0, runtime |-> x]]
  BY DEF Get
<1>2. /\ user[u].step = "new" /\ shutdown.step = "running"
      /\ UNCHANGED <<opened, built, shutdown, abandoned>>
  BY DEF Get, At
<1>3. /\ user'[u].step = "initialize" /\ user'[u].runtime = x /\ user'[u].calls = 0
      /\ \A v \in Users \ {u} : user'[v] = user[v]
  BY <1>1 DEF IInv, TypeOK, UserStates
<1>4. /\ \A y \in Runtimes : /\ runtime'[y].lightrag = runtime[y].lightrag
                            /\ runtime'[y].anything = runtime[y].anything
                            /\ runtime'[y].initialized = runtime[y].initialized
                            /\ runtime'[y].lock = runtime[y].lock
      /\ \A y \in Runtimes \ {x} : runtime'[y].workspace = runtime[y].workspace
      /\ runtime'[x].workspace = w /\ registry'[w] = x
      /\ \A v \in Workspaces \ {w} : registry'[v] = registry[v]
  <2>1. CASE registry[w] = x /\ UNCHANGED <<runtime, registry>>
    <3>1. runtime[x].workspace = w  BY <2>1 DEF IInv, Registered
    <3> QED  BY <2>1, <3>1
  <2>2. CASE registry[w] # x \/ ~UNCHANGED <<runtime, registry>>
    BY <1>1, <2>2 DEF IInv, TypeOK, RuntimeStates
  <2> QED  BY <2>1, <2>2
<1>5. /\ registry' \in [Workspaces -> Runtimes \cup {None}]
      /\ runtime' \in [Runtimes -> RuntimeStates]
      /\ user' \in [Users -> UserStates]
  <2>1. runtime' \in [Runtimes -> RuntimeStates]
    BY <1>1 DEF IInv, TypeOK, RuntimeStates
  <2>2. registry' \in [Workspaces -> Runtimes \cup {None}]
    BY <1>1 DEF IInv, TypeOK
  <2>3. [step |-> "initialize", calls |-> 0, runtime |-> x] \in UserStates
    BY DEF UserStates
  <2> QED  BY <1>1, <2>1, <2>2, <2>3 DEF IInv, TypeOK
<1>6. TypeOK'
  <2>1. \A y \in Runtimes, v \in Users :
           runtime'[y].lock = v <=> (user'[v].runtime = y /\ user'[v].step \in {"opening", "attaching"})
    BY <1>2, <1>3, <1>4 DEF IInv, TypeOK, Mine
  <2> QED  BY <1>2, <1>5, <2>1 DEF IInv, TypeOK, Mine
<1>7. Registered'
  <2>1. \A y \in Runtimes \ {x} : runtime[y].workspace # w
    BY <1>1, <1>2 DEF IInv, Registered
  <2>2. OneRuntimePerWorkspace'
    BY <1>4, <2>1 DEF IInv, Registered, OneRuntimePerWorkspace
  <2>3. \A v \in Workspaces : registry'[v] # None => runtime'[registry'[v]].workspace = v
    BY <1>1, <1>4 DEF IInv, Registered, TypeOK
  <2>4. \A y \in Runtimes : runtime'[y].workspace # None => registry'[runtime'[y].workspace] = y
    <3>1. \A y \in Runtimes : runtime'[y].workspace \in Workspaces \cup {None}
      BY <1>5 DEF RuntimeStates
    <3> QED  BY <1>2, <1>4, <2>1, <3>1 DEF IInv, Registered
  <2> QED  BY <2>2, <2>3, <2>4 DEF Registered
<1>8. BuiltForHolder'
  <2>1. \A i \in Instances : built[i] # None => runtime'[built[i]].workspace # None
    BY <1>4, RegistryAssumption DEF IInv, BuiltForHolder, TypeOK
  <2> QED  BY <1>2, <1>4, <2>1 DEF IInv, BuiltForHolder
<1>9. Stands'
  <2>1. \A v \in Users \ {u} : user'[v] = user[v]  BY <1>3
  <2>2. \A y \in Runtimes : runtime[y].workspace # None => runtime'[y].workspace # None
    BY <1>4
  <2> QED  BY <1>2, <1>3, <1>4, <2>2 DEF IInv, Stands, Mine, At, Busy
<1>10. Outcome'  BY <1>2, <1>4 DEF IInv, Outcome
<1>11. Accounted'
  BY <1>2, <1>4 DEF IInv, Accounted, InReach, Replaced, BuiltForHolder, TypeOK
<1> QED  BY <1>6, <1>7, <1>8, <1>9, <1>10, <1>11 DEF IInv

(* What a step of request u does to the requests, and to its runtime.      *)
LEMMA MineBusy ==
    ASSUME IInv, NEW u \in Users, Busy(u)
    PROVE  /\ Mine(u) \in Runtimes /\ runtime[Mine(u)] \in RuntimeStates
           /\ runtime[Mine(u)].workspace # None /\ shutdown.step = "running"
           /\ user[u] \in UserStates
BY DEF IInv, Stands, TypeOK

LEMMA GotoEffect ==
    ASSUME IInv, NEW u \in Users, NEW step, Goto(u, step)
    PROVE  /\ user'[u].step = step /\ user'[u].runtime = user[u].runtime
           /\ \A v \in Users \ {u} : user'[v] = user[v]
           /\ step \in {"new", "initialize", "opening", "attaching", "using", "done", "error"}
                 => user' \in [Users -> UserStates]
BY DEF IInv, TypeOK, UserStates, Goto

LEMMA InitializedEffect ==
    ASSUME IInv, NEW u \in Users, user' = [user EXCEPT ![u] = Initialized(u)]
    PROVE  /\ user'[u].step \in {"initialize", "using"} /\ user'[u].runtime = user[u].runtime
           /\ \A v \in Users \ {u} : user'[v] = user[v]
           /\ user' \in [Users -> UserStates]
<1>1. user[u] \in UserStates  BY DEF IInv, TypeOK
<1>2. /\ Initialized(u) \in UserStates /\ Initialized(u).step \in {"initialize", "using"}
      /\ Initialized(u).runtime = user[u].runtime
  <2>1. CASE user[u].calls = 0
    <3>1. Initialized(u) = [step |-> "initialize", calls |-> 1, runtime |-> user[u].runtime]
      BY <1>1, <2>1 DEF Initialized, UserStates
    <3> QED  BY <1>1, <3>1 DEF UserStates
  <2>2. CASE user[u].calls # 0
    <3>1. Initialized(u) = [step |-> "using", calls |-> 2, runtime |-> user[u].runtime]
      BY <1>1, <2>2 DEF Initialized, UserStates
    <3> QED  BY <1>1, <3>1 DEF UserStates
  <2> QED  BY <2>1, <2>2
<1> QED  BY <1>2 DEF IInv, TypeOK

(* Steps that change no runtime: a request passes, fails before it has     *)
(* built anything, or returns.                                             *)
LEMMA PassInv ==
    ASSUME IInv, NEW u \in Users, Busy(u),
           UNCHANGED <<registry, runtime, opened, built, shutdown, abandoned>>,
           user[u].step \notin {"opening", "attaching"},
           user' \in [Users -> UserStates],
           user'[u].step \in {"initialize", "using", "done", "error"},
           user'[u].step = "using" => runtime[Mine(u)].initialized,
           user'[u].runtime = user[u].runtime,
           \A v \in Users \ {u} : user'[v] = user[v]
    PROVE  IInv'
<1>1. TypeOK'
  <2>1. \A x \in Runtimes, v \in Users :
           runtime'[x].lock = v <=> (user'[v].runtime = x /\ user'[v].step \in {"opening", "attaching"})
    BY DEF IInv, TypeOK, Mine
  <2> QED  BY <2>1 DEF IInv, TypeOK, Mine
<1>2. Registered'  BY DEF IInv, Registered, OneRuntimePerWorkspace
<1>3. BuiltForHolder'  BY DEF IInv, BuiltForHolder
<1>4. Stands'  BY MineBusy DEF IInv, Stands, Mine, At, Busy
<1>5. Outcome'  BY DEF IInv, Outcome
<1>6. Accounted'  BY DEF IInv, Accounted, InReach, Replaced
<1> QED  BY <1>1, <1>2, <1>3, <1>4, <1>5, <1>6 DEF IInv

LEMMA ConstructInv ==
    ASSUME IInv, NEW u \in Users, NEW i \in Instances, ConstructLightRAG(u, i)
    PROVE  IInv'
<1> DEFINE x == Mine(u)
<1>1. /\ user[u].step = "initialize" /\ Busy(u)
      /\ runtime[x].lock = None /\ ~runtime[x].initialized /\ built[i] = None
      /\ UNCHANGED <<registry, opened, shutdown, abandoned>>
      /\ built' = [built EXCEPT ![i] = x]
      /\ runtime' = [runtime EXCEPT ![x].lightrag = i, ![x].lock = u]
      /\ Goto(u, "opening")
  BY DEF ConstructLightRAG, At, Busy
<1>2. x \in Runtimes /\ runtime[x] \in RuntimeStates /\ runtime[x].workspace # None
      /\ shutdown.step = "running"
  BY <1>1, MineBusy
<1>3. /\ user'[u].step = "opening" /\ user'[u].runtime = x
      /\ \A v \in Users \ {u} : user'[v] = user[v]
      /\ user' \in [Users -> UserStates]
  BY <1>1, GotoEffect DEF Mine
<1>3a. runtime'[x] = [runtime[x] EXCEPT !.lightrag = i, !.lock = u]
  BY <1>1, <1>2 DEF IInv, TypeOK
<1>4. /\ \A y \in Runtimes \ {x} : runtime'[y] = runtime[y]
      /\ built'[i] = x /\ \A j \in Instances \ {i} : built'[j] = built[j]
  BY <1>1, <1>2 DEF IInv, TypeOK
<1>5. /\ runtime'[x].lightrag = i /\ runtime'[x].lock = u
      /\ runtime'[x].anything = runtime[x].anything /\ runtime'[x].workspace = runtime[x].workspace
      /\ runtime'[x].initialized = runtime[x].initialized
  BY <1>2, <1>3a DEF RuntimeStates
<1>6. i \notin opened \cup abandoned  BY <1>1 DEF IInv, BuiltForHolder
<1>7. UNCHANGED <<registry, opened, shutdown, abandoned>>  BY <1>1
<1>8. /\ runtime[x].lightrag # None => runtime[x].lightrag \in abandoned
      /\ runtime[x].anything # None => runtime[x].anything \in abandoned
  <2>1. runtime[x].lightrag # None => runtime[x].lightrag \in abandoned
    BY <1>1, <1>2 DEF IInv, Outcome
  <2> QED  BY <1>2, <2>1 DEF IInv, Outcome
<1>9. \A v \in Users : Busy(v) => v = u \/ Mine(v) # x \/ user[v].step = "initialize"
  BY <1>1, <1>2 DEF IInv, TypeOK, Stands, Busy, UserStates, At, Mine
<1>10. TypeOK'
  <2>1. runtime'[x] \in RuntimeStates  BY <1>2, <1>3a DEF RuntimeStates, Handles
  <2>2. runtime' \in [Runtimes -> RuntimeStates]  BY <1>1, <1>4, <2>1 DEF IInv, TypeOK
  <2>3. built' \in [Instances -> Runtimes \cup {None}]  BY <1>1, <1>2 DEF IInv, TypeOK
  <2>4. \A y \in Runtimes, v \in Users :
           runtime'[y].lock = v <=> (user'[v].runtime = y /\ user'[v].step \in {"opening", "attaching"})
    BY <1>1, <1>2, <1>3, <1>4, <1>5 DEF IInv, TypeOK, Mine
  <2> QED  BY <1>1, <1>3, <2>2, <2>3, <2>4 DEF IInv, TypeOK, Mine
<1> HIDE DEF x
<1>11. Registered'
  <2>1. \A y \in Runtimes : runtime'[y].workspace = runtime[y].workspace  BY <1>4, <1>5
  <2>2. \A w \in Workspaces : registry[w] \in Runtimes \cup {None}  BY DEF IInv, TypeOK
  <2> QED  BY <1>7, <2>1, <2>2 DEF IInv, Registered, OneRuntimePerWorkspace
<1>12. BuiltForHolder'
  <2>1. \A y \in Runtimes, j \in Instances :
           j \in {runtime'[y].lightrag, runtime'[y].anything} => built'[j] = y
    <3>1. \A y \in Runtimes, j \in Instances :
             j \in {runtime[y].lightrag, runtime[y].anything} => built[j] = y /\ j # i
      BY <1>1 DEF IInv, BuiltForHolder
    <3> QED  BY <1>4, <1>5, <3>1
  <2>2. \A j \in Instances : built'[j] # None => runtime'[built'[j]].workspace # None
    <3>1. \A j \in Instances : built[j] \in Runtimes \cup {None}  BY DEF IInv, TypeOK
    <3> QED  BY <1>2, <1>4, <1>5, <3>1 DEF IInv, BuiltForHolder
  <2>3. \A j \in opened \cup abandoned : built'[j] # None
    BY <1>4, <1>6 DEF IInv, BuiltForHolder, TypeOK
  <2> QED  BY <1>7, <2>1, <2>2, <2>3 DEF BuiltForHolder
<1>13. Stands'
  <2>1. ASSUME NEW v \in Users \ {u}, Busy(v)
        PROVE  /\ Mine(v) \in Runtimes /\ runtime'[Mine(v)].workspace # None
               /\ user[v].step # "initialize" => runtime'[Mine(v)] = runtime[Mine(v)]
    <3>1. Mine(v) \in Runtimes /\ runtime[Mine(v)].workspace # None  BY <2>1 DEF IInv, Stands
    <3>2. CASE Mine(v) = x
      BY <1>2, <1>5, <1>9, <2>1, <3>1, <3>2
    <3>3. CASE Mine(v) # x
      BY <1>4, <3>1, <3>3
    <3> QED  BY <3>2, <3>3
  <2>2. \A v \in Users \ {u} : user'[v] = user[v]  BY <1>3
  <2>3. \A v \in Users \ {u} :
           LET y == Mine(v)' IN
           /\ Busy(v)' => y \in Runtimes /\ runtime'[y].workspace # None /\ shutdown'.step = "running"
           /\ user'[v].step \in {"opening", "attaching"} =>
                 ~runtime'[y].initialized /\ runtime'[y].lightrag \in Instances \ abandoned'
           /\ At(v, "attaching")' => runtime'[y].anything = runtime'[y].lightrag
                                     /\ runtime'[y].lightrag \in opened'
           /\ At(v, "using")' => runtime'[y].initialized
    BY <1>2, <1>7, <2>1, <2>2 DEF IInv, Stands, Mine, At, Busy
  <2>4. Mine(u)' = x /\ user'[u].step = "opening"  BY <1>3 DEF Mine
  <2>5. ~runtime'[x].initialized  BY <1>1, <1>5 DEF x
  <2>6. runtime'[x].workspace # None  BY <1>2, <1>5
  <2>7. shutdown'.step = "running"  BY <1>2, <1>7
  <2> QED  BY <1>2, <1>5, <1>6, <1>7, <2>3, <2>4, <2>5, <2>6, <2>7 DEF Stands, At, Busy
<1>14. Outcome'
  <2>1. ~runtime'[x].initialized /\ runtime'[x].lock # None  BY <1>1, <1>5 DEF x
  <2>2. runtime'[x].anything # None => runtime'[x].anything \in abandoned  BY <1>5, <1>8
  <2>3. i # None
    OBVIOUS
  <2> QED  BY <1>4, <1>5, <1>7, <2>1, <2>2, <2>3 DEF IInv, Outcome
<1>15. Accounted'
  <2>1. ASSUME NEW j \in opened
        PROVE  \/ Replaced(j)'
               \/ InReach(built[j])' /\ j \in {runtime'[built[j]].lightrag, runtime'[built[j]].anything}
    <3>1. j \in Instances /\ j # i /\ built[j] \in Runtimes
      BY <1>6 DEF IInv, TypeOK, BuiltForHolder
    <3>2. CASE Replaced(j)
      BY <1>1, <1>4, <1>7, <3>1, <3>2 DEF Replaced
    <3>3. CASE built[j] # x /\ ~Replaced(j)
      BY <1>2, <1>4, <1>7, <3>1, <3>3 DEF IInv, Accounted, InReach
    <3>4. CASE built[j] = x /\ j = runtime[x].lightrag
      <4>1. j \in abandoned  BY <1>8, <3>1, <3>4
      <4> QED  BY <1>4, <1>7, <3>1, <3>4, <4>1 DEF Replaced
    <3>5. CASE built[j] = x /\ j = runtime[x].anything
      BY <1>2, <1>5, <1>7, <3>5 DEF InReach
    <3> QED  BY <1>2, <3>2, <3>3, <3>4, <3>5 DEF IInv, Accounted
  <2>2. \A j \in opened : built'[j] = built[j]  BY <1>4, <1>6 DEF IInv, TypeOK
  <2> QED  BY <1>7, <2>1, <2>2 DEF Accounted
<1> QED  BY <1>10, <1>11, <1>12, <1>13, <1>14, <1>15 DEF IInv

(* The steps of a request that holds the lock of its runtime x: they       *)
(* change x alone, and no other request is at work on it.                  *)
LEMMA HolderAlone ==
    ASSUME IInv, NEW u \in Users, user[u].step \in {"opening", "attaching"}
    PROVE  /\ Busy(u) /\ runtime[Mine(u)].lock = u /\ ~runtime[Mine(u)].initialized
           /\ runtime[Mine(u)].lightrag \in Instances \ abandoned
           /\ built[runtime[Mine(u)].lightrag] = Mine(u)
           /\ \A v \in Users \ {u} : Busy(v) => Mine(v) # Mine(u) \/ user[v].step = "initialize"
<1>1. Busy(u)  BY DEF Busy
<1>2. runtime[Mine(u)].lock = u  BY <1>1, MineBusy DEF IInv, TypeOK
<1>3. /\ ~runtime[Mine(u)].initialized
      /\ runtime[Mine(u)].lightrag \in Instances \ abandoned
  BY DEF IInv, Stands
<1>4. built[runtime[Mine(u)].lightrag] = Mine(u)
  BY <1>1, <1>3, MineBusy DEF IInv, BuiltForHolder
<1>5. ASSUME NEW v \in Users \ {u}, Busy(v), Mine(v) = Mine(u), user[v].step # "initialize"
      PROVE  FALSE
  <2>1. user[v].step \in {"opening", "attaching", "using"}
    BY <1>5 DEF Busy, IInv, TypeOK, UserStates
  <2>2. ~At(v, "using")  BY <1>3, <1>5 DEF IInv, Stands
  <2>3. runtime[Mine(v)].lock = v
    BY <1>1, <1>5, <2>1, <2>2, MineBusy DEF IInv, TypeOK, At
  <2> QED  BY <1>2, <1>5, <2>3
<1> QED  BY <1>1, <1>2, <1>3, <1>4, <1>5

(* What a step of the holder u, that keeps its runtime's workspace, leaves *)
(* of the registry and of the other requests.                              *)
HolderStep(u) ==
    LET x == Mine(u)
        i == runtime[Mine(u)].lightrag IN
    /\ UNCHANGED <<registry, built, shutdown>>
    /\ opened \subseteq opened' /\ opened' \subseteq opened \cup {i}
    /\ abandoned \subseteq abandoned' /\ abandoned' \subseteq abandoned \cup {i}
    /\ runtime'[x].workspace = runtime[x].workspace
    /\ runtime'[x].lightrag = i
    /\ runtime'[x].anything \in {runtime[x].anything, i}
    /\ \A y \in Runtimes \ {x} : runtime'[y] = runtime[y]
    /\ \A v \in Users \ {u} : user'[v] = user[v]

LEMMA HolderFrame ==
    ASSUME IInv, NEW u \in Users, user[u].step \in {"opening", "attaching"}, HolderStep(u)
    PROVE  /\ Registered' /\ BuiltForHolder' /\ Accounted'
           /\ \A v \in Users \ {u} :
                LET y == Mine(v)' IN
                /\ Busy(v)' => y \in Runtimes /\ runtime'[y].workspace # None /\ shutdown'.step = "running"
                /\ user'[v].step \in {"opening", "attaching"} =>
                      ~runtime'[y].initialized /\ runtime'[y].lightrag \in Instances \ abandoned'
                /\ At(v, "attaching")' => runtime'[y].anything = runtime'[y].lightrag
                                          /\ runtime'[y].lightrag \in opened'
                /\ At(v, "using")' => runtime'[y].initialized
           /\ shutdown'.step = "running"
<1> DEFINE x == Mine(u)
           i == runtime[Mine(u)].lightrag
<1>1. x \in Runtimes /\ runtime[x].workspace # None /\ shutdown.step = "running"
  BY HolderAlone, MineBusy
<1>2. i \in Instances \ abandoned /\ built[i] = x /\ i # None
  BY HolderAlone
<1>3. \A v \in Users \ {u} : Busy(v) => Mine(v) # x \/ user[v].step = "initialize"
  BY HolderAlone
<1>0. /\ UNCHANGED <<registry, built, shutdown>>
      /\ opened \subseteq opened' /\ opened' \subseteq opened \cup {i}
      /\ abandoned \subseteq abandoned' /\ abandoned' \subseteq abandoned \cup {i}
      /\ runtime'[x].workspace = runtime[x].workspace
      /\ runtime'[x].lightrag = i
      /\ runtime'[x].anything \in {runtime[x].anything, i}
      /\ \A y \in Runtimes \ {x} : runtime'[y] = runtime[y]
      /\ \A v \in Users \ {u} : user'[v] = user[v]
  BY DEF HolderStep
<1> HIDE DEF x, i
<1>4. \A y \in Runtimes : runtime'[y].workspace = runtime[y].workspace  BY <1>0
<1>5. Registered'
  <2>1. \A w \in Workspaces : registry[w] \in Runtimes \cup {None}  BY DEF IInv, TypeOK
  <2> QED  BY <1>0, <1>4, <2>1 DEF IInv, Registered, OneRuntimePerWorkspace
<1>6. BuiltForHolder'
  <2>1. ASSUME NEW y \in Runtimes, NEW j \in Instances, j \in {runtime'[y].lightrag, runtime'[y].anything}
        PROVE  j \in {runtime[y].lightrag, runtime[y].anything}
    <3>1. CASE y = x
      BY <1>0, <2>1, <3>1 DEF x, i
    <3>2. CASE y # x
      BY <1>0, <2>1, <3>2
    <3> QED  BY <3>1, <3>2
  <2>2. \A y \in Runtimes, j \in Instances :
           j \in {runtime'[y].lightrag, runtime'[y].anything} => built'[j] = y
    BY <1>0, <2>1 DEF IInv, BuiltForHolder
  <2>3. \A j \in Instances : built'[j] # None => runtime'[built'[j]].workspace # None
    <3>1. \A j \in Instances : built[j] \in Runtimes \cup {None}  BY DEF IInv, TypeOK
    <3> QED  BY <1>0, <1>4, <3>1 DEF IInv, BuiltForHolder
  <2>4. \A j \in opened' \cup abandoned' : built'[j] # None
    BY <1>0, <1>1, <1>2 DEF IInv, BuiltForHolder
  <2> QED  BY <2>2, <2>3, <2>4 DEF BuiltForHolder
<1>7. ASSUME NEW v \in Users \ {u}, Busy(v)
      PROVE  /\ Mine(v) \in Runtimes /\ runtime'[Mine(v)].workspace # None
             /\ user[v].step # "initialize" =>
                   Mine(v) # x /\ runtime'[Mine(v)] = runtime[Mine(v)]
             /\ user[v].step \in {"opening", "attaching"} => runtime[Mine(v)].lightrag # i
  <2>1. Mine(v) \in Runtimes /\ runtime[Mine(v)].workspace # None  BY <1>7 DEF IInv, Stands
  <2>2. user[v].step # "initialize" => Mine(v) # x /\ runtime'[Mine(v)] = runtime[Mine(v)]
    BY <1>0, <1>3, <1>7, <2>1
  <2>3. ASSUME user[v].step \in {"opening", "attaching"} PROVE runtime[Mine(v)].lightrag # i
    <3>1. built[runtime[Mine(v)].lightrag] = Mine(v)  BY <2>3, HolderAlone
    <3>2. Mine(v) # x  BY <2>2, <2>3
    <3> QED  BY <1>2, <3>1, <3>2
  <2> QED  BY <1>4, <2>1, <2>2, <2>3
<1>8. \A v \in Users \ {u} :
         /\ Busy(v)' <=> Busy(v)
         /\ Mine(v)' = Mine(v) /\ user'[v].step = user[v].step
  BY <1>0 DEF Busy, Mine
<1>9. \A v \in Users \ {u} :
         LET y == Mine(v)' IN
         /\ Busy(v)' => y \in Runtimes /\ runtime'[y].workspace # None /\ shutdown'.step = "running"
         /\ user'[v].step \in {"opening", "attaching"} =>
               ~runtime'[y].initialized /\ runtime'[y].lightrag \in Instances \ abandoned'
         /\ At(v, "attaching")' => runtime'[y].anything = runtime'[y].lightrag
                                   /\ runtime'[y].lightrag \in opened'
         /\ At(v, "using")' => runtime'[y].initialized
  <2>1. \A v \in Users \ {u} : Busy(v) =>
           Mine(v) \in Runtimes /\ runtime'[Mine(v)].workspace # None /\ shutdown'.step = "running"
    BY <1>0, <1>1, <1>7
  <2>2. ASSUME NEW v \in Users \ {u}, user[v].step \in {"opening", "attaching"}
        PROVE  /\ ~runtime'[Mine(v)].initialized /\ runtime'[Mine(v)].lightrag \in Instances \ abandoned'
               /\ At(v, "attaching") => runtime'[Mine(v)].anything = runtime'[Mine(v)].lightrag
                                        /\ runtime'[Mine(v)].lightrag \in opened'
    <3>1. Busy(v)  BY <2>2 DEF Busy
    <3>2. runtime'[Mine(v)] = runtime[Mine(v)] /\ runtime[Mine(v)].lightrag # i
      BY <1>7, <2>2, <3>1
    <3>3. /\ ~runtime[Mine(v)].initialized /\ runtime[Mine(v)].lightrag \in Instances \ abandoned
          /\ At(v, "attaching") => runtime[Mine(v)].anything = runtime[Mine(v)].lightrag
                                   /\ runtime[Mine(v)].lightrag \in opened
      BY <2>2 DEF IInv, Stands
    <3>4. runtime[Mine(v)].lightrag \notin abandoned'  BY <1>0, <3>2, <3>3
    <3> QED  BY <1>0, <3>2, <3>3, <3>4
  <2>3. ASSUME NEW v \in Users \ {u}, At(v, "using")
        PROVE  runtime'[Mine(v)].initialized
    <3>1. Busy(v) /\ user[v].step # "initialize"  BY <2>3 DEF Busy, At
    <3>2. runtime'[Mine(v)] = runtime[Mine(v)]  BY <1>7, <3>1
    <3>3. runtime[Mine(v)].initialized  BY <2>3 DEF IInv, Stands
    <3> QED  BY <3>2, <3>3
  <2> QED  BY <1>8, <2>1, <2>2, <2>3 DEF At
<1>10. Accounted'
  <2> SUFFICES ASSUME NEW j \in opened'
               PROVE  Replaced(j)' \/ j \in {runtime'[built'[j]].lightrag, runtime'[built'[j]].anything}
    BY <1>0, <1>1 DEF Accounted, InReach
  <2>1. CASE j = i
    BY <1>0, <1>2, <2>1
  <2>2. CASE j \in opened /\ Replaced(j)
    BY <1>0, <2>2 DEF Replaced
  <2>3. CASE j \in opened /\ ~Replaced(j) /\ j # i
    <3>1. /\ j \in Instances /\ built[j] \in Runtimes
          /\ j \in {runtime[built[j]].lightrag, runtime[built[j]].anything}
      BY <1>1, <2>3 DEF IInv, TypeOK, BuiltForHolder, Accounted
    <3>2. CASE built[j] # x
      BY <1>0, <3>1, <3>2
    <3>3. CASE built[j] = x
      <4>1. j = runtime[x].anything /\ j # None  BY <2>3, <3>1, <3>3 DEF i, x
      <4>2. j \in abandoned  BY <1>1, <2>3, <4>1 DEF IInv, Outcome, i, x
      <4> QED  BY <1>0, <1>2, <2>3, <3>3, <4>2 DEF Replaced
    <3> QED  BY <3>2, <3>3
  <2> QED  BY <1>0, <2>1, <2>2, <2>3
<1> QED  BY <1>0, <1>1, <1>5, <1>6, <1>9, <1>10

(* The invariant after such a step, from what it makes of u and of x.      *)
LEMMA HolderInv ==
    ASSUME IInv, NEW u \in Users, user[u].step \in {"opening", "attaching"}, HolderStep(u),
           runtime' \in [Runtimes -> RuntimeStates],
           user' \in [Users -> UserStates], user'[u].runtime = Mine(u),
           user'[u].step \in {"attaching", "initialize", "using", "error"},
           user'[u].step = "attaching" =>
              /\ runtime'[Mine(u)].lock = u /\ ~runtime'[Mine(u)].initialized
              /\ runtime'[Mine(u)].anything = runtime[Mine(u)].lightrag
              /\ runtime[Mine(u)].lightrag \in opened' \ abandoned',
           user'[u].step # "attaching" =>
              /\ runtime'[Mine(u)].lock = None
              /\ runtime'[Mine(u)].initialized \/ runtime[Mine(u)].lightrag \in abandoned',
           user'[u].step = "using" => runtime'[Mine(u)].initialized,
           runtime'[Mine(u)].initialized =>
              /\ runtime'[Mine(u)].anything = runtime[Mine(u)].lightrag
              /\ runtime[Mine(u)].lightrag \in opened' \ abandoned'
    PROVE  IInv'
<1> DEFINE x == Mine(u)
           i == runtime[Mine(u)].lightrag
<1>1. /\ Registered' /\ BuiltForHolder' /\ Accounted'
      /\ \A v \in Users \ {u} :
           LET y == Mine(v)' IN
           /\ Busy(v)' => y \in Runtimes /\ runtime'[y].workspace # None /\ shutdown'.step = "running"
           /\ user'[v].step \in {"opening", "attaching"} =>
                 ~runtime'[y].initialized /\ runtime'[y].lightrag \in Instances \ abandoned'
           /\ At(v, "attaching")' => runtime'[y].anything = runtime'[y].lightrag
                                     /\ runtime'[y].lightrag \in opened'
           /\ At(v, "using")' => runtime'[y].initialized
      /\ shutdown'.step = "running"
  BY HolderFrame
<1>2. /\ x \in Runtimes /\ runtime[x].workspace # None /\ shutdown.step = "running"
      /\ runtime[x].lock = u /\ i \in Instances \ abandoned /\ built[i] = x
  BY HolderAlone, MineBusy
<1>3. /\ UNCHANGED <<registry, built, shutdown>>
      /\ opened \subseteq opened' /\ opened' \subseteq opened \cup {i}
      /\ abandoned \subseteq abandoned' /\ abandoned' \subseteq abandoned \cup {i}
      /\ runtime'[x].workspace = runtime[x].workspace
      /\ runtime'[x].lightrag = i
      /\ runtime'[x].anything \in {runtime[x].anything, i}
      /\ \A y \in Runtimes \ {x} : runtime'[y] = runtime[y]
      /\ \A v \in Users \ {u} : user'[v] = user[v]
  BY DEF HolderStep
<1> HIDE DEF x, i
<1>4. /\ user'[u].runtime = x
      /\ user'[u].step = "attaching" =>
            /\ runtime'[x].lock = u /\ ~runtime'[x].initialized
            /\ runtime'[x].anything = i /\ i \in opened' \ abandoned'
      /\ user'[u].step # "attaching" =>
            runtime'[x].lock = None /\ (runtime'[x].initialized \/ i \in abandoned')
      /\ user'[u].step = "using" => runtime'[x].initialized
      /\ runtime'[x].initialized => runtime'[x].anything = i /\ i \in opened' \ abandoned'
  BY DEF x, i
<1>5. TypeOK'
  <2>1. ASSUME NEW y \in Runtimes, NEW v \in Users
        PROVE  runtime'[y].lock = v
                 <=> (user'[v].runtime = y /\ user'[v].step \in {"opening", "attaching"})
    <3>1. runtime[y].lock = v <=> (user[v].runtime = y /\ user[v].step \in {"opening", "attaching"})
      BY DEF IInv, TypeOK, Mine
    <3>2. CASE y # x
      BY <1>2, <1>3, <1>4, <3>1, <3>2 DEF x, Mine
    <3>3. CASE y = x /\ v # u
      BY <1>2, <1>3, <1>4, <3>1, <3>3
    <3>4. CASE y = x /\ v = u
      BY <1>4, <3>4
    <3> QED  BY <3>2, <3>3, <3>4
  <2>2. opened' \in SUBSET Instances /\ abandoned' \in SUBSET Instances
    BY <1>2, <1>3 DEF IInv, TypeOK
  <2> QED  BY <1>3, <2>1, <2>2 DEF IInv, TypeOK, Mine
<1>6. Stands'
  <2>1. x = Mine(u)'  BY <1>4 DEF Mine
  <2>2. LET y == Mine(u)' IN
        /\ Busy(u)' => y \in Runtimes /\ runtime'[y].workspace # None /\ shutdown'.step = "running"
        /\ user'[u].step \in {"opening", "attaching"} =>
              ~runtime'[y].initialized /\ runtime'[y].lightrag \in Instances \ abandoned'
        /\ At(u, "attaching")' => runtime'[y].anything = runtime'[y].lightrag
                                  /\ runtime'[y].lightrag \in opened'
        /\ At(u, "using")' => runtime'[y].initialized
    <3>1. runtime'[x].workspace # None /\ shutdown'.step = "running"  BY <1>2, <1>3
    <3>2. runtime'[x].lightrag = i /\ i \in Instances  BY <1>2, <1>3
    <3>3. user'[u].step # "opening"
      OBVIOUS
    <3>4. user'[u].step \in {"opening", "attaching"} =>
             ~runtime'[x].initialized /\ runtime'[x].lightrag \in Instances \ abandoned'
      BY <1>4, <3>2, <3>3
    <3>5. /\ user'[u].step = "attaching" =>
                runtime'[x].anything = runtime'[x].lightrag /\ runtime'[x].lightrag \in opened'
          /\ user'[u].step = "using" => runtime'[x].initialized
      BY <1>4, <3>2
    <3>6. x \in Runtimes  BY <1>2
    <3> QED  BY <2>1, <3>1, <3>4, <3>5, <3>6, Zenon DEF At
  <2>3. \A v \in Users :
           LET y == Mine(v)' IN
           /\ Busy(v)' => y \in Runtimes /\ runtime'[y].workspace # None /\ shutdown'.step = "running"
           /\ user'[v].step \in {"opening", "attaching"} =>
                 ~runtime'[y].initialized /\ runtime'[y].lightrag \in Instances \ abandoned'
           /\ At(v, "attaching")' => runtime'[y].anything = runtime'[y].lightrag
                                     /\ runtime'[y].lightrag \in opened'
           /\ At(v, "using")' => runtime'[y].initialized
    BY <1>1, <2>2
  <2> QED  BY <1>1, <2>3 DEF Stands
<1>7. Outcome'
  <2> SUFFICES ASSUME NEW y \in Runtimes
               PROVE  LET r == runtime'[y] IN
                  /\ r.initialized => r.lightrag = r.anything /\ r.lightrag \in opened' \ abandoned'
                  /\ ~r.initialized /\ r.lock = None /\ r.lightrag # None => r.lightrag \in abandoned'
                  /\ r.anything # None => r.lightrag # None /\ r.anything \in {r.lightrag} \cup abandoned'
    BY DEF Outcome
  <2>1. CASE y # x
    <3>1. runtime'[y] = runtime[y]  BY <1>3, <2>1
    <3>2. runtime[y].lightrag \in Instances => runtime[y].lightrag # i
      BY <1>2, <2>1 DEF IInv, BuiltForHolder
    <3>3. opened \subseteq Instances  BY DEF IInv, TypeOK
    <3>4. LET r == runtime[y] IN
          /\ r.initialized => r.lightrag = r.anything /\ r.lightrag \in opened \ abandoned
          /\ ~r.initialized /\ r.lock = None /\ r.lightrag # None => r.lightrag \in abandoned
          /\ r.anything # None => r.lightrag # None /\ r.anything \in {r.lightrag} \cup abandoned
      BY DEF IInv, Outcome
    <3> QED  BY <1>3, <3>1, <3>2, <3>3, <3>4
  <2>2. CASE y = x
    <3>1. runtime'[x].lightrag = i /\ i # None  BY <1>2, <1>3
    <3>2. runtime'[x].anything # None => runtime'[x].anything \in {i} \cup abandoned'
      <4>1. runtime[x].anything # None => runtime[x].anything \in {i} \cup abandoned
        BY <1>2 DEF IInv, Outcome, i, x
      <4> QED  BY <1>3, <4>1
    <3>3. u # None
      OBVIOUS
    <3> QED  BY <1>4, <2>2, <3>1, <3>2, <3>3
  <2> QED  BY <2>1, <2>2
<1> QED  BY <1>1, <1>5, <1>6, <1>7 DEF IInv

LEMMA OpenInv ==
    ASSUME IInv, NEW u \in Users, OpenStorages(u)
    PROVE  IInv'
<1> DEFINE x == Mine(u)
           i == runtime[Mine(u)].lightrag
<1>1. /\ user[u].step = "opening"
      /\ opened' = opened \cup {i}
      /\ runtime' = [runtime EXCEPT ![x].anything = i]
      /\ Goto(u, "attaching")
      /\ UNCHANGED <<registry, built, shutdown, abandoned>>
  BY DEF OpenStorages, At
<1>2. /\ x \in Runtimes /\ runtime[x] \in RuntimeStates /\ i \in Instances \ abandoned
      /\ runtime[x].lock = u /\ ~runtime[x].initialized
  BY <1>1, HolderAlone, MineBusy
<1>3. /\ user'[u].step = "attaching" /\ user'[u].runtime = x
      /\ \A v \in Users \ {u} : user'[v] = user[v]
      /\ user' \in [Users -> UserStates]
  BY <1>1, GotoEffect DEF Mine
<1>4. /\ runtime'[x] = [runtime[x] EXCEPT !.anything = i]
      /\ \A y \in Runtimes \ {x} : runtime'[y] = runtime[y]
  BY <1>1, <1>2 DEF IInv, TypeOK
<1>5. /\ runtime'[x].workspace = runtime[x].workspace /\ runtime'[x].lightrag = i
      /\ runtime'[x].anything = i /\ runtime'[x].lock = u
      /\ runtime'[x].initialized = runtime[x].initialized
      /\ runtime'[x] \in RuntimeStates
  BY <1>2, <1>4 DEF RuntimeStates, Handles
<1>6. runtime' \in [Runtimes -> RuntimeStates]
  BY <1>1, <1>2, <1>4, <1>5 DEF IInv, TypeOK
<1>7. HolderStep(u)  BY <1>1, <1>3, <1>4, <1>5 DEF HolderStep
<1>8. i \in opened' \ abandoned'  BY <1>1, <1>2
<1>9. ~runtime'[x].initialized  BY <1>2, <1>5
<1> QED  BY <1>1, <1>3, <1>5, <1>6, <1>7, <1>8, <1>9, HolderInv

LEMMA FinishInv ==
    ASSUME IInv, NEW u \in Users, FinishInitialize(u)
    PROVE  IInv'
<1> DEFINE x == Mine(u)
           i == runtime[Mine(u)].lightrag
<1>1. /\ user[u].step = "attaching"
      /\ runtime' = [runtime EXCEPT ![x].initialized = TRUE, ![x].lock = None]
      /\ user' = [user EXCEPT ![u] = Initialized(u)]
      /\ UNCHANGED <<registry, opened, built, shutdown, abandoned>>
  BY DEF FinishInitialize, At
<1>2. /\ x \in Runtimes /\ runtime[x] \in RuntimeStates /\ i \in Instances \ abandoned
      /\ runtime[x].anything = i /\ i \in opened
  BY <1>1, HolderAlone, MineBusy DEF IInv, Stands, At
<1>3. /\ user'[u].step \in {"initialize", "using"} /\ user'[u].runtime = x
      /\ \A v \in Users \ {u} : user'[v] = user[v]
      /\ user' \in [Users -> UserStates]
  BY <1>1, InitializedEffect DEF Mine
<1>4. /\ runtime'[x] = [runtime[x] EXCEPT !.initialized = TRUE, !.lock = None]
      /\ \A y \in Runtimes \ {x} : runtime'[y] = runtime[y]
  BY <1>1, <1>2 DEF IInv, TypeOK
<1>5. /\ runtime'[x].workspace = runtime[x].workspace /\ runtime'[x].lightrag = i
      /\ runtime'[x].anything = i /\ runtime'[x].lock = None
  BY <1>2, <1>4 DEF RuntimeStates
<1>6. runtime'[x].initialized /\ runtime'[x] \in RuntimeStates
  BY <1>2, <1>4 DEF RuntimeStates
<1>7. runtime' \in [Runtimes -> RuntimeStates]
  BY <1>1, <1>2, <1>4, <1>6 DEF IInv, TypeOK
<1>8. HolderStep(u)  BY <1>1, <1>3, <1>4, <1>5 DEF HolderStep
<1> QED  BY <1>1, <1>2, <1>3, <1>5, <1>6, <1>7, <1>8, HolderInv

LEMMA RaisesInv ==
    ASSUME IInv, NEW u \in Users, InitializeRaises(u)
    PROVE  IInv'
<1> DEFINE x == Mine(u)
           i == runtime[Mine(u)].lightrag
<1>1. /\ user[u].step \in {"opening", "attaching"}
      /\ opened \subseteq opened' /\ opened' \subseteq opened \cup {i}
      /\ runtime' = [runtime EXCEPT ![x].lock = None]
      /\ abandoned' = abandoned \cup {i}
      /\ Goto(u, "error")
      /\ UNCHANGED <<registry, built, shutdown>>
  BY DEF InitializeRaises
<1>2. /\ x \in Runtimes /\ runtime[x] \in RuntimeStates /\ ~runtime[x].initialized
  BY <1>1, HolderAlone, MineBusy
<1>3. /\ user'[u].step = "error" /\ user'[u].runtime = x
      /\ \A v \in Users \ {u} : user'[v] = user[v]
      /\ user' \in [Users -> UserStates]
  BY <1>1, GotoEffect DEF Mine
<1>4. /\ runtime'[x] = [runtime[x] EXCEPT !.lock = None]
      /\ \A y \in Runtimes \ {x} : runtime'[y] = runtime[y]
  BY <1>1, <1>2 DEF IInv, TypeOK
<1>5. /\ runtime'[x].workspace = runtime[x].workspace /\ runtime'[x].lightrag = i
      /\ runtime'[x].anything = runtime[x].anything /\ runtime'[x].lock = None
      /\ runtime'[x].initialized = runtime[x].initialized
      /\ runtime'[x] \in RuntimeStates
  BY <1>2, <1>4 DEF RuntimeStates
<1>6. ~runtime'[x].initialized  BY <1>2, <1>5
<1>7. runtime' \in [Runtimes -> RuntimeStates]
  BY <1>1, <1>2, <1>4, <1>5 DEF IInv, TypeOK
<1>8. HolderStep(u)  BY <1>1, <1>3, <1>4, <1>5 DEF HolderStep
<1>9. i \in abandoned'  BY <1>1
<1> QED  BY <1>1, <1>3, <1>5, <1>6, <1>7, <1>8, <1>9, HolderInv

LEMMA UserInv ==
    ASSUME IInv, NEW u \in Users, UserNext(u)
    PROVE  IInv'
<1>1. CASE \E w \in Workspaces : Get(u, w)  BY <1>1, GetInv
<1>2. CASE AlreadyInitialized(u)
  <2>1. /\ Busy(u) /\ user[u].step = "initialize" /\ runtime[Mine(u)].initialized
        /\ user' = [user EXCEPT ![u] = Initialized(u)]
        /\ UNCHANGED <<registry, runtime, opened, built, shutdown, abandoned>>
    BY <1>2 DEF AlreadyInitialized, At, Busy
  <2>2. /\ user'[u].step \in {"initialize", "using"} /\ user'[u].runtime = user[u].runtime
        /\ \A v \in Users \ {u} : user'[v] = user[v]
        /\ user' \in [Users -> UserStates]
    BY <2>1, InitializedEffect
  <2> QED  BY <2>1, <2>2, PassInv
<1>3. CASE \E i \in Instances : ConstructLightRAG(u, i)  BY <1>3, ConstructInv
<1>4. CASE ImportRaises(u)
  <2>1. /\ Busy(u) /\ user[u].step = "initialize" /\ Goto(u, "error")
        /\ UNCHANGED <<registry, runtime, opened, built, shutdown, abandoned>>
    BY <1>4 DEF ImportRaises, At, Busy
  <2> QED  BY <2>1, GotoEffect, PassInv
<1>5. CASE OpenStorages(u)  BY <1>5, OpenInv
<1>6. CASE FinishInitialize(u)  BY <1>6, FinishInv
<1>7. CASE InitializeRaises(u)  BY <1>7, RaisesInv
<1>8. CASE UseReturns(u)
  <2>1. /\ Busy(u) /\ user[u].step = "using" /\ Goto(u, "done")
        /\ UNCHANGED <<registry, runtime, opened, built, shutdown, abandoned>>
    BY <1>8 DEF UseReturns, At, Busy
  <2> QED  BY <2>1, GotoEffect, PassInv
<1> QED  BY <1>1, <1>2, <1>3, <1>4, <1>5, <1>6, <1>7, <1>8 DEF UserNext

(* The shutdown. *)
LEMMA BeginsInv ==
    ASSUME IInv, ShutdownBegins
    PROVE  IInv'
<1>1. /\ shutdown.step = "running"
      /\ \A u \in Users : ~Busy(u)
      /\ shutdown' = [step |-> "next", left |-> {registry[w] : w \in Workspaces} \ {None}, at |-> None]
      /\ registry' = [w \in Workspaces |-> None]
      /\ UNCHANGED <<runtime, opened, built, user, abandoned>>
  BY DEF ShutdownBegins
<1>2. shutdown'.step = "next" /\ shutdown'.left = {registry[w] : w \in Workspaces} \ {None}
  BY <1>1
<1>3. TypeOK'
  BY <1>1 DEF IInv, TypeOK, ShutdownStates, Mine
<1>4. Registered'  BY <1>1, <1>2 DEF IInv, Registered, OneRuntimePerWorkspace
<1>5. BuiltForHolder'  BY <1>1 DEF IInv, BuiltForHolder
<1>6. Stands'  BY <1>1, <1>2 DEF IInv, Stands, Mine, At, Busy
<1>7. Outcome'  BY <1>1 DEF IInv, Outcome
<1>8. Accounted'
  <2>1. ASSUME NEW i \in opened PROVE built[i] \in shutdown'.left
    <3>1. built[i] \in Runtimes /\ runtime[built[i]].workspace \in Workspaces
      BY DEF IInv, TypeOK, BuiltForHolder, RuntimeStates
    <3>2. registry[runtime[built[i]].workspace] = built[i]
      BY <1>1, <3>1 DEF IInv, Registered
    <3> QED  BY <1>2, <3>1, <3>2
  <2> QED  BY <1>1, <2>1 DEF IInv, Accounted, InReach, Replaced
<1> QED  BY <1>3, <1>4, <1>5, <1>6, <1>7, <1>8 DEF IInv

LEMMA ShutdownNextInv ==
    ASSUME IInv, ShutdownNext
    PROVE  IInv'
<1>1. /\ shutdown.step = "next" /\ shutdown \in ShutdownStates
      /\ UNCHANGED <<registry, runtime, opened, built, user, abandoned>>
  BY DEF ShutdownNext, IInv, TypeOK
<1>2. \/ shutdown.left = {} /\ shutdown' = [step |-> "done", left |-> shutdown.left, at |-> None]
      \/ \E x \in shutdown.left :
           shutdown' = [step |-> "finalizing", left |-> shutdown.left \ {x}, at |-> x]
  BY <1>1 DEF ShutdownNext, ShutdownStates
<1>3. /\ shutdown' \in ShutdownStates /\ shutdown'.step \in {"done", "finalizing"}
      /\ shutdown'.step = "finalizing" => shutdown'.at \in Runtimes
      /\ shutdown'.step = "done" => shutdown'.left = {}
      /\ \A x \in shutdown.left :
           x \in shutdown'.left \/ (shutdown'.step = "finalizing" /\ shutdown'.at = x)
  BY <1>1, <1>2 DEF ShutdownStates
<1>4. TypeOK'  BY <1>1, <1>3 DEF IInv, TypeOK, Mine
<1>5. Registered'  BY <1>1, <1>3 DEF IInv, Registered, OneRuntimePerWorkspace
<1>6. BuiltForHolder'  BY <1>1 DEF IInv, BuiltForHolder
<1>7. Stands'
  <2>1. \A u \in Users : ~Busy(u)  BY <1>1 DEF IInv, Stands
  <2> QED  BY <1>1, <1>3, <2>1 DEF Stands, Mine, At, Busy
<1>8. Outcome'  BY <1>1 DEF IInv, Outcome
<1>9. Accounted'  BY <1>1, <1>3 DEF IInv, Accounted, InReach, Replaced
<1> QED  BY <1>4, <1>5, <1>6, <1>7, <1>8, <1>9 DEF IInv

LEMMA ShutdownRuntimeInv ==
    ASSUME IInv, ShutdownRuntime
    PROVE  IInv'
<1> DEFINE x == shutdown.at
<1>1. /\ shutdown.step = "finalizing"
      /\ opened' = opened \ {Finalizable(x)}
      /\ runtime' = [runtime EXCEPT ![x].anything = None, ![x].lightrag = None,
                                    ![x].initialized = FALSE]
      /\ shutdown' = [shutdown EXCEPT !.step = "next", !.at = None]
  BY DEF ShutdownRuntime
<1>2. UNCHANGED <<registry, built, user, abandoned>>
  BY DEF ShutdownRuntime
<1>3. x \in Runtimes /\ runtime[x] \in RuntimeStates /\ shutdown \in ShutdownStates
  BY <1>1 DEF IInv, TypeOK, Stands
<1>4. /\ runtime'[x] = [runtime[x] EXCEPT !.anything = None, !.lightrag = None, !.initialized = FALSE]
      /\ \A y \in Runtimes \ {x} : runtime'[y] = runtime[y]
  BY <1>1, <1>3 DEF IInv, TypeOK
<1>5. /\ runtime'[x].workspace = runtime[x].workspace /\ runtime'[x].lightrag = None
      /\ runtime'[x].anything = None /\ runtime'[x].lock = runtime[x].lock
  BY <1>3, <1>4 DEF RuntimeStates
<1>6. ~runtime'[x].initialized /\ runtime'[x] \in RuntimeStates
  BY <1>3, <1>4 DEF RuntimeStates, Handles
<1>7. runtime' \in [Runtimes -> RuntimeStates]
  BY <1>1, <1>3, <1>4, <1>6 DEF IInv, TypeOK
<1>8. /\ shutdown' \in ShutdownStates /\ shutdown'.step = "next"
      /\ shutdown'.left = shutdown.left
  BY <1>1, <1>3 DEF ShutdownStates
<1>9. \A u \in Users : ~Busy(u)  BY <1>1 DEF IInv, Stands
<1>10. runtime[x].lock = None
  <2>1. \A u \in Users : user[u].step \notin {"opening", "attaching"}  BY <1>9 DEF Busy
  <2> QED  BY <1>3, <2>1 DEF IInv, TypeOK, RuntimeStates
<1>11. Finalizable(x) \in Instances => built[Finalizable(x)] = x
  BY <1>3 DEF Finalizable, IInv, BuiltForHolder
<1> HIDE DEF x
<1>4a. \A y \in Runtimes \ {x} : runtime'[y] = runtime[y]  BY <1>4
<1>12. TypeOK'
  <2>1. \A y \in Runtimes : runtime'[y].lock = runtime[y].lock  BY <1>4a, <1>5
  <2>2. opened' \in SUBSET Instances  BY <1>1 DEF IInv, TypeOK
  <2>3. \A y \in Runtimes, u \in Users :
           runtime'[y].lock = u <=> Mine(u)' = y /\ user'[u].step \in {"opening", "attaching"}
    BY <1>2, <2>1 DEF IInv, TypeOK, Mine
  <2> QED  BY <1>2, <1>7, <1>8, <2>2, <2>3 DEF IInv, TypeOK
<1>13. Registered'
  <2>1. \A y \in Runtimes : runtime'[y].workspace = runtime[y].workspace  BY <1>4a, <1>5
  <2>2. \A w \in Workspaces : registry[w] \in Runtimes \cup {None}  BY DEF IInv, TypeOK
  <2> QED  BY <1>2, <1>8, <2>1, <2>2 DEF IInv, Registered, OneRuntimePerWorkspace
<1>14. BuiltForHolder'
  <2>1. \A y \in Runtimes, i \in Instances :
           i \in {runtime'[y].lightrag, runtime'[y].anything} => built[i] = y
    <3>1. \A y \in Runtimes \ {x}, i \in Instances :
             i \in {runtime[y].lightrag, runtime[y].anything} => built[i] = y
      BY DEF IInv, BuiltForHolder
    <3>2. \A i \in Instances : i # None
      OBVIOUS
    <3> QED  BY <1>4a, <1>5, <3>1, <3>2
  <2>2. \A i \in Instances : built[i] # None => runtime'[built[i]].workspace # None
    <3>1. \A y \in Runtimes : runtime'[y].workspace = runtime[y].workspace  BY <1>4a, <1>5
    <3>2. \A i \in Instances : built[i] \in Runtimes \cup {None}  BY DEF IInv, TypeOK
    <3> QED  BY <3>1, <3>2 DEF IInv, BuiltForHolder
  <2>3. \A i \in opened' \cup abandoned : built[i] # None
    BY <1>1 DEF IInv, BuiltForHolder
  <2> QED  BY <1>2, <2>1, <2>2, <2>3 DEF BuiltForHolder
<1>15. Stands'
  BY <1>2, <1>8, <1>9 DEF Stands, Mine, At, Busy
<1>16. Outcome'
  <2>1. ASSUME NEW y \in Runtimes, y # x, runtime[y].initialized
        PROVE  runtime[y].lightrag # Finalizable(x)
    <3>1. runtime[y].lightrag \in Instances /\ built[runtime[y].lightrag] = y
      BY <2>1 DEF IInv, TypeOK, Outcome, BuiltForHolder
    <3> QED  BY <1>11, <2>1, <3>1
  <2>2. \A y \in Runtimes : runtime'[y].initialized =>
           runtime'[y].lightrag = runtime'[y].anything /\ runtime'[y].lightrag \in opened' \ abandoned
    <3>1. \A y \in Runtimes : runtime'[y].initialized => y # x /\ runtime'[y] = runtime[y]
      BY <1>4a, <1>6
    <3>2. \A y \in Runtimes : runtime[y].initialized =>
             runtime[y].lightrag = runtime[y].anything /\ runtime[y].lightrag \in opened \ abandoned
      BY DEF IInv, Outcome
    <3>3. opened \ {Finalizable(x)} \subseteq opened'  BY <1>1
    <3> QED  BY <2>1, <3>1, <3>2, <3>3
  <2>3. \A y \in Runtimes :
           /\ ~runtime'[y].initialized /\ runtime'[y].lock = None /\ runtime'[y].lightrag # None
                => runtime'[y].lightrag \in abandoned
           /\ runtime'[y].anything # None =>
                runtime'[y].lightrag # None /\ runtime'[y].anything \in {runtime'[y].lightrag} \cup abandoned
    BY <1>4a, <1>5 DEF IInv, Outcome
  <2> QED  BY <1>2, <2>2, <2>3 DEF Outcome
<1>17. Accounted'
  <2>1. ASSUME NEW j \in opened, j # Finalizable(x)
        PROVE  \/ Replaced(j)
               \/ built[j] \in shutdown.left /\ j \in {runtime'[built[j]].lightrag, runtime'[built[j]].anything}
    <3>1. j \in Instances /\ j # None /\ built[j] \in Runtimes
      BY DEF IInv, TypeOK, BuiltForHolder
    <3>2. CASE built[j] # x
      BY <1>1, <1>4a, <3>1, <3>2 DEF IInv, Accounted, InReach, x
    <3>3. CASE built[j] = x /\ ~Replaced(j)
      <4>1. j \in {runtime[x].lightrag, runtime[x].anything}
        BY <1>1, <3>3 DEF IInv, Accounted
      <4>2. j = runtime[x].lightrag /\ runtime[x].anything \notin {None, j}
        BY <2>1, <3>1, <4>1 DEF Finalizable
      <4>3. runtime[x].anything \in abandoned  BY <1>3, <4>2 DEF IInv, Outcome
      <4>4. runtime[x].anything \in Instances /\ built[runtime[x].anything] = x
        BY <1>3, <4>3 DEF IInv, TypeOK, BuiltForHolder
      <4>5. ~runtime[x].initialized  BY <1>3, <4>2 DEF IInv, Outcome
      <4>6. j \in abandoned  BY <1>3, <1>10, <3>1, <4>2, <4>5 DEF IInv, Outcome
      <4> QED  BY <3>3, <4>2, <4>4, <4>6 DEF Replaced
    <3> QED  BY <3>2, <3>3
  <2> QED  BY <1>1, <1>2, <1>8, <2>1 DEF Accounted, InReach, Replaced
<1> QED  BY <1>12, <1>13, <1>14, <1>15, <1>16, <1>17 DEF IInv

LEMMA ShutdownRaisesInv ==
    ASSUME IInv, ShutdownRaises
    PROVE  IInv'
<1>1. /\ shutdown.step = "finalizing" /\ shutdown \in ShutdownStates
      /\ shutdown' = [shutdown EXCEPT !.step = "error"]
      /\ UNCHANGED <<registry, runtime, opened, built, user, abandoned>>
  BY DEF ShutdownRaises, IInv, TypeOK
<1>2. shutdown' \in ShutdownStates /\ shutdown'.step = "error"  BY <1>1 DEF ShutdownStates
<1>3. TypeOK'  BY <1>1, <1>2 DEF IInv, TypeOK, Mine
<1>4. Registered'  BY <1>1, <1>2 DEF IInv, Registered, OneRuntimePerWorkspace
<1>5. BuiltForHolder'  BY <1>1 DEF IInv, BuiltForHolder
<1>6. Stands'
  <2>1. \A u \in Users : ~Busy(u)  BY <1>1 DEF IInv, Stands
  <2> QED  BY <1>1, <1>2, <2>1 DEF Stands, Mine, At, Busy
<1>7. Outcome'  BY <1>1 DEF IInv, Outcome
<1>8. Accounted'  BY <1>2 DEF Accounted
<1> QED  BY <1>3, <1>4, <1>5, <1>6, <1>7, <1>8 DEF IInv

LEMMA StutterInv == IInv /\ UNCHANGED vars => IInv'
<1> SUFFICES ASSUME IInv, UNCHANGED vars PROVE IInv'
  OBVIOUS
<1>1. TypeOK'  BY DEF vars, IInv, TypeOK, Mine
<1>2. Registered'  BY DEF vars, IInv, Registered, OneRuntimePerWorkspace
<1>3. BuiltForHolder'  BY DEF vars, IInv, BuiltForHolder
<1>4. Stands'  BY DEF vars, IInv, Stands, Mine, At, Busy
<1>5. Outcome'  BY DEF vars, IInv, Outcome
<1>6. Accounted'  BY DEF vars, IInv, Accounted, InReach, Replaced
<1> QED  BY <1>1, <1>2, <1>3, <1>4, <1>5, <1>6 DEF IInv

----------------------------------------------------------------------------
(* The inductive invariant: the properties below, with where each request  *)
(* stands, what each runtime holds and for which runtime it was built.     *)
THEOREM RegistryInvariant == Spec => []IInv
<1>1. Init => IInv  BY InitInv
<1>2. IInv /\ [Next]_vars => IInv'
  <2> SUFFICES ASSUME IInv, [Next]_vars PROVE IInv'
    OBVIOUS
  <2>1. CASE \E u \in Users : UserNext(u)  BY <2>1, UserInv
  <2>2. CASE ShutdownBegins  BY <2>2, BeginsInv
  <2>3. CASE ShutdownNext  BY <2>3, ShutdownNextInv
  <2>4. CASE ShutdownRuntime  BY <2>4, ShutdownRuntimeInv
  <2>5. CASE ShutdownRaises  BY <2>5, ShutdownRaisesInv
  <2>6. CASE UNCHANGED vars  BY <2>6, StutterInv
  <2> QED  BY <2>1, <2>2, <2>3, <2>4, <2>5, <2>6 DEF Next, ShutdownStep
<1> QED  BY <1>1, <1>2, PTL DEF Spec

(* The state of the registry is well typed, and a request is initializing  *)
(* a runtime exactly while it holds that runtime's lock.                   *)
THEOREM RegistryTypeCorrect == Spec => []TypeOK
<1>1. IInv => TypeOK  BY DEF IInv
<1> QED  BY <1>1, RegistryInvariant, PTL

(* RAGRuntimeRegistry.get never gives a workspace a second runtime.        *)
THEOREM OneRuntime == Spec => []OneRuntimePerWorkspace
<1>1. IInv => OneRuntimePerWorkspace  BY DEF IInv, Registered
<1> QED  BY <1>1, RegistryInvariant, PTL

(* However initializations fail and are tried again, a request that passed *)
(* RAGRuntime.initialize uses the one RAGAnything whose storages are open. *)
THEOREM RuntimeReady == Spec => []UsedRuntimeIsReady
<1>1. ASSUME IInv PROVE UsedRuntimeIsReady
  <2> SUFFICES ASSUME NEW u \in Users, At(u, "using")
               PROVE  LET x == runtime[Mine(u)] IN
                      /\ x.initialized /\ x.lightrag = x.anything
                      /\ x.anything \in opened \ abandoned
    BY DEF UsedRuntimeIsReady
  <2>1. Mine(u) \in Runtimes  BY <1>1, MineBusy DEF At, Busy
  <2>2. runtime[Mine(u)].initialized  BY <1>1 DEF IInv, Stands
  <2>3. /\ runtime[Mine(u)].lightrag = runtime[Mine(u)].anything
        /\ runtime[Mine(u)].lightrag \in opened \ abandoned
    BY <1>1, <2>1, <2>2 DEF IInv, Outcome
  <2> QED  BY <2>2, <2>3
<1>2. IInv => UsedRuntimeIsReady  BY <1>1
<1> QED  BY <1>2, RegistryInvariant, PTL

(* RAGRuntimeRegistry.shutdown, when nothing raises, closes the storages   *)
(* of every runtime, but for instances that a failed attempt has left and  *)
(* that are not the last their runtime was given.                          *)
THEOREM ShutdownCloses == Spec => []ShutdownClosesStorages
<1>1. ASSUME IInv, shutdown.step = "done", NEW i \in opened
      PROVE  i \in abandoned /\ \E j \in Instances \ {i} : built[j] = built[i]
  <2>1. ~InReach(built[i])  BY <1>1 DEF IInv, Stands, InReach
  <2> QED  BY <1>1, <2>1 DEF IInv, Accounted, Replaced
<1>2. IInv => ShutdownClosesStorages  BY <1>1 DEF ShutdownClosesStorages
<1> QED  BY <1>2, RegistryInvariant, PTL
=============================================================================
