--------------------------- MODULE RuntimeRegistry ---------------------------
(***************************************************************************)
(* The tenant runtimes of one process (app/rag_runtime.py): a registry     *)
(* creates one RAGRuntime per workspace on demand, the requests that get   *)
(* it initialize it under its lock, and shutdown finalizes all of them.    *)
(* Everything runs on one asyncio event loop: a step ends at an await that *)
(* suspends.  The lock of the registry is never held across an await.      *)
(*                                                                         *)
(* LightRAG and RAG-Anything are external: a LightRAG instance opens       *)
(* storages, a RAGAnything object is bound to one LightRAG.                *)
(***************************************************************************)
EXTENDS Naturals, FiniteSets

CONSTANTS
    Users,          \* query, ingest and compile requests, and worker jobs
    Workspaces,     \* workspace_for_tenant of the tenants
    Runtimes,       \* RAGRuntime objects that may be created
    Instances,      \* LightRAG objects that may be constructed
    None

ASSUME RegistryAssumption == None \notin Users \cup Runtimes \cup Instances \cup Workspaces

VARIABLES
    registry,   \* RAGRuntimeRegistry._runtimes
    runtime,    \* the RAGRuntime objects
    opened,     \* the LightRAG instances whose storages are open
    built,      \* history: the runtime each LightRAG was constructed for
    user,       \* the requests
    shutdown,   \* the shutdown of the process
    abandoned   \* history: instances an initialization that failed has left

vars == <<registry, runtime, opened, built, user, shutdown, abandoned>>

Handles == Instances \cup {None}
RuntimeStates ==
    [workspace: Workspaces \cup {None}, lightrag: Handles, anything: Handles,
     initialized: BOOLEAN, lock: Users \cup {None}]
UserStates == [step: {"new", "initialize", "opening", "attaching", "using", "done", "error"},
               calls: 0..2, runtime: Runtimes \cup {None}]
ShutdownStates == [step: {"running", "next", "finalizing", "done", "error"},
                   left: SUBSET Runtimes, at: Runtimes \cup {None}]

Init ==
    /\ registry = [w \in Workspaces |-> None]
    /\ runtime = [x \in Runtimes |->
          [workspace |-> None, lightrag |-> None, anything |-> None,
           initialized |-> FALSE, lock |-> None]]
    /\ opened = {} /\ abandoned = {}
    /\ built = [i \in Instances |-> None]
    /\ user = [u \in Users |-> [step |-> "new", calls |-> 0, runtime |-> None]]
    /\ shutdown = [step |-> "running", left |-> {}, at |-> None]

----------------------------------------------------------------------------
(* Requests.                                                               *)

At(u, step) == user[u].step = step
Goto(u, step) == user' = [user EXCEPT ![u].step = step]
Mine(u) == user[u].runtime

(* Mutant: a runtime is created for every call. *)
GetCreatesAlways(u, w) ==
    /\ At(u, "new") /\ shutdown.step = "running"
    /\ \E x \in Runtimes :
        /\ runtime[x].workspace = None
        /\ runtime' = [runtime EXCEPT ![x].workspace = w]
        /\ registry' = [registry EXCEPT ![w] = x]
        /\ user' = [user EXCEPT ![u] = [step |-> "initialize", calls |-> 0, runtime |-> x]]
    /\ UNCHANGED <<opened, built, shutdown, abandoned>>

(* RAGRuntimeRegistry.get, up to the call of initialize.  The server stops *)
(* accepting requests, and awaits those it has, before it shuts down.      *)
Get(u, w) ==
    /\ At(u, "new") /\ shutdown.step = "running"
    /\ \E x \in Runtimes :
        /\ \/ registry[w] = x /\ UNCHANGED <<runtime, registry>>
           \/ /\ registry[w] = None /\ runtime[x].workspace = None
              /\ runtime' = [runtime EXCEPT ![x].workspace = w]
              /\ registry' = [registry EXCEPT ![w] = x]
        /\ user' = [user EXCEPT ![u] = [step |-> "initialize", calls |-> 0, runtime |-> x]]
    /\ UNCHANGED <<opened, built, shutdown, abandoned>>

(* initialize is called by get, and again by query and                     *)
(* process_document_complete, which go on to use rag_anything.             *)
Initialized(u) ==
    IF user[u].calls = 0
    THEN [user[u] EXCEPT !.step = "initialize", !.calls = 1]
    ELSE [user[u] EXCEPT !.step = "using", !.calls = 2]

(* async with self._lock: if self._initialized: return *)
AlreadyInitialized(u) ==
    /\ At(u, "initialize") /\ runtime[Mine(u)].lock = None
    /\ runtime[Mine(u)].initialized
    /\ user' = [user EXCEPT ![u] = Initialized(u)]
    /\ UNCHANGED <<registry, runtime, opened, built, shutdown, abandoned>>

(* self.lightrag = LightRAG(...), which drops the instance an earlier      *)
(* attempt left; then initialize_storages is awaited, with the lock held.  *)
ConstructLightRAG(u, i) ==
    /\ At(u, "initialize") /\ runtime[Mine(u)].lock = None
    /\ ~runtime[Mine(u)].initialized
    /\ built[i] = None
    /\ built' = [built EXCEPT ![i] = Mine(u)]
    /\ runtime' = [runtime EXCEPT ![Mine(u)].lightrag = i, ![Mine(u)].lock = u]
    /\ Goto(u, "opening")
    /\ UNCHANGED <<registry, opened, shutdown, abandoned>>

(* Mutant: the runtime counts as initialized before they are. *)
OpenStoragesInitialized(u) ==
    LET x == Mine(u) IN
    /\ At(u, "opening")
    /\ opened' = opened \cup {runtime[x].lightrag}
    /\ runtime' = [runtime EXCEPT ![x].anything = runtime[x].lightrag, ![x].initialized = TRUE]
    /\ Goto(u, "attaching")
    /\ UNCHANGED <<registry, built, shutdown, abandoned>>

(* initialize_storages returned: self.rag_anything is bound to it, and the *)
(* auxiliary caches and _ensure_lightrag_initialized are awaited.          *)
OpenStorages(u) ==
    LET x == Mine(u) IN
    /\ At(u, "opening")
    /\ opened' = opened \cup {runtime[x].lightrag}
    /\ runtime' = [runtime EXCEPT ![x].anything = runtime[x].lightrag]
    /\ Goto(u, "attaching")
    /\ UNCHANGED <<registry, built, shutdown, abandoned>>

FinishInitialize(u) ==
    /\ At(u, "attaching")
    /\ runtime' = [runtime EXCEPT ![Mine(u)].initialized = TRUE, ![Mine(u)].lock = None]
    /\ user' = [user EXCEPT ![u] = Initialized(u)]
    /\ UNCHANGED <<registry, opened, built, shutdown, abandoned>>

(* The packages are missing: nothing was assigned yet. *)
ImportRaises(u) ==
    /\ At(u, "initialize") /\ runtime[Mine(u)].lock = None
    /\ ~runtime[Mine(u)].initialized
    /\ Goto(u, "error")
    /\ UNCHANGED <<registry, runtime, opened, built, shutdown, abandoned>>

(* Mutant: the lock is not released. *)
InitializeRaisesLocked(u) ==
    LET x == Mine(u) IN
    /\ user[u].step \in {"opening", "attaching"}
    /\ \E some \in {{}, {runtime[x].lightrag}} : opened' = opened \cup some
    /\ abandoned' = abandoned \cup {runtime[x].lightrag}
    /\ Goto(u, "error")
    /\ UNCHANGED <<registry, runtime, built, shutdown>>

(* A storage or a cache raises, or the task is cancelled: the lock is      *)
(* released, nothing is undone.  The storages may have opened.             *)
InitializeRaises(u) ==
    LET x == Mine(u) IN
    /\ user[u].step \in {"opening", "attaching"}
    /\ \E some \in {{}, {runtime[x].lightrag}} : opened' = opened \cup some
    /\ runtime' = [runtime EXCEPT ![x].lock = None]
    /\ abandoned' = abandoned \cup {runtime[x].lightrag}
    /\ Goto(u, "error")
    /\ UNCHANGED <<registry, built, shutdown>>

(* aquery or process_document_complete returns, or raises. *)
UseReturns(u) ==
    /\ At(u, "using") /\ Goto(u, "done")
    /\ UNCHANGED <<registry, runtime, opened, built, shutdown, abandoned>>

----------------------------------------------------------------------------
(* Shutdown.                                                               *)

Busy(u) == user[u].step \notin {"new", "done", "error"}

(* RAGRuntimeRegistry.shutdown takes the runtimes and clears the dict. *)
ShutdownBegins ==
    /\ shutdown.step = "running"
    /\ \A u \in Users : ~Busy(u)
    /\ shutdown' = [step |-> "next", left |-> {registry[w] : w \in Workspaces} \ {None}, at |-> None]
    /\ registry' = [w \in Workspaces |-> None]
    /\ UNCHANGED <<runtime, opened, built, user, abandoned>>

(* RAGRuntime.shutdown, one after the other. *)
ShutdownNext ==
    /\ shutdown.step = "next"
    /\ \/ /\ shutdown.left = {}
          /\ shutdown' = [shutdown EXCEPT !.step = "done", !.at = None]
       \/ \E x \in shutdown.left :
            shutdown' = [step |-> "finalizing", left |-> shutdown.left \ {x}, at |-> x]
    /\ UNCHANGED <<registry, runtime, opened, built, user, abandoned>>

(* rag_anything.finalize_storages, or else lightrag.finalize_storages *)
Finalizable(x) == IF runtime[x].anything # None THEN runtime[x].anything ELSE runtime[x].lightrag

(* Mutant: a runtime that is not initialized has nothing to finalize. *)
ShutdownSkipsUninitialized ==
    LET x == shutdown.at IN
    /\ shutdown.step = "finalizing"
    /\ opened' = IF runtime[x].initialized THEN opened \ {Finalizable(x)} ELSE opened
    /\ runtime' = [runtime EXCEPT ![x].anything = None, ![x].lightrag = None, ![x].initialized = FALSE]
    /\ shutdown' = [shutdown EXCEPT !.step = "next", !.at = None]
    /\ UNCHANGED <<registry, built, user, abandoned>>

ShutdownRuntime ==
    LET x == shutdown.at IN
    /\ shutdown.step = "finalizing"
    /\ opened' = opened \ {Finalizable(x)}
    /\ runtime' = [runtime EXCEPT ![x].anything = None, ![x].lightrag = None, ![x].initialized = FALSE]
    /\ shutdown' = [shutdown EXCEPT !.step = "next", !.at = None]
    /\ UNCHANGED <<registry, built, user, abandoned>>

(* finalize_storages raises: the loop of RAGRuntimeRegistry.shutdown ends, *)
(* the runtimes left stay as they are.                                     *)
ShutdownRaises ==
    /\ shutdown.step = "finalizing"
    /\ shutdown' = [shutdown EXCEPT !.step = "error"]
    /\ UNCHANGED <<registry, runtime, opened, built, user, abandoned>>

----------------------------------------------------------------------------
UserNext(u) ==
    \/ \E w \in Workspaces : Get(u, w)
    \/ AlreadyInitialized(u)
    \/ \E i \in Instances : ConstructLightRAG(u, i)
    \/ ImportRaises(u) \/ OpenStorages(u) \/ FinishInitialize(u) \/ InitializeRaises(u)
    \/ UseReturns(u)

ShutdownStep == ShutdownBegins \/ ShutdownNext \/ ShutdownRuntime \/ ShutdownRaises

Next == (\E u \in Users : UserNext(u)) \/ ShutdownStep

Spec == Init /\ [][Next]_vars

(* Awaits return or raise; a lock that is free is taken by one of those    *)
(* that wait for it.                                                       *)
FairSpec == Spec /\ \A u \in Users : WF_vars(Busy(u) /\ UserNext(u))

----------------------------------------------------------------------------
(* Properties.                                                             *)

(* The lock of a runtime is held by the request that initializes it.       *)
TypeOK ==
    /\ registry \in [Workspaces -> Runtimes \cup {None}]
    /\ runtime \in [Runtimes -> RuntimeStates]
    /\ opened \in SUBSET Instances
    /\ built \in [Instances -> Runtimes \cup {None}]
    /\ user \in [Users -> UserStates]
    /\ shutdown \in ShutdownStates
    /\ abandoned \in SUBSET Instances
    /\ \A x \in Runtimes, u \in Users :
          runtime[x].lock = u <=> Mine(u) = x /\ user[u].step \in {"opening", "attaching"}

(* docs/architecture.md: the runtime initializes lazily, one per tenant.   *)
(* However many requests ask for a workspace at the same time, and         *)
(* however many of their initializations fail, they all share one runtime, *)
(* and no two sets of storages of it are in service.                       *)
OneRuntimePerWorkspace ==
    \A x, y \in Runtimes :
        x # y /\ runtime[x].workspace # None => runtime[x].workspace # runtime[y].workspace

(* A runtime is used only after an initialization that succeeded: never    *)
(* the half of one that raised in the request that started it, and never   *)
(* with a RAGAnything of one attempt and a LightRAG of another.            *)
UsedRuntimeIsReady ==
    \A u \in Users : At(u, "using") =>
        LET x == runtime[Mine(u)] IN
        /\ x.initialized /\ x.lightrag = x.anything
        /\ x.anything \in opened \ abandoned

(* Shutdown finalizes the storages of every runtime, also of one whose     *)
(* initialization failed half way.  What it cannot reach are instances of  *)
(* failed attempts that a later attempt replaced, or that replaced one.    *)
ShutdownClosesStorages ==
    shutdown.step = "done" =>
        \A i \in opened : i \in abandoned /\ \E j \in Instances \ {i} : built[j] = built[i]

(* A request that fails or is cancelled during an initialization does not  *)
(* keep the others waiting for the runtime's lock.                         *)
RequestsEnd == \A u \in Users : Busy(u) ~> ~Busy(u)
=============================================================================
