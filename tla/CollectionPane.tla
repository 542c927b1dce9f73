--------------------------- MODULE CollectionPane ---------------------------
(***************************************************************************)
(* components/layout/collection-pane.tsx: the pane of a collection or a    *)
(* folder, its Runs tab, and store/runs.ts.                                *)
(*                                                                         *)
(* One pane is mounted for as long as the active tab is on a collection or *)
(* a folder, whichever it is; it goes when another kind of tab is shown,   *)
(* and the next one knows nothing of the requests and streams of the last. *)
(* RunPane follows one run in full detail; here are many runs and tabs,    *)
(* and a stream delivers events, which are only counted, until it ends or  *)
(* is closed.                                                              *)
(***************************************************************************)
EXTENDS Naturals, FiniteSets

CONSTANTS
  Null,
  PaneTabs, OtherTabs,  \* tabs on collections and folders, and other ones
  ScopeOf,              \* the collection, and the folder if any, of a tab
  Environments,
  Runs,                 \* ids the agent gives, numbers in the order of the runs
  MaxPaneActs, MaxEvents    \* bounds: acts of the user, events of a run

RunRecords ==
  [scope : {ScopeOf[t] : t \in PaneTabs}, status : {"running", "done", "error"}, events : Nat]

ASSUME PaneTabsAssumption == Runs \subseteq Nat /\ Null \notin Runs /\ Null \notin RunRecords

VARIABLES
  paneTabId,
  subTab, runOptions, runSelectedRunId,   \* of each pane tab
  environment,      \* the one that is active
  pane,             \* which mounting of the pane this is, 0 when none is mounted
  mounted,          \* how many there were
  isStarting,       \* of the mounted pane
  handler,          \* the environment its handleRun will use
  due,              \* the effect of the Runs tab is to run
  starts,           \* the runs that were asked for and not answered
  runs,             \* the store: the runs by their ids
  activeRunId,
  streams,          \* which pane opened each open stream: run -> pane
  paneActs

paneTabVars == <<paneTabId, subTab, runOptions, runSelectedRunId>>
mountVars == <<pane, mounted, isStarting, handler>>
runVars == <<runs, activeRunId, streams>>
paneVars == <<paneTabVars, environment, mountVars, due, starts, runVars, paneActs>>

Started == {r \in Runs : runs[r] # Null}

(***************************************************************************)
(* The runs store.                                                         *)
(***************************************************************************)
StartRun(r, scope) ==
  /\ runs' = [runs EXCEPT ![r] = [scope |-> scope, status |-> "running", events |-> 0]]
  /\ activeRunId' = r
AppendEvent(r) == runs' = [runs EXCEPT ![r].events = @ + 1]
FinishRun(r) == runs' = [runs EXCEPT ![r].status = "done"]
FailRun(r) == runs' = [runs EXCEPT ![r].status = "error"]

(***************************************************************************)
(* RunsTab.                                                                *)
(***************************************************************************)
OnPane == paneTabId \in PaneTabs
PaneScope == ScopeOf[paneTabId]
CollectionRuns(t) == {r \in Started : runs[r].scope = ScopeOf[t]}
Latest(s) == CHOOSE r \in s : \A other \in s : other <= r

DisplayRun(t) ==
  IF runSelectedRunId[t] # Null THEN runSelectedRunId[t]
  ELSE IF CollectionRuns(t) # {} THEN Latest(CollectionRuns(t)) ELSE Null

RunsTab == OnPane /\ subTab[paneTabId] = "runs"
RunsTabNext == paneTabId' \in PaneTabs /\ subTab'[paneTabId'] = "runs"
ActiveRunIsOwn == activeRunId # Null /\ runs[activeRunId].scope = PaneScope
IsRunning == ActiveRunIsOwn /\ runs[activeRunId].status = "running"
Retry == LET r == DisplayRun(paneTabId) IN r # Null /\ runs[r].status = "error"

(* The effect has to run when the Runs tab appears, or when the active     *)
(* run, the collection, the folder or any run has changed under it.        *)
EffectDue == due' = (RunsTabNext /\ (~RunsTab \/ ScopeOf[paneTabId'] # PaneScope \/ runs' # runs))

(* Mutant: the folder is not compared.                                     *)
AutoSelectCollection ==
  /\ due /\ due' = FALSE
  /\ runSelectedRunId' =
       IF activeRunId # Null /\ runs[activeRunId].scope[1] = PaneScope[1]
       THEN [runSelectedRunId EXCEPT ![paneTabId] = activeRunId] ELSE runSelectedRunId
  /\ UNCHANGED <<paneTabId, subTab, runOptions, environment, mountVars, starts, runVars>>

AutoSelect ==
  /\ due /\ due' = FALSE
  /\ runSelectedRunId' =
       IF ActiveRunIsOwn THEN [runSelectedRunId EXCEPT ![paneTabId] = activeRunId] ELSE runSelectedRunId
  /\ UNCHANGED <<paneTabId, subTab, runOptions, environment, mountVars, starts, runVars>>

(***************************************************************************)
(* The pane.  handleRun is kept from render to render until something it   *)
(* depends on changes, and the variables are not among these; but the      *)
(* options are, and a tab without options makes new ones in every render.  *)
(***************************************************************************)
NewHandler == handler' = environment

KeepHandler(active) == handler' = IF runOptions[paneTabId] = Null THEN active ELSE handler

Mount == pane' = mounted + 1 /\ mounted' = mounted + 1 /\ isStarting' = FALSE /\ NewHandler
(* It closes the stream it opened last: there is no other.                 *)
Unmount ==
  /\ pane' = 0 /\ UNCHANGED mounted /\ isStarting' = FALSE /\ handler' = Null
  /\ streams' = [r \in {s \in DOMAIN streams : streams[s] # pane} |-> streams[r]]

ShowPaneTab(t) ==
  /\ t # paneTabId /\ paneTabId' = t
  /\ CASE ~OnPane /\ t \in PaneTabs -> Mount /\ UNCHANGED streams
       [] OnPane /\ t \notin PaneTabs -> Unmount
       [] OnPane /\ t \in PaneTabs -> NewHandler /\ UNCHANGED <<pane, mounted, isStarting, streams>>
       [] OTHER -> UNCHANGED <<mountVars, streams>>
  /\ UNCHANGED <<subTab, runOptions, runSelectedRunId, environment, starts, runs, activeRunId>>

SetTabCollectionSubTab ==
  /\ OnPane
  /\ \E s \in {"other", "runs"} \ {subTab[paneTabId]} : subTab' = [subTab EXCEPT ![paneTabId] = s]
  /\ KeepHandler(environment)
  /\ UNCHANGED <<paneTabId, runOptions, runSelectedRunId, environment, pane, mounted, isStarting,
                 starts, runVars>>

(* A variable, a script or the authorization of the collection is edited:  *)
(* the collection is another object.                                       *)
EditCollection ==
  /\ OnPane /\ subTab[paneTabId] = "other" /\ handler' = environment
  /\ UNCHANGED <<paneTabVars, environment, pane, mounted, isStarting, starts, runVars>>

OnOptsChange ==
  /\ RunsTab /\ ~IsRunning
  /\ runOptions' = [runOptions EXCEPT ![paneTabId] = "set"] /\ NewHandler
  /\ UNCHANGED <<paneTabId, subTab, runSelectedRunId, environment, pane, mounted, isStarting,
                 starts, runVars>>

SelectRun(r) ==
  /\ RunsTab /\ r \in CollectionRuns(paneTabId) /\ Cardinality(CollectionRuns(paneTabId)) > 1
  /\ runSelectedRunId' = [runSelectedRunId EXCEPT ![paneTabId] = r] /\ KeepHandler(environment)
  /\ UNCHANGED <<paneTabId, subTab, runOptions, environment, pane, mounted, isStarting, starts, runVars>>

(* In the header; or a variable of the environment changes: it is another. *)
SetActiveEnvironment(e) ==
  /\ e # environment /\ environment' = e
  /\ IF OnPane THEN KeepHandler(e) ELSE UNCHANGED handler
  /\ UNCHANGED <<paneTabVars, pane, mounted, isStarting, starts, runVars>>

HandleRun ==
  /\ RunsTab /\ ~isStarting /\ (~IsRunning \/ Retry)
  /\ isStarting' = TRUE
  /\ starts' = starts \cup {[scope |-> PaneScope, environment |-> handler, pane |-> pane]}
  /\ NewHandler
  /\ UNCHANGED <<paneTabVars, environment, pane, mounted, runVars>>

(* finally: the pane that asked may not be mounted any more.               *)
StartEnds(p) ==
  /\ starts' = starts \ {p}
  /\ IF p.pane = pane THEN isStarting' = FALSE /\ NewHandler ELSE UNCHANGED <<isStarting, handler>>
  /\ UNCHANGED <<paneTabVars, environment, pane, mounted>>

(* The pane closes the stream of its run before and opens one; it does so  *)
(* even when it is not mounted any more.                                   *)
Stream(p, r) ==
  [s \in {t \in DOMAIN streams : streams[t] # p.pane} \cup {r} |->
     IF s = r THEN p.pane ELSE streams[s]]

RunAnswered(p) ==
  /\ Runs \ Started # {}
  /\ LET r == CHOOSE r \in Runs \ Started : \A other \in Runs \ Started : r <= other IN
     StartRun(r, p.scope) /\ streams' = Stream(p, r)
  /\ StartEnds(p)

NotStarted(p) == StartEnds(p) /\ UNCHANGED runVars

(* What an open stream brings.                                             *)
OnEvent(r) ==
  /\ r \in DOMAIN streams /\ runs[r].events < MaxEvents /\ AppendEvent(r)
  /\ UNCHANGED <<paneTabVars, environment, mountVars, starts, activeRunId, streams>>

OnEnd(r) ==
  /\ r \in DOMAIN streams /\ (FinishRun(r) \/ FailRun(r))
  /\ streams' = [s \in DOMAIN streams \ {r} |-> streams[s]]
  /\ UNCHANGED <<paneTabVars, environment, mountVars, starts, activeRunId>>

PaneUserAct ==
  \/ \E t \in PaneTabs \cup OtherTabs : ShowPaneTab(t)
  \/ SetTabCollectionSubTab \/ EditCollection \/ OnOptsChange \/ HandleRun
  \/ \E r \in Runs : SelectRun(r)
  \/ \E e \in Environments : SetActiveEnvironment(e)

(* What comes from the agent; each renders the pane.                       *)
Agent ==
  \/ \E p \in starts : RunAnswered(p) \/ NotStarted(p)
  \/ \E r \in Runs : OnEvent(r) \/ OnEnd(r)

(* An effect runs before whatever is next.                                 *)
PaneNext ==
  \/ AutoSelect /\ UNCHANGED paneActs
  \/ ~due /\ PaneUserAct /\ EffectDue /\ paneActs < MaxPaneActs /\ paneActs' = paneActs + 1
  \/ ~due /\ Agent /\ EffectDue /\ UNCHANGED paneActs

PaneInit ==
  /\ paneTabId \in PaneTabs /\ environment \in Environments
  /\ subTab = [t \in PaneTabs |-> "runs"] /\ runOptions \in [PaneTabs -> {Null, "set"}]
  /\ runSelectedRunId = [t \in PaneTabs |-> Null]
  /\ pane = 1 /\ mounted = 1 /\ isStarting = FALSE /\ handler = environment /\ due = FALSE
  /\ starts = {} /\ runs = [r \in Runs |-> Null] /\ activeRunId = Null /\ streams = <<>> /\ paneActs = 0

PaneSpec == PaneInit /\ [][PaneNext]_paneVars
-----------------------------------------------------------------------------
(***************************************************************************)
(* A tab shows runs of its own collection and folder only, whatever was    *)
(* started, selected or shown elsewhere before.                            *)
(***************************************************************************)
DisplayedRunIsOwn ==
  \A t \in PaneTabs :
    LET r == DisplayRun(t) IN r # Null => r \in Started /\ runs[r].scope = ScopeOf[t]

(***************************************************************************)
(* Every run is started with the environment that is active at the click   *)
(* (collection-pane.test.tsx, passes resolved variables to the run API).   *)
(***************************************************************************)
PassesResolvedVariables == [][\A p \in starts' \ starts : p.environment = environment]_paneVars

=============================================================================
