---------------------------- MODULE StrategyLab ----------------------------
(***************************************************************************)
(* The Strategy Lab page (app/portfolio/strategy-lab): it starts a         *)
(* backtest run, an index scan or a symbol sweep on the server and watches *)
(* it with one setInterval per kind until the server says it has ended.    *)
(*                                                                         *)
(* Starting takes two awaited requests, a poll one or two; the user may    *)
(* start or open something else, or leave the page, between any two of     *)
(* them.  A job is abstracted to its kind and its status.                  *)
(***************************************************************************)
EXTENDS Browser

CONSTANTS
  Jobs,
  JobKinds  \* bound: which kinds the jobs may be of, [Jobs -> Kinds]

Kinds == {"run", "scan", "sweep"}

ASSUME JobsAssumption == None \notin Jobs /\ JobKinds \subseteq [Jobs -> Kinds]

VARIABLES
  jobs,      \* the server: kind and status of every job
  starts,    \* handleStart in progress: [job, mount, phase]
  polls,     \* the intervals that are running: [job, mount]
  pollRef,   \* per component and kind: the job of the interval its ref holds
  ticks,     \* poll requests in flight, each sent by such an interval
  loads,     \* runs whose results a component is loading: [job, mount]
  active,    \* per kind: the job on screen
  results    \* the run whose results are on screen

labVars == <<jobs, starts, polls, pollRef, ticks, loads, active, results>>

Statuses == {"none", "active", "completed", "failed"}
Polls == [job : Jobs, mount : Mounts]
Starts == [job : Jobs, mount : Mounts, phase : {"post", "get"}]

Poll(j, m) == [job |-> j, mount |-> m]

LabInit ==
  /\ jobs = [j \in Jobs |-> [kind |-> None, status |-> "none"]]
  /\ starts = {}
  /\ polls = {}
  /\ pollRef = [m \in Mounts |-> [k \in Kinds |-> None]]
  /\ ticks = {}
  /\ loads = {}
  /\ active = [k \in Kinds |-> None]
  /\ results = None

LabOpens ==
  /\ page = "lab"
  /\ Opening
  /\ UNCHANGED labVars

\* The server finishes a job (or gives it up).  Nothing says that it does: a job is
\* a task of one worker, and one lost with the worker stays active.
JobEnds(j, how) ==
  /\ jobs[j].status = "active"
  /\ jobs' = [jobs EXCEPT ![j].status = how]
  /\ UNCHANGED <<starts, polls, pollRef, ticks, loads, active, results, browserVars>>

\* clearInterval(ref.current): stops the interval the component's ref holds.
Held(k, m) == {Poll(j, m) : j \in Jobs \cap {pollRef[m][k]}}

\* Leaving the page clears the interval of each ref; what is in flight goes on.
LabLeaves ==
  /\ page = "lab"
  /\ Closing
  /\ polls' = polls \ UNION {Held(k, mount) : k \in Kinds}
  /\ active' = [k \in Kinds |-> None]
  /\ results' = None
  /\ UNCHANGED <<jobs, starts, pollRef, ticks, loads>>

\* The bound on the kinds allows a job of kind k next.
Allowed(j, k) ==
  \E kind \in JobKinds : kind[j] = k /\ \A i \in Jobs : jobs[i].kind \in {None, kind[i]}

\* handleStart, while the button is not disabled: the POST goes out.
Start(j, k) ==
  /\ page = "lab"
  /\ Clicking
  /\ \A s \in starts : s.mount # mount
  /\ jobs[j].status = "none"
  /\ Allowed(j, k)
  /\ \A s \in starts : s.job # j
  /\ jobs' = [jobs EXCEPT ![j].kind = k]
  /\ starts' = starts \cup {[job |-> j, mount |-> mount, phase |-> "post"]}
  /\ results' = None
  /\ active' = IF k = "run" THEN active ELSE [active EXCEPT ![k] = None]
  /\ UNCHANGED <<polls, pollRef, ticks, loads>>

\* The server has started the job and names it; its record is asked for.
StartPosted(s) ==
  /\ s \in starts
  /\ s.phase = "post"
  /\ jobs' = [jobs EXCEPT ![s.job].status = "active"]
  /\ starts' = (starts \ {s}) \cup {[s EXCEPT !.phase = "get"]}
  /\ UNCHANGED <<polls, pollRef, ticks, loads, active, results, browserVars>>

\* Either request fails, the POST perhaps after the server has started the
\* job: an error text, and nobody watches the job.
StartFails(s) ==
  /\ s \in starts
  /\ Fail
  /\ starts' = starts \ {s}
  /\ \/ UNCHANGED jobs
     \/ s.phase = "post" /\ jobs' = [jobs EXCEPT ![s.job].status = "active"]
  /\ UNCHANGED <<polls, pollRef, ticks, loads, active, results>>

\* Mutant: the interval of the job watched before goes on.
WatchOverwrites(k, j, m) ==
  /\ polls' = polls \cup {Poll(j, m)}
  /\ pollRef' = [pollRef EXCEPT ![m][k] = j]

\* watchRun, watchScan, watchSweep: stop the interval the ref holds, start one
\* for the job.
Watch(k, j, m) ==
  /\ polls' = (polls \ Held(k, m)) \cup {Poll(j, m)}
  /\ pollRef' = [pollRef EXCEPT ![m][k] = j]

\* The record arrives: show it and watch the job, whether or not the page is
\* still open.
StartWatches(s) ==
  /\ s \in starts
  /\ s.phase = "get"
  /\ starts' = starts \ {s}
  /\ active' = IF Alive(s.mount) THEN [active EXCEPT ![jobs[s.job].kind] = s.job] ELSE active
  /\ Watch(jobs[s.job].kind, s.job, s.mount)
  /\ UNCHANGED <<jobs, ticks, loads, results, browserVars>>

\* The list of past jobs may have been read before the job ended.
StatusListed(j) == {jobs[j].status, "active"}

\* openPastRun, openPastScan, by the status in the list: show it; watch it while
\* it is active, load the results of a completed run.
OpenPast(j, status) ==
  /\ page = "lab"
  /\ Clicking
  /\ jobs[j].status # "none"
  /\ jobs[j].kind \in {"run", "scan"}
  /\ status \in StatusListed(j)
  /\ active' = [active EXCEPT ![jobs[j].kind] = j]
  /\ IF status = "active"
       THEN Watch(jobs[j].kind, j, mount)
       ELSE UNCHANGED <<polls, pollRef>>
  /\ IF jobs[j].kind = "run" /\ status = "completed"
       THEN loads' = loads \cup {Poll(j, mount)}
       ELSE UNCHANGED loads
  /\ results' = IF jobs[j].kind = "run" /\ status # "completed" THEN None ELSE results
  /\ UNCHANGED <<jobs, starts, ticks>>

\* The interval fires.
PollTick(p) ==
  /\ p \in polls \ ticks
  /\ ticks' = ticks \cup {p}
  /\ UNCHANGED <<jobs, starts, polls, pollRef, loads, active, results, browserVars>>

\* Mutant: only a completed job stops the interval.
EndedOnlyIfCompleted(j) == jobs[j].status = "completed"

\* !ACTIVE_STATUSES.has(status)
Ended(j) == jobs[j].status # "active"

\* A poll of a run is answered: show the run; once it has ended, stop the
\* interval the ref holds by now, and load the results if it completed.
RunPolled(p) ==
  /\ p \in ticks
  /\ jobs[p.job].kind = "run"
  /\ ticks' = ticks \ {p}
  /\ active' = IF Alive(p.mount) THEN [active EXCEPT !["run"] = p.job] ELSE active
  /\ polls' = IF Ended(p.job) THEN polls \ Held("run", p.mount) ELSE polls
  /\ loads' = IF jobs[p.job].status = "completed"
                THEN loads \cup {p} ELSE loads
  /\ UNCHANGED <<jobs, starts, pollRef, results, browserVars>>

\* A poll of an index scan is answered.
ScanPolled(p) ==
  /\ p \in ticks
  /\ jobs[p.job].kind = "scan"
  /\ ticks' = ticks \ {p}
  /\ active' = IF Alive(p.mount) THEN [active EXCEPT !["scan"] = p.job] ELSE active
  /\ polls' = IF Ended(p.job) THEN polls \ Held("scan", p.mount) ELSE polls
  /\ UNCHANGED <<jobs, starts, pollRef, loads, results, browserVars>>

\* A poll of a symbol sweep is answered.
SweepPolled(p) ==
  /\ p \in ticks
  /\ jobs[p.job].kind = "sweep"
  /\ ticks' = ticks \ {p}
  /\ active' = IF Alive(p.mount) THEN [active EXCEPT !["sweep"] = p.job] ELSE active
  /\ polls' = IF Ended(p.job) THEN polls \ Held("sweep", p.mount) ELSE polls
  /\ UNCHANGED <<jobs, starts, pollRef, loads, results, browserVars>>

\* The poll fails: the interval tries again.
PollFails(p) ==
  /\ p \in ticks
  /\ Fail
  /\ ticks' = ticks \ {p}
  /\ UNCHANGED <<jobs, starts, polls, pollRef, loads, active, results>>

\* The results of a run arrive, whatever run is on screen by now.
ResultsArrive(l) ==
  /\ l \in loads
  /\ loads' = loads \ {l}
  /\ results' = IF Alive(l.mount) THEN l.job ELSE results
  /\ UNCHANGED <<jobs, starts, polls, pollRef, ticks, active, browserVars>>

\* They do not, and nothing asks again: the interval is gone.
ResultsFail(l) ==
  /\ l \in loads
  /\ Fail
  /\ loads' = loads \ {l}
  /\ UNCHANGED <<jobs, starts, polls, pollRef, ticks, active, results>>

LabNext ==
  \/ LabOpens \/ LabLeaves
  \/ \E j \in Jobs :
       \/ JobEnds(j, "completed") \/ JobEnds(j, "failed")
       \/ \E status \in Statuses : OpenPast(j, status)
       \/ \E k \in Kinds : Start(j, k)
  \/ \E s \in Starts : StartPosted(s) \/ StartWatches(s) \/ StartFails(s)
  \/ \E p \in Polls :
       PollTick(p) \/ RunPolled(p) \/ ScanPolled(p) \/ SweepPolled(p) \/ PollFails(p)
  \/ \E l \in Polls : ResultsArrive(l) \/ ResultsFail(l)

PollAnswered(p) == RunPolled(p) \/ ScanPolled(p) \/ SweepPolled(p) \/ PollFails(p)

\* Intervals fire, and polls are answered or fail.
LabFairness ==
  \A p \in Polls :
     /\ WF_<<labVars, browserVars>>(PollTick(p))
     /\ WF_<<labVars, browserVars>>(PollAnswered(p))

LabTypeOK ==
  /\ jobs \in [Jobs -> [kind : Kinds \cup {None}, status : Statuses]]
  /\ starts \subseteq Starts
  /\ polls \subseteq Polls
  /\ pollRef \in [Mounts -> [Kinds -> Jobs \cup {None}]]
  /\ ticks \subseteq Polls
  /\ loads \subseteq Polls
  /\ active \in [Kinds -> Jobs \cup {None}]
  /\ results \in Jobs \cup {None}

(***************************************************************************)
(* Properties.                                                             *)
(***************************************************************************)

\* However starting, opening past runs and late answers interleave, a component
\* never has two intervals of one kind running, and the one it has is the one
\* its ref can stop.
OnePollPerKind == \A p \in polls : pollRef[p.mount][jobs[p.job].kind] = p.job

\* An interval whose job has ended is stopped, be it one opened by a status that
\* was out of date, replaced, or left behind by a page that closed while
\* handleStart was waiting: time and again there is none.
PollsStop ==
  [](expired = {}) => []<>(\A p \in polls : jobs[p.job].status = "active")
=============================================================================
