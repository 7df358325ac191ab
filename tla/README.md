# TLA+ model of the PBS Pro server failover protocol

This directory holds TLC-checked models of the two parts of this repository.
The first is `src/src/server/failover.c`, the protocol between a primary and a
secondary PBS server. The second is the client submit path,
`src/src/lib/Libifl/pbsD_submit.c`. The two parts do not interact, so each
has its own module.

## The system

There are two server processes on two hosts. They share two files under
`PBS_HOME/server_priv`:

* `svrlive`: its mtime is the liveness signal. The serving server touches
  it every `HANDSHAKE_TIME` (`primary_handshake`, `secondary_handshake`).
* `secondary_active`: the marker. The secondary creates it when it becomes
  active, and unlinks it when the primary comes back (`PrimIsBack`).

They also talk over TCP with `PBS_BATCH_FailOver` requests.

The primary:

* accepts one `Register` (a second one gets busy);
* sends `HandShake` every tick;
* stats the marker on each tick while a secondary is registered;
* when it shuts down, sends `SecdShutdown`, `SecdGoInactive` or
  `SecdTakeOver` (`failover_send_shutdown`);
* when it starts and finds the marker, reclaims the service from the active
  secondary (`takeover_from_secondary`).

The standby secondary runs the `be_secondary` loop over the states noconn,
conn, regsent, handsk, nohsk, takeov, inact and idle. The state also changes
in the read callbacks `read_reg_reply` and `read_fo_request`, which run inside
`wait_request`. Before it becomes active, the secondary fences the primary
with the stonith script.

## Modules

| module | models |
|---|---|
| `Failover.tla` | The whole protocol: both servers, the two files and the connections. |
| `MCFailover.tla` | The TLC instances. It holds the clock bound `MaxTime` (a state constraint for the safety runs), the value -1 for `SecondaryDelay`, and `LiveSpec`, where the clock stops at `MaxTime` inside the specification, for the liveness run. |
| `MCFailoverCrash.tla` | The instance for the `crash` liveness run, `CrashSpec`. The primary may serve until `CrashBy` and then stops for good. The clock is urgent: it ticks only while the standby sleeps in `wait_request`, at most once per `wait_request(1)`, and an auxiliary variable `ticked` records that. |
| `FailoverRoles.tla` | The abstract promise of the protocol. It tracks only which servers serve and whether the marker exists. |
| `PbsSubmit.tla` | `pbs_submit` and `pbs_submit_with_cred` called by several client threads on one connection (see "Client submission" below). |
| `MCPbsSubmit.tla` | The TLC instance: two threads, with per-thread call budgets. |

### State

* **Primary:**
  * `pState`: down, up, shutdown_wait (`SV_STATE_PRIMDLY`) or reclaim_wait (`goidle_ack` set);
  * `Secondary_connection`: a connection, -1 or -2;
  * `pNextTick`: the work task of `primary_handshake`;
  * `pConn`: the socket of `takeover_from_secondary`.
* **Files:** `svrlive` (the mtime) and `marker`.
* **Secondary:**
  * `sRole`: standby, active, quiescing, or exited with code 0 or 1;
  * the statics and locals of `be_secondary`: `Secondary_state`, `sec_sock`, `hd_time`, `mytime`, `sbtime`, `sbloop`, `loop` (as `loop % 3`) and `takeov_on_nocontact`;
  * `secFunc`: the read callback of `sec_sock`;
  * `sPc`: where the process is. "loop" is the top of the loop, "wait" is the `wait_request(1)` that ends an iteration, "fo_wait"/"fo_ret" are the nested `wait_request(600)` in `req_failover`, "inact_wait"/"inact_ret" the `wait_request(600)` of the inact case, and "inact_fo_wait"/"inact_fo_ret" a `req_failover` wait nested inside that one;
  * `sNextTick`: the work task of `secondary_handshake`;
  * `savedReq`: `saved_takeover_req`.
* **Network:** `conns`. Each connection has, per side, an open flag and the
  FIFO queue of messages addressed to that side, plus a `broken` flag.
* **Clock:** `now`, one clock for both hosts.

### Actions

There is one action per handler or loop case, and each is named after its C
function. Each action models the whole handler, error exits included:

* `primary_handshake`: the `svrlive` touch, which may fail; the send, whose
  failure gives -2; and the marker stat, which recycles the process.
* `be_secondary_*`: one action per case of the `be_secondary` switch.
  `NohskStatOk` and `NohskStatFails` are the two branches of the `stat`.
* `be_secondary_takeov`: the last dial, then the three stonith outcomes:
  * absent or ok: the primary is killed if the script is installed;
  * failed: the primary may or may not have been killed.
* `read_reg_reply` and `read_fo_request`: the callbacks. `read_fo_request`
  includes `req_failover`.
* `be_secondary_inact` and `be_secondary_inact_done`: the inact case in
  two steps. The first enters its `wait_request(600)`, in which one
  callback of `sec_sock` may run; the second, once that wait returns,
  closes `sec_sock` and sets idle (lines 1298-1301), whatever the callback
  did.
* `req_failover_takeover_return`: the end of the nested wait after
  `SecdTakeOver`. Control returns to the wait the callback ran in.

The environment has three actions:

* `Tick` advances the clock.
* `ConnectionBreak` breaks a healthy connection. Both ends then read EOF or
  an error.
* `primary_crash` ends the serving primary.
* `secondary_crash` ends the secondary process in any role, when the
  constant `SecondaryMayCrash` is TRUE. It is TRUE in the fenced and live
  runs only. Its sockets close and a marker it wrote stays.

Any write to a peer that is gone may succeed (the data is lost) or fail.

**Modelled from the spec**, because the code lives in `pbsd_main` or in other
server code outside this repository:

* `primary_start`, `PrimaryGone`, `shutdown_deadline`;
* `ack_saved_takeover_req`: the active secondary quiesces, acknowledges, and
  restarts as a fresh standby.

**Not modelled:**

* allocation failures (`alloc_br`);
* the "ok reply without text" and `PBSE_UNKREQ` paths of `read_reg_reply`.
  The primary of this code always replies with text; the first path exits
  already at line 665, so `UNKREQ` is dead code;
* the `sleep()` calls, because any process may be slow anyway;
* the fork, exec and output capture of the stonith script.

## Refinement

`FailoverRoles` has two variables: `serving`, a subset of {primary, secondary},
and `marker`. It has five actions:

* `PrimaryStart`: allowed only when there is no marker;
* `PrimaryStop`;
* `SecondaryTakeOver`: the primary is out of service from that step on, and
  the marker is written;
* `SecondaryYield`: the marker is removed;
* `SecondaryStop`: the active secondary crashes and its marker stays.

It implies at most one serving server, and a marker whenever the
secondary serves. `Failover` maps onto it:

* `serving`: the primary if `PrimaryListening` (up or in the shutdown wait),
  plus the secondary if `sRole = "active"`;
* `marker`: mapped to itself.

`ImplementsFailoverRoles == Roles!Spec` is checked in the fenced run and
holds there. It does not hold without stonith, which is why the unfenced run
does not check it. Without stonith the code lets the secondary become active
while a primary that lost its connection still serves (see the stepdown run).
It also fails when the marker write may fail (see the marker run).
The fenced run lets the secondary crash (`SecondaryMayCrash = TRUE`).

## Client submission (`PbsSubmit.tla`)

`pbs_submit` sends four requests in a row on a connection: `QueueJob`, then
`JobScript` if there is a script, then `JobCred` if the thread context holds
a credential, then `Commit`. `JobScript` and `JobCred` carry no job id. The
server (whose code is not in this repository) attaches them to the job last
queued on the connection; only `Commit` names the job. The connection mutex
keeps one thread's sequence together. `pbs_submit_with_cred` locks the
connection, puts the credential in the thread context (`th_cred_info`), calls
`pbs_submit` (which locks again, so the mutex is recursive), clears the
credential and unlocks.

**State:**

* per thread:
  * `pc`: the program point, one per step below;
  * `calls`;
  * `api`: plain or cred;
  * `hasScript`;
  * `ctxInit`;
  * `credInfo`: none (`th_cred_info` NULL), empty, or set;
  * `jobid`: `return_jobid`;
  * `result`;
  * `commitOk`;
* the mutex: `lockOwner` and `lockDepth`;
* the server:
  * `jobs`: id -> the call that queued it, the calls whose script or credential reached it, and whether it is committed;
  * `nextJob`;
  * `newJob`: the connection's most recent uncommitted job.

**Actions:** one per step of the code, each named after it.

| action | lines | what the step does |
|---|---|---|
| `pbs_submit_with_cred_lock` | 93-99 | context init, then lock |
| `pbs_submit_with_cred_setcred` | 101-126 | malloc of `th_cred_info`, then copy the credential |
| `pbs_submit_with_cred_return` | 128-136 | clear the credential, then unlock |
| `pbs_submit_verify` | 163-178 | |
| `pbs_submit_lock` | 180-183 | |
| `pbs_submit_queuejob` | 185-204 | `access` check, then `PBSD_queuejob` |
| `pbs_submit_jscript` | 206-216 | |
| `pbs_submit_jcred` | 221-231 | |
| `pbs_submit_commit` | 233-234 | |
| `pbs_submit_unlock` | 236-240 | |
| `pbs_submit_error` | 241-243 | |

Every local failure is a nondeterministic choice where the code tests for
it. Each `PBSD_*` request ends in one of three ways:

* `ok`;
* `lost_request`: the server never acted;
* `lost_reply`: the server acted, but the client sees an error.

A lock attempt may fail only once the mutex is free for the thread. The model
assumes that `pbs_client_thread_unlock_connection` releases the mutex even
when it reports failure.

**Not modelled:** a NULL `pbs_client_thread_get_context_data` after a
successful init (lines 103 and 169).

**Fairness:** weak fairness of each thread's steps (`WF_vars(Step(t))`). The
threads are OS threads, and a thread that can run eventually does. A thread
blocked on the mutex is not enabled, so this fairness does not assume that the
mutex is ever released. `EveryCallReturns` therefore shows that every path
releases it. The step `Finished` lets the system stop once every thread has
made its calls, so deadlock checking stays on.

**Bounds:** two threads, `t1` with two calls and `t2` with one. This covers:

* `t2` interleaving with `t1`;
* a plain call of `t1` after its cred call, which would see a stale credential;
* a thread that re-enters the mutex.

## Runs

| run | cfg | expect | shows |
|---|---|---|---|
| fenced | `MCFailover_fenced.cfg` | pass | With stonith installed: no split brain (`NoDualActive`); the secondary may crash; the marker exists while the secondary is active, and outlives that role only through a crash; a registration never names a live connection the secondary abandoned; takeover in nohsk only after strictly more than `secondary_delay` of stagnant `svrlive`; the model refines `FailoverRoles`. |
| unfenced | `MCFailover_unfenced.cfg` | pass | The same invariants with no stonith and `secondary_delay` -1. This covers the recycle of a registered primary and the zero-grace edge. |
| rejected | `MCFailover_rejected.cfg` | violation | `read_reg_reply` exits(1) when the primary goes away before REGISTER is sent; the spec says NOCONN. |
| handoff | `MCFailover_handoff.cfg` | violation | After `SecdTakeOver`, the nested `wait_request(600)` reads the primary's EOF, and the secondary resumes in NOHSK, not TAKEOV. |
| stepdown | `MCFailover_stepdown.cfg` | violation | A primary with no registered secondary never stats the marker and keeps serving beside the active secondary. |
| live | `MCFailover_live.cfg` | pass | With the primary down throughout, a standby that is not idle eventually leaves the standby role (`StandbyTakesOver`, under the fairness below): it goes active, or it exits, with 0 or with 1. |
| crash | `MCFailoverCrash.cfg` | pass | The primary serves, registers the standby and handshakes, then stops for good by time 2. From every state it can then be in, a standby that is not idle eventually leaves the standby role (`StandbyTakesOver`), through NOHSK or NOCONN to the active role, or by exit(0) or exit(1). |
| marker | `MCFailover_marker.cfg` | violation | With `MarkerWriteMayFail = TRUE`, a failed `fopen(secondary_active)` still makes the secondary active, with no marker to record it (`MarkerMeansSecondaryActive`). A primary that starts then would find no marker and serve beside it; that start-up is in `pbsd_main` and is not checked here. The other Failover runs set the constant to FALSE, so the marker write always succeeds there. |
| passive | `MCFailover_passive.cfg` | violation | After `SecdGoInactive` the secondary should remain inactive. Once INACT has turned into IDLE, a failed `wait_request(1)` at the end of an iteration (line 1306) moves it to NOCONN (`PassiveUntilPrimaryReturns`). There it takes over by the deadline fixed at start-up. What a callback does inside INACT's own `wait_request(600)` is not judged, because line 1301 sets IDLE after it. |
| pbssubmit | `MCPbsSubmit.cfg` | pass | Every request may fail. No job gets another call's script or credential (`ScriptFromOwnCall`, `CredFromOwnCall`). A returned job id names a committed job of the same call (`ReturnedJobCommitted`). Every call returns (`EveryCallReturns`, under the fairness below). |
| submit_unlock | `MCPbsSubmit_unlock.cfg` | violation | After a successful `PBSD_commit`, a failed unlock makes `pbs_submit` return NULL for a job the server runs. This contradicts `@retval jobid success`. The job id string also leaks. |

Each property of a passing run has a mutant in `Failover.tla`, defined just
before the action it replaces:

* the stonith result ignored: breaks `NoDualActive`;
* the marker unlink left out: breaks `MarkerMeansSecondaryActive`;
* the old socket not closed before the redial: breaks `RegistrationNotStale`;
* `>=` for `>`: breaks `TakeoverOnlyAfterStagnantLiveness`;
* `sec_sock` reset to 0 at the end of inact: breaks `TypeOK`;
* the stonith result ignored: also breaks `ImplementsFailoverRoles`;
* noconn never moving to takeov: breaks `StandbyTakesOver` in the live run;
* `mytime` set on every successful stat of `svrlive`, not only when its mtime changed: breaks `StandbyTakesOver` in the crash run.
  The variant `>=` for `>` in the mtime test does not break it: `sbloop` then exceeds 4, and the standby goes back to NOCONN and takes over by the absolute deadline.

`PbsSubmit.tla` has five mutants:

* `pbs_submit` not locking: breaks `ScriptFromOwnCall`;
* the credential not cleared after the call: breaks `CredFromOwnCall`;
* the error path not unlocking: breaks `EveryCallReturns`;
* the success path unlocking twice: breaks `TypeOK`;
* the result of `PBSD_commit` not tested: breaks `ReturnedJobCommitted`.

## Bounds

* `HANDSHAKE_TIME = 1`. `NO_CONTACT_WAIT = 1` stands for the 300 s of
  `takeov_on_nocontact`.
* `MaxTime = 4`. A registration at time 1 reaches nohsk at time 3. A
  stagnant `svrlive` then triggers takeover at time 4. The no-contact
  deadline passes at time 4.
* `MaxConn = 2` connections per behaviour. This gives one reconnection of
  the secondary, or one connection plus the reclaim connection of a
  restarted primary: enough for a stale registration and for a stale
  `SecdTakeOver`.

* Crash run: `MaxTime = 7`, `CrashBy = 2`, `SecondaryDelay = 1`. A
  registration at time 1 and a crash by time 2 leave every deadline that
  follows, in nohsk and in noconn, before the horizon. `MaxTime = 8` with `CrashBy = 3` was also checked (378k
  states, no violation).

Larger values (`MaxTime = 5`, `MaxConn = 3`, `NO_CONTACT_WAIT = 2`) were checked for the fenced
configuration (20M states, no violation), but they take too long for routine
runs.

## Fairness

`PbsSubmit` assumes weak fairness of each thread (see "Client submission").

`Failover`'s safety runs assume no fairness. The `live` run
(`MCFailover_live.cfg`, specification `LiveSpec` in `MCFailover.tla`) checks
`StandbyTakesOver`: once the primary is down for good, a standby that is not
idle eventually leaves the standby role. It assumes:

* weak fairness of `StandbyStep`, the be_secondary process (loop, `wait_request`, callbacks).
  A running single-threaded process eventually takes its next step;
* strong fairness of `WaitReturns`: `wait_request(1)` does not fail every
  time. An error at line 1306 resets the secondary to noconn. In the takeov
  case it does so before the takeover runs, and an error on every pass
  would keep the secondary there forever;
* weak fairness of the clock up to `MaxTime = 6`. At that horizon the clock
  stands still (`TimeHorizon`) and the processes go on. No state
  constraint is used, because a constraint would cut the behaviours short.

The primary is down from the start, so the only deadline involved is the
absolute `time_now > takeov_on_nocontact`. Once true at the horizon, that
test stays true at every later time. There is no stonith script in this
run, because a hook that always fails is retried forever (failover.c:1269).

The `crash` run (`MCFailoverCrash.cfg`, `CrashSpec`) covers the NOHSK path.
The primary may serve, register the standby and handshake until
`CrashBy = 2`. It then stops for good, by a crash, the shutdown deadline or
the reclaim timeout. That exit is weakly fair. The NOHSK deadline
`mytime + secondary_delay` is relative to a time the secondary records. A
mytime recorded at the horizon would never expire, so the clock is urgent
in this run:

* it advances only while the standby sleeps in `wait_request` with nothing
  to read, because `wait_request` returns as soon as a socket is readable;
* it advances at most once per `wait_request(1)`, whose one-second timeout
  is below one tick (5 s);
* it is strongly fair, because urgency enables it only now and then.

One pass of the loop is therefore taken to last less than a tick. Some
passes of the code are longer: the `sleep(10)` after a failed connect in
noconn, and the 8 s alarm of the reconnect in nohsk. Such passes only delay
the standby, and a deadline that has passed stays passed. With
`MaxTime = 7`, the last touch of `svrlive` is seen by time 3, and every
deadline that follows falls before the horizon. The fair actions are taken
together with the run's limits (`CrashLimits`), so no behaviour counts as
unfair for not taking a step that the limits forbid.

## Not modelled

* The restart of a crashed secondary, and the start-up decisions of both
  servers. They live in `pbsd_main`, which is not in this repository. The
  primary's start-up and exit are modelled from the spec, with the marker
  as the only guard of start-up; the monitoring of `svrlive` that the
  comment at failover.c:251-254 describes for start-up is not modelled.
* What `pbsd_main` does when `takeover_from_secondary` returns 0 after a
  failed connect (failover.c:977-978). The spec (section 4.3) makes it
  fatal; the model takes no step, so no property about a primary that
  restarts after the active secondary crashed is checked.
* The -2 value of `Secondary_connection` (failover.c:316). What
  `issue_Drequest` does with a negative handle is defined outside this
  repository. The spec (section 9) merges -2 with -1, and so does the model.
* The fork, exec and output capture of the stonith script, and the
  Windows-only `utimes` replacement. These are I/O, and only their results
  are modelled.
* Allocation failures, logging and message formats.
