------------------------------ MODULE PbsSubmit ------------------------------
(***************************************************************************)
(* Job submission by the client library, src/src/lib/Libifl/pbsD_submit.c: *)
(* pbs_submit and pbs_submit_with_cred called by several threads of one    *)
(* client over one server connection.                                      *)
(*                                                                         *)
(* pbs_submit sends four requests in a row: QueueJob, JobScript (if there  *)
(* is a script), JobCred (if the thread's context holds a credential) and  *)
(* Commit.  The server ties JobScript and JobCred to the job most recently *)
(* queued on the connection, as they carry no job id; only Commit names    *)
(* the job.  The connection's mutex (pbs_client_thread_lock_connection)    *)
(* keeps one thread's sequence together; pbs_submit_with_cred takes it,    *)
(* puts the credential in the thread context and calls pbs_submit, which   *)
(* takes it again, so the mutex is recursive.                              *)
(*                                                                         *)
(* Each PBSD_* call may fail before the server acted on it, or after (the  *)
(* reply is lost); the other local failures (thread context, attribute     *)
(* verification, access to the script, malloc, the mutex) are              *)
(* nondeterministic choices at the place the code tests them.              *)
(***************************************************************************)
EXTENDS Naturals, FiniteSets

CONSTANTS
    Threads,     \* the client's threads using the connection
    NoThread,    \* the mutex's owner when it is free
    Budget       \* bound: the number of submit calls each thread makes

ASSUME NoThread \notin Threads
ASSUME Budget \in [Threads -> Nat \ {0}]
CallIds == UNION {{<<t, k>> : k \in 1..Budget[t]} : t \in Threads}  \* <<thread, n-th call>>
JobIds == 1..Cardinality(CallIds)
NoJob == 0                               \* return_jobid == NULL

VARIABLES
    \* client threads
    pc,          \* where each thread is (see the actions)
    calls,       \* calls each thread has made
    api,         \* "plain" (pbs_submit) or "cred" (pbs_submit_with_cred)
    hasScript,   \* the call's script argument is non-empty
    ctxInit,     \* pbs_client_thread_init_thread_context has succeeded
    credInfo,    \* th_cred_info: "none" (NULL), "empty" (cred_len 0), "set"
    jobid,       \* return_jobid of the running pbs_submit
    result,      \* what the thread's last call returned (NoJob = NULL)
    commitOk,    \* PBSD_commit returned 0 in the thread's last call
    \* the connection's recursive mutex
    lockOwner, lockDepth,
    \* the server
    jobs,        \* job id -> its record, for the jobs created so far
    nextJob,     \* the next job id the server assigns
    newJob       \* the job last queued on this connection, or NoJob

thrVars == <<pc, calls, api, hasScript, ctxInit, credInfo, jobid, result, commitOk>>
lockVars == <<lockOwner, lockDepth>>
srvVars == <<jobs, nextJob, newJob>>
vars == <<thrVars, lockVars, srvVars>>

CurCall(t) == <<t, calls[t]>>

(* A job at the server: the call that queued it, the calls whose script   *)
(* and credential reached it, and whether it was committed.               *)
Job == [owner : CallIds, script : SUBSET CallIds,
        cred : SUBSET [call : CallIds, api : {"plain", "cred"}],
        committed : BOOLEAN]
Created == 1..(nextJob - 1)

-----------------------------------------------------------------------------
(* The connection mutex.                                                   *)

(* pbs_client_thread_lock_connection: blocks while another thread holds   *)
(* the mutex; the holder may take it again.  When it returns, it may have *)
(* failed instead (the caller then returns NULL).                          *)
CanLock(t) == lockOwner \in {NoThread, t}
Acquire(t) == /\ CanLock(t)
              /\ lockOwner' = t
              /\ lockDepth' = lockDepth + 1

(* pbs_client_thread_unlock_connection releases one level. *)
Release(t) == IF lockOwner = t
                THEN /\ lockDepth' = lockDepth - 1
                     /\ lockOwner' = IF lockDepth = 1 THEN NoThread ELSE t
                ELSE UNCHANGED lockVars

(* The call returns r to its caller: back to pbs_submit_with_cred, or to  *)
(* the application.                                                        *)
SubmitReturns(t, r) ==
    /\ result' = [result EXCEPT ![t] = r]
    /\ pc' = [pc EXCEPT ![t] = IF api[t] = "cred" THEN "c_clear" ELSE "idle"]

CallReturns(t, r) ==
    /\ result' = [result EXCEPT ![t] = r]
    /\ pc' = [pc EXCEPT ![t] = "idle"]

Goto(t, l) == pc' = [pc EXCEPT ![t] = l]

(* A PBSD_* request: "ok", failed before the server acted, or failed after *)
Outcomes == {"ok", "lost_request", "lost_reply"}
ServerActed(o) == o \in {"ok", "lost_reply"}

-----------------------------------------------------------------------------
(* The application calls pbs_submit or pbs_submit_with_cred.              *)

Call(t) ==
    /\ pc[t] = "idle"
    /\ calls[t] < Budget[t]
    /\ calls' = [calls EXCEPT ![t] = @ + 1]
    /\ \E a \in {"plain", "cred"}, s \in BOOLEAN :
          /\ api' = [api EXCEPT ![t] = a]
          /\ hasScript' = [hasScript EXCEPT ![t] = s]
          /\ Goto(t, IF a = "cred" THEN "c_init" ELSE "s_init")
    /\ jobid' = [jobid EXCEPT ![t] = NoJob]
    /\ result' = [result EXCEPT ![t] = NoJob]
    /\ commitOk' = [commitOk EXCEPT ![t] = FALSE]
    /\ UNCHANGED <<ctxInit, credInfo, lockVars, srvVars>>

-----------------------------------------------------------------------------
(* pbs_submit_with_cred.                                                  *)

(* The thread context is initialized (this may fail only the first time), *)
(* then the connection is locked; either failure returns NULL.            *)
pbs_submit_with_cred_lock(t) ==
    /\ pc[t] = "c_init"
    /\ \/ /\ ~ctxInit[t]
          /\ CallReturns(t, NoJob)
          /\ UNCHANGED <<ctxInit, lockVars>>
       \/ /\ ctxInit' = [ctxInit EXCEPT ![t] = TRUE]
          /\ \/ /\ Acquire(t)
                /\ Goto(t, "c_ctx")
                /\ UNCHANGED result
             \/ /\ CanLock(t)
                /\ CallReturns(t, NoJob)
                /\ UNCHANGED lockVars
    /\ UNCHANGED <<calls, api, hasScript, credInfo, jobid, commitOk, srvVars>>

(* th_cred_info is allocated once per thread (malloc failure: unlock,     *)
(* NULL); the credential is copied into it and pbs_submit is called.      *)
pbs_submit_with_cred_setcred(t) ==
    /\ pc[t] = "c_ctx"
    /\ \/ /\ credInfo[t] = "none"
          /\ Release(t)
          /\ CallReturns(t, NoJob)
          /\ UNCHANGED credInfo
       \/ /\ credInfo' = [credInfo EXCEPT ![t] = "set"]
          /\ Goto(t, "s_init")
          /\ UNCHANGED <<lockVars, result>>
    /\ UNCHANGED <<calls, api, hasScript, ctxInit, jobid, commitOk, srvVars>>

(* Mutant of pbs_submit_with_cred_return: the credential is left in the  *)
(* thread context.                                                         *)
pbs_submit_with_cred_return_keeps_cred(t) ==
    /\ pc[t] = "c_clear"
    /\ Release(t)
    /\ \E unlockOk \in BOOLEAN :
          CallReturns(t, IF unlockOk THEN result[t] ELSE NoJob)
    /\ UNCHANGED <<calls, api, hasScript, ctxInit, credInfo, jobid, commitOk,
                   srvVars>>

(* After pbs_submit: the credential fields are cleared and the connection *)
(* unlocked; if the unlock fails NULL is returned, whatever pbs_submit    *)
(* returned.                                                               *)
pbs_submit_with_cred_return(t) ==
    /\ pc[t] = "c_clear"
    /\ credInfo' = [credInfo EXCEPT ![t] = "empty"]
    /\ Release(t)
    /\ \E unlockOk \in BOOLEAN :
          CallReturns(t, IF unlockOk THEN result[t] ELSE NoJob)
    /\ UNCHANGED <<calls, api, hasScript, ctxInit, jobid, commitOk, srvVars>>

-----------------------------------------------------------------------------
(* pbs_submit.                                                            *)

(* Thread context, then pbs_verify_attributes: either failure returns     *)
(* NULL before the connection is locked.                                  *)
pbs_submit_verify(t) ==
    /\ pc[t] = "s_init"
    /\ \/ /\ ~ctxInit[t]
          /\ SubmitReturns(t, NoJob)
          /\ UNCHANGED ctxInit
       \/ /\ ctxInit' = [ctxInit EXCEPT ![t] = TRUE]
          /\ \/ Goto(t, "s_lock") /\ UNCHANGED result
             \/ SubmitReturns(t, NoJob)
    /\ UNCHANGED <<calls, api, hasScript, credInfo, jobid, commitOk, lockVars,
                   srvVars>>

(* Mutant of pbs_submit_lock: the connection is not locked. *)
pbs_submit_lock_unlocked(t) ==
    /\ pc[t] = "s_lock"
    /\ Goto(t, "s_queue")
    /\ UNCHANGED <<calls, api, hasScript, ctxInit, credInfo, jobid, result,
                   commitOk, lockVars, srvVars>>

pbs_submit_lock(t) ==
    /\ pc[t] = "s_lock"
    /\ \/ /\ Acquire(t)
          /\ Goto(t, "s_queue")
          /\ UNCHANGED result
       \/ /\ CanLock(t)
          /\ SubmitReturns(t, NoJob)
          /\ UNCHANGED lockVars
    /\ UNCHANGED <<calls, api, hasScript, ctxInit, credInfo, jobid, commitOk,
                   srvVars>>

(* Where pbs_submit goes after the request that precedes the credential. *)
AfterScript(t) == IF credInfo[t] = "set" THEN "s_cred" ELSE "s_commit"

(* access(script) fails: error.  Otherwise PBSD_queuejob: the server       *)
(* creates the job as the connection's new job; only the reply gives the  *)
(* client return_jobid.                                                    *)
pbs_submit_queuejob(t) ==
    /\ pc[t] = "s_queue"
    /\ \/ /\ hasScript[t]
          /\ Goto(t, "s_error")
          /\ UNCHANGED <<jobid, srvVars>>
       \/ \E o \in Outcomes :
          /\ IF ServerActed(o)
               THEN /\ jobs' = [j \in 1..nextJob |->
                                  IF j = nextJob
                                    THEN [owner |-> CurCall(t), script |-> {},
                                          cred |-> {}, committed |-> FALSE]
                                    ELSE jobs[j]]
                    /\ newJob' = nextJob
                    /\ nextJob' = nextJob + 1
               ELSE UNCHANGED srvVars
          /\ IF o = "ok"
               THEN /\ jobid' = [jobid EXCEPT ![t] = nextJob]
                    /\ Goto(t, IF hasScript[t] THEN "s_script" ELSE AfterScript(t))
               ELSE /\ Goto(t, "s_error")
                    /\ UNCHANGED jobid
    /\ UNCHANGED <<calls, api, hasScript, ctxInit, credInfo, result, commitOk,
                   lockVars>>

(* PBSD_jscript: the server adds the script to the connection's new job. *)
pbs_submit_jscript(t) ==
    /\ pc[t] = "s_script"
    /\ \E o \in Outcomes :
          /\ IF ServerActed(o) /\ newJob /= NoJob
               THEN jobs' = [jobs EXCEPT ![newJob].script = @ \cup {CurCall(t)}]
               ELSE UNCHANGED jobs
          /\ Goto(t, IF o = "ok" THEN AfterScript(t) ELSE "s_error")
    /\ UNCHANGED <<calls, api, hasScript, ctxInit, credInfo, jobid, result,
                   commitOk, lockVars, nextJob, newJob>>

(* PBSD_jcred with the thread context's credential. *)
pbs_submit_jcred(t) ==
    /\ pc[t] = "s_cred"
    /\ \E o \in Outcomes :
          /\ IF ServerActed(o) /\ newJob /= NoJob
               THEN jobs' = [jobs EXCEPT ![newJob].cred =
                                @ \cup {[call |-> CurCall(t), api |-> api[t]]}]
               ELSE UNCHANGED jobs
          /\ Goto(t, IF o = "ok" THEN "s_commit" ELSE "s_error")
    /\ UNCHANGED <<calls, api, hasScript, ctxInit, credInfo, jobid, result,
                   commitOk, lockVars, nextJob, newJob>>

(* Mutant of pbs_submit_commit: the return value of PBSD_commit is not   *)
(* tested.                                                                 *)
pbs_submit_commit_ignores_rc(t) ==
    /\ pc[t] = "s_commit"
    /\ \E o \in Outcomes :
          /\ IF ServerActed(o)
               THEN /\ jobs' = [jobs EXCEPT ![jobid[t]].committed = TRUE]
                    /\ newJob' = IF newJob = jobid[t] THEN NoJob ELSE newJob
               ELSE UNCHANGED <<jobs, newJob>>
          /\ commitOk' = [commitOk EXCEPT ![t] = (o = "ok")]
          /\ Goto(t, "s_unlock")
    /\ UNCHANGED <<calls, api, hasScript, ctxInit, credInfo, jobid, result,
                   lockVars, nextJob>>

(* PBSD_commit names the job by return_jobid. *)
pbs_submit_commit(t) ==
    /\ pc[t] = "s_commit"
    /\ \E o \in Outcomes :
          /\ IF ServerActed(o)
               THEN /\ jobs' = [jobs EXCEPT ![jobid[t]].committed = TRUE]
                    /\ newJob' = IF newJob = jobid[t] THEN NoJob ELSE newJob
               ELSE UNCHANGED <<jobs, newJob>>
          /\ commitOk' = [commitOk EXCEPT ![t] = (o = "ok")]
          /\ Goto(t, IF o = "ok" THEN "s_unlock" ELSE "s_error")
    /\ UNCHANGED <<calls, api, hasScript, ctxInit, credInfo, jobid, result,
                   lockVars, nextJob>>

(* Mutant of pbs_submit_unlock: the success path falls through to the    *)
(* error label and unlocks a second time.                                  *)
pbs_submit_unlock_twice(t) ==
    /\ pc[t] = "s_unlock"
    /\ lockDepth' = lockDepth - 2
    /\ lockOwner' = IF lockDepth <= 2 THEN NoThread ELSE t
    /\ SubmitReturns(t, NoJob)
    /\ UNCHANGED <<calls, api, hasScript, ctxInit, credInfo, jobid, commitOk,
                   srvVars>>

(* Unlock after a commit: the job id is returned, or NULL if the unlock   *)
(* fails.                                                                  *)
pbs_submit_unlock(t) ==
    /\ pc[t] = "s_unlock"
    /\ Release(t)
    /\ \E unlockOk \in BOOLEAN :
          SubmitReturns(t, IF unlockOk THEN jobid[t] ELSE NoJob)
    /\ UNCHANGED <<calls, api, hasScript, ctxInit, credInfo, jobid, commitOk,
                   srvVars>>

(* Mutant of pbs_submit_error: the error path returns without unlocking. *)
pbs_submit_error_keeps_lock(t) ==
    /\ pc[t] = "s_error"
    /\ SubmitReturns(t, NoJob)
    /\ UNCHANGED <<calls, api, hasScript, ctxInit, credInfo, jobid, commitOk,
                   lockVars, srvVars>>

(* error: unlock and return NULL. *)
pbs_submit_error(t) ==
    /\ pc[t] = "s_error"
    /\ Release(t)
    /\ SubmitReturns(t, NoJob)
    /\ UNCHANGED <<calls, api, hasScript, ctxInit, credInfo, jobid, commitOk,
                   srvVars>>

-----------------------------------------------------------------------------

(* The client has made all its calls and every thread has returned. *)
Finished ==
    /\ \A t \in Threads : pc[t] = "idle" /\ calls[t] = Budget[t]
    /\ UNCHANGED vars

Init ==
    /\ pc = [t \in Threads |-> "idle"]
    /\ calls = [t \in Threads |-> 0]
    /\ api = [t \in Threads |-> "plain"]
    /\ hasScript = [t \in Threads |-> FALSE]
    /\ ctxInit = [t \in Threads |-> FALSE]
    /\ credInfo = [t \in Threads |-> "none"]
    /\ jobid = [t \in Threads |-> NoJob]
    /\ result = [t \in Threads |-> NoJob]
    /\ commitOk = [t \in Threads |-> FALSE]
    /\ lockOwner = NoThread
    /\ lockDepth = 0
    /\ jobs = <<>>
    /\ nextJob = 1
    /\ newJob = NoJob

Step(t) ==
    \/ Call(t)
    \/ pbs_submit_with_cred_lock(t)
    \/ pbs_submit_with_cred_setcred(t)
    \/ pbs_submit_with_cred_return(t)
    \/ pbs_submit_verify(t)
    \/ pbs_submit_lock(t)
    \/ pbs_submit_queuejob(t)
    \/ pbs_submit_jscript(t)
    \/ pbs_submit_jcred(t)
    \/ pbs_submit_commit(t)
    \/ pbs_submit_unlock(t)
    \/ pbs_submit_error(t)

Next == (\E t \in Threads : Step(t)) \/ Finished

(* Threads are scheduled by the operating system: a thread that can run   *)
(* eventually runs.                                                        *)
Spec == Init /\ [][Next]_vars /\ \A t \in Threads : WF_vars(Step(t))

-----------------------------------------------------------------------------
(* Properties.                                                             *)

TypeOK ==
    /\ pc \in [Threads -> {"idle", "c_init", "c_ctx", "c_clear", "s_init",
                           "s_lock", "s_queue", "s_script", "s_cred",
                           "s_commit", "s_unlock", "s_error"}]
    /\ \A t \in Threads : calls[t] \in 0..Budget[t]
    /\ api \in [Threads -> {"plain", "cred"}]
    /\ hasScript \in [Threads -> BOOLEAN]
    /\ ctxInit \in [Threads -> BOOLEAN]
    /\ credInfo \in [Threads -> {"none", "empty", "set"}]
    /\ jobid \in [Threads -> JobIds \cup {NoJob}]
    /\ result \in [Threads -> JobIds \cup {NoJob}]
    /\ commitOk \in [Threads -> BOOLEAN]
    /\ lockOwner \in Threads \cup {NoThread}
    /\ lockDepth \in 0..2
    /\ nextJob \in 1..Cardinality(JobIds) + 1
    /\ jobs \in [Created -> Job]
    /\ newJob \in Created \cup {NoJob}

(* The script a job runs is the one given to the call that queued it.     *)
(* PBSD_jscript carries no job id, so this rests on the connection mutex  *)
(* keeping each pbs_submit's QueueJob ... Commit sequence together when   *)
(* several threads share the connection.                                   *)
ScriptFromOwnCall ==
    \A j \in Created : jobs[j].script \subseteq {jobs[j].owner}

(* A credential reaches only the job queued by the pbs_submit_with_cred   *)
(* call that was given it: not another thread's job (the mutex), and not  *)
(* a later plain pbs_submit of the same thread (th_cred_info is cleared   *)
(* after the call).                                                        *)
CredFromOwnCall ==
    \A j \in Created : \A c \in jobs[j].cred :
        c.call = jobs[j].owner /\ c.api = "cred"

(* Every submit call returns: every path of pbs_submit and                *)
(* pbs_submit_with_cred that locked the connection unlocks it, so no      *)
(* thread waits on the mutex forever.                                      *)
EveryCallReturns ==
    \A t \in Threads : pc[t] /= "idle" ~> pc[t] = "idle"

(* A job id handed back to the application names a job that the server   *)
(* has committed and that this very call queued: pbs_submit returns        *)
(* return_jobid only after PBSD_queuejob, PBSD_jscript, PBSD_jcred and     *)
(* PBSD_commit all succeeded, and pbs_submit_with_cred passes on what      *)
(* pbs_submit returned.  A lost reply may leave a job the client does not  *)
(* know of, but never the converse.                                        *)
ReturnedJobCommitted ==
    \A t \in Threads :
        pc[t] = "idle" /\ result[t] /= NoJob =>
            /\ result[t] \in Created
            /\ jobs[result[t]].committed
            /\ jobs[result[t]].owner = CurCall(t)

(* @retval jobid on success: a call whose PBSD_commit succeeded returns   *)
(* the job id.  A failed unlock after the commit makes pbs_submit (and    *)
(* pbs_submit_with_cred) return NULL for a job that the server runs, and  *)
(* an application that retries submits it twice.                           *)
CommittedCallReturnsJobid ==
    \A t \in Threads : pc[t] = "idle" /\ commitOk[t] => result[t] = jobid[t]

=============================================================================
