---------------------------- MODULE GroupUpdate -----------------------------
(***************************************************************************)
(* Checks for a new version and downloads of an installer are done once    *)
(* for the group: CoordinatorService joins the requests for the same thing *)
(* into a job, asks one candidate after the other to do it, and gives all  *)
(* who have asked the result of the first one that succeeds.               *)
(*                                                                         *)
(* The threads that handle requests, results, broken connections and       *)
(* timeouts work on the jobs under a lock, but send without it.            *)
(***************************************************************************)
EXTENDS Naturals, Sequences, FiniteSets

CONSTANTS
  Coord, Peer,   \* the coordinator, and the other nodes
  Rank,          \* where a node is in the coordinator's order: itself, then by priority
  Key,           \* what is asked for: "check", or a version to download
  Request,       \* request ids
  None,
  MaxBreaks,     \* bound: connections that break
  MaxJobs        \* bound: jobs

Node == {Coord} \cup Peer

VARIABLES
  link,      \* the coordinator's connection of a node: on, closed, off
  job,       \* _update_check_inflight, _update_download_jobs
  cache,     \* the node that has given the result, or None
  dispatch,  \* threads that are about to ask the next candidate
  sending,   \* commands that are about to be sent: [key, id, to]
  doing,     \* commands that candidates work at
  results,   \* results on their way: [key, id, from, ok]
  asked,     \* the requests that have been made, and for what
  told,      \* what a request has been answered
  jobs, breaks

vars == <<link, job, cache, dispatch, sending, doing, results, asked, told, jobs, breaks>>

Job     == [id : 1 .. MaxJobs, requesters : SUBSET Request,
            candidates : SUBSET Node, active : Node \cup {None}]
Command == [key : Key, id : 1 .. MaxJobs, to : Node]
Result  == [key : Key, id : 1 .. MaxJobs, from : Node, ok : BOOLEAN]

TypeOK ==
  /\ link \in [Node -> {"on", "closed", "off"}] /\ link[Coord] = "on"
  /\ job \in [Key -> Job \cup {None}]
  /\ cache \in [Key -> Node \cup {None}]
  /\ dispatch \in [Key -> Nat]
  /\ sending \subseteq Command /\ doing \subseteq Command /\ results \subseteq Result
  /\ asked \in [Request -> Key \cup {None}]
  /\ told \in [Request -> Seq({"ready", "failed"})]
  /\ jobs \in 0 .. MaxJobs /\ breaks \in 0 .. MaxBreaks

Init ==
  /\ link = [n \in Node |-> "on"]
  /\ job = [k \in Key |-> None] /\ cache = [k \in Key |-> None]
  /\ dispatch = [k \in Key |-> 0]
  /\ sending = {} /\ doing = {} /\ results = {}
  /\ asked = [r \in Request |-> None] /\ told = [r \in Request |-> <<>>]
  /\ jobs = 0 /\ breaks = 0

Online(n) == link[n] = "on"

\* _reply_update_check_state, _reply_update_download_state
Tell(who, what) ==
  told' = [r \in Request |-> IF r \in who THEN Append(told[r], what) ELSE told[r]]

-----------------------------------------------------------------------------
\* _update_candidate_ids
Candidates == {n \in Node : Online(n)}

\* _cached_update_check_state, _resolve_update_download_cache: the source of
\* an installer must be there to share it.
Cached(k) == cache[k] # None /\ (k = "check" \/ Online(cache[k]))

(***************************************************************************)
(* _on_update_check_request, _on_update_download_request                   *)
(***************************************************************************)
JoinJob(r, k) ==
  /\ ~Cached(k) /\ job[k] # None
  /\ job' = [job EXCEPT ![k].requesters = @ \cup {r}]
  /\ UNCHANGED <<dispatch, jobs, told>>

NewJob(r, k) ==
  /\ ~Cached(k) /\ job[k] = None
  /\ jobs < MaxJobs /\ jobs' = jobs + 1
  /\ job' = [job EXCEPT ![k] = [id |-> jobs + 1, requesters |-> {r},
                                candidates |-> Candidates, active |-> None]]
  /\ dispatch' = [dispatch EXCEPT ![k] = @ + 1]
  /\ UNCHANGED told

OnRequest(r, k) ==
  /\ asked[r] = None /\ asked' = [asked EXCEPT ![r] = k]
  /\ \/ Cached(k) /\ Tell({r}, "ready") /\ UNCHANGED <<job, dispatch, jobs>>
     \/ JoinJob(r, k)
     \/ NewJob(r, k)
  /\ UNCHANGED <<link, cache, sending, doing, results, breaks>>

(***************************************************************************)
(* _dispatch_next_update_check_candidate and that of downloads: the next   *)
(* candidate that is online is made the active one under the lock, and is  *)
(* then sent the command.  When there is none, the job has failed.         *)
(***************************************************************************)
PickCandidate(k) ==
  LET online == {c \in job[k].candidates : Online(c)}
  IN  /\ job[k] # None
      /\ \E c \in online :
           /\ \A d \in online : Rank[c] <= Rank[d]
           /\ job' = [job EXCEPT ![k].active = c,
                                ![k].candidates = {d \in @ : Rank[d] > Rank[c]}]
           /\ sending' = sending \cup {[key |-> k, id |-> job[k].id, to |-> c]}
      /\ UNCHANGED told

GiveUp(k) ==
  /\ job[k] # None /\ \A c \in job[k].candidates : ~Online(c)
  /\ job' = [job EXCEPT ![k] = None]
  /\ Tell(job[k].requesters, "failed")
  /\ UNCHANGED sending

DispatchNext(k) ==
  /\ dispatch[k] > 0 /\ dispatch' = [dispatch EXCEPT ![k] = @ - 1]
  /\ \/ job[k] = None /\ UNCHANGED <<job, sending, told>>
     \/ PickCandidate(k)
     \/ GiveUp(k)
  /\ UNCHANGED <<link, cache, doing, results, asked, jobs, breaks>>

\* job[k] with nobody working at it
Released(k) == [job EXCEPT ![k].active = None]

\* A command that cannot be sent: whoever is active now, the next is asked.
SendCommand(m) ==
  /\ m \in sending /\ sending' = sending \ {m}
  /\ IF Online(m.to)
     THEN doing' = doing \cup {m} /\ UNCHANGED <<job, dispatch>>
     ELSE /\ job' = IF job[m.key] # None /\ job[m.key].active = m.to THEN Released(m.key) ELSE job
          /\ dispatch' = [dispatch EXCEPT ![m.key] = @ + 1]
          /\ UNCHANGED doing
  /\ UNCHANGED <<link, cache, results, asked, told, jobs, breaks>>

(***************************************************************************)
(* A candidate has finished, and reports whether it succeeded (external:   *)
(* the settings page); without a connection the report is lost.            *)
(***************************************************************************)
Finish(m) ==
  /\ m \in doing /\ doing' = doing \ {m}
  /\ \E ok \in BOOLEAN :
       results' = results \cup
         (IF Online(m.to) THEN {[key |-> m.key, id |-> m.id, from |-> m.to, ok |-> ok]} ELSE {})
  /\ UNCHANGED <<link, job, cache, dispatch, sending, asked, told, jobs, breaks>>

\* the answer is from the candidate that is expected to give one
Expected(m) == job[m.key] # None /\ job[m.key].id = m.id /\ job[m.key].active = m.from

\* Mutant of OnResult: who has answered a job is looked at, not whether it is over.
OnResultKeepsJob(m) ==
  /\ m \in results /\ results' = results \ {m}
  /\ IF ~Expected(m) THEN UNCHANGED <<job, cache, dispatch, told>>
     ELSE IF m.ok
     THEN /\ cache' = [cache EXCEPT ![m.key] = m.from]
          /\ Tell(job[m.key].requesters, "ready")
          /\ job' = Released(m.key)
          /\ dispatch' = [dispatch EXCEPT ![m.key] = @ + 1]
     ELSE /\ job' = Released(m.key)
          /\ dispatch' = [dispatch EXCEPT ![m.key] = @ + 1]
          /\ UNCHANGED <<cache, told>>
  /\ UNCHANGED <<link, sending, doing, asked, jobs, breaks>>

(***************************************************************************)
(* _on_update_check_result, _on_update_download_result                     *)
(***************************************************************************)
OnResult(m) ==
  /\ m \in results /\ results' = results \ {m}
  /\ IF ~Expected(m) THEN UNCHANGED <<job, cache, dispatch, told>>
     ELSE IF m.ok
     THEN /\ cache' = [cache EXCEPT ![m.key] = m.from]
          /\ Tell(job[m.key].requesters, "ready")
          /\ job' = [job EXCEPT ![m.key] = None]
          /\ UNCHANGED dispatch
     ELSE /\ job' = Released(m.key)
          /\ dispatch' = [dispatch EXCEPT ![m.key] = @ + 1]
          /\ UNCHANGED <<cache, told>>
  /\ UNCHANGED <<link, sending, doing, asked, jobs, breaks>>

\* Mutant of ExpireOnce: nobody is asked instead.
ExpireOnly(k) ==
  /\ job[k] # None /\ job[k].active # None
  /\ job' = Released(k)
  /\ UNCHANGED <<link, cache, dispatch, sending, doing, results, asked, told, jobs, breaks>>

\* _expire_once: the candidate has taken too long
ExpireOnce(k) ==
  /\ job[k] # None /\ job[k].active # None
  /\ job' = Released(k)
  /\ dispatch' = [dispatch EXCEPT ![k] = @ + 1]
  /\ UNCHANGED <<link, cache, sending, doing, results, asked, told, jobs, breaks>>

\* GROUP_UPDATE_QUERY_CACHE_TTL_SEC, GROUP_UPDATE_SHARE_TTL_SEC
CacheExpires(k) ==
  /\ cache[k] # None
  /\ cache' = [cache EXCEPT ![k] = None]
  /\ UNCHANGED <<link, job, dispatch, sending, doing, results, asked, told, jobs, breaks>>

-----------------------------------------------------------------------------
Break(n) ==
  /\ n # Coord /\ link[n] = "on" /\ link' = [link EXCEPT ![n] = "closed"]
  /\ breaks < MaxBreaks /\ breaks' = breaks + 1
  /\ results' = {m \in results : m.from # n}
  /\ UNCHANGED <<job, cache, dispatch, sending, doing, asked, told, jobs>>

\* _on_registry_event, unbound: the next candidate is asked for what the
\* node was doing, and what it shares is forgotten.
OnUnbound(n) ==
  LET left == {k \in Key : job[k] # None /\ job[k].active = n}
  IN  /\ link[n] = "closed" /\ link' = [link EXCEPT ![n] = "off"]
      /\ job' = [k \in Key |-> IF k \in left THEN [job[k] EXCEPT !.active = None] ELSE job[k]]
      /\ dispatch' = [k \in Key |-> IF k \in left THEN dispatch[k] + 1 ELSE dispatch[k]]
      /\ cache' = [k \in Key |-> IF k # "check" /\ cache[k] = n THEN None ELSE cache[k]]
      /\ UNCHANGED <<sending, doing, results, asked, told, jobs, breaks>>

Rebind(n) ==
  /\ link[n] = "off" /\ link' = [link EXCEPT ![n] = "on"]
  /\ UNCHANGED <<job, cache, dispatch, sending, doing, results, asked, told, jobs, breaks>>

Next ==
  \/ \E r \in Request, k \in Key : OnRequest(r, k)
  \/ \E k \in Key : DispatchNext(k) \/ ExpireOnce(k) \/ CacheExpires(k)
  \/ \E m \in sending : SendCommand(m)
  \/ \E m \in doing : Finish(m)
  \/ \E m \in results : OnResult(m)
  \/ \E n \in Node : Break(n) \/ OnUnbound(n) \/ Rebind(n)

Spec == Init /\ [][Next]_vars

\* The threads of the coordinator run.  Candidates need not finish.
Fairness ==
  /\ \A k \in Key : WF_vars(DispatchNext(k)) /\ WF_vars(ExpireOnce(k))
  /\ WF_vars(\E m \in sending : SendCommand(m))

-----------------------------------------------------------------------------
(***************************************************************************)
(* However answers, timeouts, broken connections and new requests cross, a *)
(* job is never left alone: somebody works at it, or a thread is about to  *)
(* ask somebody.                                                           *)
(***************************************************************************)
JobInHand == \A k \in Key : job[k] # None => job[k].active # None \/ dispatch[k] > 0

(***************************************************************************)
(* A request that joined a job, or was answered from the cache, is         *)
(* answered once and never again.                                          *)
(***************************************************************************)
AnsweredOnce == \A r \in Request : Len(told[r]) <= 1

(***************************************************************************)
(* Even if no candidate ever answers, every request is answered.           *)
(* (Requests are bounded: all of them are, in the end.)                    *)
(***************************************************************************)
Answered == []<>(\A r \in Request : asked[r] # None => told[r] # <<>>)
=============================================================================
