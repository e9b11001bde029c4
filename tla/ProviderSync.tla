---------------------------- MODULE ProviderSync ---------------------------
\* Caches that the Core of the Service downloads are copied back to the home
\* directory (core/service.rs request_runtime_provider_sync): the Core rewrites a
\* cache in place while it is read chunk by chunk, and the configuration and the
\* session may change before the copy is published.
\*
\* One provider whose cache has two chunks. A chunk is the version it was written
\* with; of a version it is known which declaration it was downloaded for.
EXTENDS Naturals, Sequences

CONSTANTS
  Settle,       \* RUNTIME_PROVIDER_SETTLE, in ticks
  Attempts,     \* RUNTIME_PROVIDER_SYNC_ATTEMPTS
  MaxTicks, MaxVersions, MaxApplies, MaxSyncs  \* bounds

Tasks == 1..2     \* one that is queued and one that still retries
Chunks == 2

VARIABLES
  now,
  file,         \* the cache of the Core: its chunks so far
  mtime, updatedAt,  \* of the file, and of the last load in the Core
  writing,      \* the Core is writing the file
  madeFor,      \* [version -> the declaration it was downloaded for]
  declared,     \* the declaration in the committed runtime
  session,      \* the session of the Service, and whether its Core is in Service mode
  local,        \* the published copy
  queued,       \* PROVIDER_SYNC_QUEUED
  task,         \* [Tasks -> "none", "waiting" or "retrying"]
  tries,        \* [Tasks -> attempts so far]
  syncing,      \* the task that holds PROVIDER_SYNC_SERIAL, 0 for none
  pass,         \* its place in the pass
  caught,       \* what the pass took: session, declaration, load time, identity
  copy,         \* the chunks read so far
  owed,         \* history: a request that no pass has seen yet
  stray,        \* history: a copy was published for another declaration
  applies, syncs

cacheVars == <<now, file, mtime, updatedAt, writing, madeFor>>
appVars == <<declared, session, local, applies>>
taskVars == <<queued, task, tries, owed, syncs>>
passVars == <<syncing, pass, caught, copy>>
syncVars == <<cacheVars, appVars, taskVars, passVars, stray>>

NoFile == <<>>
Never == 0   \* a provider that the Core has not loaded yet
Passes == {"none", "reading", "comparing", "verifying", "publishing"}
NotCaught == [session |-> 0, declared |-> 0, loaded |-> 0, mtime |-> 0, len |-> 0]
Version == 0..MaxVersions

TypeOK ==
  /\ now \in 0..MaxTicks /\ file \in Seq(Version) /\ mtime \in 0..MaxTicks /\ updatedAt \in 0..MaxTicks
  /\ writing \in BOOLEAN /\ declared \in 1..(MaxApplies + 1) /\ session \in 0..(MaxApplies + 1)
  /\ local \in Seq(Version) /\ queued \in BOOLEAN /\ task \in [Tasks -> {"none", "waiting", "retrying"}]
  /\ tries \in [Tasks -> 0..Attempts] /\ syncing \in Tasks \cup {0} /\ pass \in Passes
  /\ Len(copy) <= Chunks /\ owed \in BOOLEAN /\ stray \in BOOLEAN /\ syncs \in 0..MaxSyncs

InitSync ==
  /\ now = 1 /\ file = NoFile /\ mtime = 0 /\ updatedAt = Never /\ writing = FALSE
  /\ madeFor = <<>> /\ declared = 1 /\ session = 1 /\ local = NoFile
  /\ queued = FALSE /\ task = [t \in Tasks |-> "none"] /\ tries = [t \in Tasks |-> 0]
  /\ syncing = 0 /\ pass = "none" /\ caught = NotCaught /\ copy = <<>>
  /\ owed = FALSE /\ stray = FALSE /\ applies = 0 /\ syncs = 0
-----------------------------------------------------------------------------
(* The Core of the Service: external                                          *)

\* Settling alone tells a first download that goes on: it does not stall.
Tick ==
  /\ now < MaxTicks /\ now' = now + 1
  /\ writing /\ updatedAt = Never => now + 1 < mtime + Settle
  /\ UNCHANGED <<file, mtime, updatedAt, writing, madeFor, appVars, taskVars, passVars, stray>>

\* The file is truncated and written again; the load time follows the last write.
\* A download does not begin before the load of the last one has settled.
WriteBegins ==
  /\ session # 0 /\ ~writing /\ Len(madeFor) < MaxVersions
  /\ file = NoFile \/ now > updatedAt + Settle
  /\ madeFor' = Append(madeFor, declared) /\ file' = <<Len(madeFor) + 1>>
  /\ mtime' = now /\ writing' = TRUE
  /\ UNCHANGED <<now, updatedAt, appVars, taskVars, passVars, stray>>

WriteEnds ==
  /\ writing /\ writing' = FALSE /\ file' = Append(file, Len(madeFor)) /\ mtime' = now /\ updatedAt' = now
  /\ UNCHANGED <<now, madeFor, appVars, taskVars, passVars, stray>>

\* Under the lifecycle lock: another source for the provider, whose old cache the
\* Service does not keep; the session ends, or another one begins.
Apply ==
  /\ applies < MaxApplies /\ applies' = applies + 1
  /\ \/ session # 0 /\ declared' = declared + 1 /\ UNCHANGED session
     \/ session # 0 /\ session' = 0 /\ UNCHANGED declared
     \/ session = 0 /\ session' = applies + 1 /\ UNCHANGED declared
  /\ file' = NoFile /\ writing' = FALSE /\ updatedAt' = Never
  /\ UNCHANGED <<now, mtime, madeFor, local, taskVars, passVars, stray>>
-----------------------------------------------------------------------------
(* The task                                                                   *)

\* request_runtime_provider_sync: one waiting task is enough for many requests.
Request ==
  /\ syncs < MaxSyncs /\ syncs' = syncs + 1 /\ owed' = TRUE /\ queued' = TRUE
  /\ IF queued THEN UNCHANGED <<task, tries>>
     ELSE \E t \in Tasks : task[t] = "none" /\ task' = [task EXCEPT ![t] = "waiting"]
                           /\ tries' = [tries EXCEPT ![t] = 0]
  /\ UNCHANGED <<cacheVars, appVars, passVars, stray>>

\* The pass over the committed runtime begins; a task is no longer queued once its
\* first pass begins, so that a request from now on is another task.
Caught == [session |-> session, declared |-> declared, loaded |-> updatedAt, mtime |-> 0, len |-> 0]
\* Mutant: the task counts as queued until it is over.
PassBeginsQueued(t) ==
  /\ task[t] # "none" /\ syncing = 0 /\ session # 0
  /\ syncing' = t /\ tries' = [tries EXCEPT ![t] = @ + 1] /\ owed' = FALSE
  /\ pass' = "reading" /\ caught' = Caught /\ copy' = <<>>
  /\ UNCHANGED <<cacheVars, appVars, queued, task, syncs, stray>>

PassBegins(t) ==
  /\ task[t] # "none" /\ syncing = 0 /\ session # 0
  /\ syncing' = t /\ tries' = [tries EXCEPT ![t] = @ + 1]
  /\ queued' = (queued /\ task[t] # "waiting") /\ owed' = (owed /\ task[t] # "waiting")
  /\ pass' = "reading" /\ caught' = Caught /\ copy' = <<>>
  /\ UNCHANGED <<cacheVars, appVars, task, syncs, stray>>

\* Without a session there is nothing to read, and the task is over.
NothingToRead(t) ==
  /\ task[t] # "none" /\ syncing = 0 /\ session = 0
  /\ task' = [task EXCEPT ![t] = "none"]
  /\ queued' = (queued /\ task[t] # "waiting") /\ owed' = (owed /\ task[t] # "waiting")
  /\ UNCHANGED <<cacheVars, appVars, tries, syncs, passVars, stray>>

\* Mutant: it is repeated for as long as a cache is not ready.
PassEndsForEver(next) ==
  /\ syncing' = 0 /\ pass' = "none" /\ caught' = NotCaught /\ copy' = <<>>
  /\ task' = [task EXCEPT ![syncing] = IF next = "pending" THEN "retrying" ELSE "none"]
  /\ UNCHANGED <<queued, tries, owed, syncs>>

\* The pass is over: it is repeated later while a cache was not ready.
PassEnds(next) ==
  /\ syncing' = 0 /\ pass' = "none" /\ caught' = NotCaught /\ copy' = <<>>
  /\ task' = [task EXCEPT ![syncing] =
       IF next = "pending" /\ tries[syncing] < Attempts THEN "retrying" ELSE "none"]
  /\ UNCHANGED <<queued, tries, owed, syncs>>

Go(p) == pass' = p
SameSession == session = caught.session
HasSettled == now - mtime >= Settle
-----------------------------------------------------------------------------
(* The pass                                                                   *)

\* The identity of the file is the one the first chunk had.
SameIdentity == caught.len = 0 \/ (caught.len = Len(file) /\ caught.mtime = mtime)

\* fetch_runtime_file: a file that is missing, was just written or has changed is
\* not ready. The last request of a copy finds the end of the file.
ReadChunk ==
  /\ pass = "reading" /\ SameSession /\ file # NoFile /\ HasSettled /\ SameIdentity
  /\ IF Len(copy) >= Len(file) THEN Go("comparing") /\ UNCHANGED <<copy, caught>>
     ELSE /\ copy' = Append(copy, file[Len(copy) + 1]) /\ UNCHANGED pass
          /\ caught' = [caught EXCEPT !.mtime = mtime, !.len = Len(file)]
  /\ UNCHANGED <<syncing, cacheVars, appVars, taskVars, stray>>

ReadNotReady ==
  /\ pass = "reading" /\ SameSession /\ (file = NoFile \/ ~HasSettled \/ ~SameIdentity)
  /\ PassEnds("pending") /\ UNCHANGED <<cacheVars, appVars, stray>>

SessionLost ==
  /\ pass \in {"reading", "verifying"} /\ ~SameSession
  /\ PassEnds("lost") /\ UNCHANGED <<cacheVars, appVars, stray>>

\* Mutant: a load that followed the pass's beginning is not looked for.
FinishedLoading == TRUE
\* The Core has not loaded the file since the pass began, and it did load what
\* was written: a write that goes on is newer than the load before it.
Loaded == updatedAt = caught.loaded /\ (updatedAt = Never \/ mtime <= updatedAt + Settle)

CompareLoadTimes ==
  /\ pass = "comparing"
  /\ \/ Loaded /\ Go("verifying") /\ UNCHANGED <<syncing, caught, copy, taskVars>>
     \/ ~Loaded /\ PassEnds("pending")
     \/ PassEnds("pending")
  /\ UNCHANGED <<cacheVars, appVars, stray>>

\* recheck_identity: the file is still the one that was read.
Recheck ==
  /\ pass = "verifying" /\ SameSession
  /\ IF mtime = caught.mtime /\ Len(file) = caught.len
     THEN Go("publishing") /\ UNCHANGED <<syncing, caught, copy, taskVars>>
     ELSE PassEnds("pending")
  /\ UNCHANGED <<cacheVars, appVars, stray>>

\* Mutant: the declaration that was read is trusted.
StillDeclaredThen == session = caught.session
StillDeclared == session = caught.session /\ declared = caught.declared

\* publish_fetched, under the lifecycle lock.
Publish ==
  /\ pass = "publishing"
  /\ \/ StillDeclared /\ local' = copy
        /\ stray' = (stray \/ \E i \in DOMAIN copy : madeFor[copy[i]] # declared)
     \/ UNCHANGED <<local, stray>>
  /\ PassEnds("done")
  /\ UNCHANGED <<cacheVars, declared, session, applies>>

NextSync ==
  \/ Tick \/ WriteBegins \/ WriteEnds \/ Apply \/ Request
  \/ \E t \in Tasks : PassBegins(t) \/ NothingToRead(t)
  \/ ReadChunk \/ ReadNotReady \/ SessionLost \/ CompareLoadTimes \/ Recheck \/ Publish

SpecSync == InitSync /\ [][NextSync]_syncVars
-----------------------------------------------------------------------------
(* Properties                                                                 *)

\* A copy that is published is one whole download, and of the source that the
\* committed configuration declares as it is published (publish_fetched), however
\* the Core's writes, a new configuration and the session interleave with the
\* reading.
PublishedCachesAreWhole ==
  /\ local # NoFile => Len(local) = Chunks /\ \A i \in DOMAIN local : local[i] = local[1]
  /\ ~stray

\* A request for a copy is followed by a pass that begins after it
\* (PROVIDER_SYNC_QUEUED): it is not absorbed by a task that has read already.
NoSyncIsLost == owed => \E t \in Tasks : task[t] = "waiting" /\ syncing # t
=============================================================================
