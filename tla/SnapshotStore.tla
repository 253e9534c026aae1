--------------------------- MODULE SnapshotStore ---------------------------
(***************************************************************************)
(* ConditionalDownloader.fetch and SnapshotStore.publish                   *)
(* (src/src/data/ingestion.py).                                            *)
(*                                                                         *)
(* Several processes fetch (the ingest job, the weekly refresh, an         *)
(* operator).  They share the snapshot directories, the pointer            *)
(* current.json, the publication lock and cache_state.json, which is       *)
(* written without the lock.  A process may die between any two steps; its *)
(* lock goes with it and an unfinished directory stays.                    *)
(*                                                                         *)
(* A directory is identified, as in the code, by the second of its         *)
(* publication and the digest of its content.  last_failure.json is        *)
(* written and read by nobody, so it is left out.                          *)
(***************************************************************************)
EXTENDS Naturals

CONSTANTS
    Days, Revisions, Times, None,    \* see SnapshotHistory
    Fetchers,      \* processes that fetch
    Urls,          \* sources a process may be told to fetch from
    MaxAttempts    \* DownloadPolicy.max_attempts

ASSUME StoreDaysAssumption == Days \subseteq Nat
ASSUME StoreTimesAssumption == Times \subseteq Nat /\ 0 \in Times
ASSUME AttemptsAssumption == MaxAttempts \in Nat \ {0}

Content == [end: Days, rev: Revisions]
Snapshot == [content: Content, at: Times]

ASSUME StoreNoneAssumption == None \notin Content \union Snapshot \union Fetchers \union Urls

VARIABLES
    clock,      \* the system clock, in seconds
    upstream,   \* what each source serves
    dirs,       \* how far the directory of each snapshot has been written
    pointer,    \* current.json: the snapshot it names
    cache,      \* cache_state.json: a source and the ETag it answered with
    lock,       \* holder of .publication.lock
    fetch       \* what each process is doing, with its locals

vars == <<clock, upstream, dirs, pointer, cache, lock, fetch>>

-----------------------------------------------------------------------------
(* An ETag identifies the content it was answered with; a source may       *)
(* answer without one.                                                     *)

Tag == Content \union {None}

Locals == [pc: {"idle", "request", "compare", "unchanged", "lock", "check",
                "payload", "metadata", "pointer", "cache"},
           url: Urls \union {None}, tag: Tag, got: Tag, at: Times,
           attempt: 0..MaxAttempts]
Idle == [pc |-> "idle", url |-> None, tag |-> None, got |-> None, at |-> 0, attempt |-> 0]

TypeOK ==
    /\ clock \in Times
    /\ upstream \in [Urls -> Content]
    /\ dirs \in [Snapshot -> {"absent", "made", "payload", "complete"}]
    /\ pointer \in Snapshot \union {None}
    /\ cache \in [url: Urls \union {None}, tag: Tag]
    /\ lock \in Fetchers \union {None}
    /\ fetch \in [Fetchers -> Locals]

Init ==
    /\ clock = 0
    /\ upstream \in [Urls -> Content]
    /\ dirs = [s \in Snapshot |-> "absent"]
    /\ pointer = None
    /\ cache = [url |-> None, tag |-> None]
    /\ lock = None
    /\ fetch = [f \in Fetchers |-> Idle]

-----------------------------------------------------------------------------
(* ConditionalDownloader.fetch.                                            *)

\* The validators are read once, before the first attempt; every attempt
\* sends the same ones.
FetchCall(f) ==
    /\ fetch[f].pc = "idle"
    /\ \E u \in Urls :
        fetch' = [fetch EXCEPT ![f] =
            [pc |-> "request", url |-> u, tag |-> IF cache.url = u THEN cache.tag ELSE None,
             got |-> None, at |-> 0, attempt |-> 1]]
    /\ UNCHANGED <<clock, upstream, dirs, pointer, cache, lock>>

\* The whole body arrived in a temporary file; a source may ignore the
\* validators and send what it sent before.
Download(f) ==
    /\ fetch[f].pc = "request"
    /\ fetch' = [fetch EXCEPT ![f].pc = "compare", ![f].got = upstream[fetch[f].url]]
    /\ UNCHANGED <<clock, upstream, dirs, pointer, cache, lock>>

\* 304: the published snapshot is what the source serves, the call returns it
\* (or fails when nothing is published: 304 is not retried).
NotModified(f) ==
    /\ fetch[f].pc = "request"
    /\ fetch[f].tag = upstream[fetch[f].url]
    /\ fetch' = [fetch EXCEPT ![f] = Idle]
    /\ UNCHANGED <<clock, upstream, dirs, pointer, cache, lock>>

\* Faulty variant: the attempts are counted and never compared.
RetriesForEver(f) ==
    fetch' = [fetch EXCEPT ![f].pc = "request", ![f].attempt = @ + 1]

\* Another attempt, unless this was the last one or the time is up.
Retry(f) ==
    /\ fetch[f].attempt < MaxAttempts
    /\ fetch' = [fetch EXCEPT ![f].pc = "request", ![f].attempt = @ + 1]

\* A time-out, a lost connection, HTTP 429 or 5xx; or a failure that is not
\* retried: another HTTP status, a body that does not validate.
RequestFails(f) ==
    /\ fetch[f].pc = "request"
    /\ Retry(f) \/ fetch' = [fetch EXCEPT ![f] = Idle]
    /\ UNCHANGED <<clock, upstream, dirs, pointer, cache, lock>>

\* Faulty variant: the validators are stored as soon as the body is here.
CachesFirst(f) ==
    /\ fetch[f].pc = "compare"
    /\ cache' = [url |-> fetch[f].url, tag |-> fetch[f].got]
    /\ fetch' = [fetch EXCEPT ![f].pc =
                    IF pointer # None /\ pointer.content = fetch[f].got
                    THEN "unchanged" ELSE "lock"]
    /\ UNCHANGED <<clock, upstream, dirs, pointer, lock>>

\* The content is compared with the published one before the lock is taken.
Compare(f) ==
    /\ fetch[f].pc = "compare"
    /\ fetch' = [fetch EXCEPT ![f].pc =
                    IF pointer # None /\ pointer.content = fetch[f].got
                    THEN "unchanged" ELSE "lock"]
    /\ UNCHANGED <<clock, upstream, dirs, pointer, cache, lock>>

\* cache_state.json after UNCHANGED and after PUBLISHED.
WriteCache(f) ==
    /\ fetch[f].pc \in {"unchanged", "cache"}
    /\ \E tag \in {fetch[f].got, None} : cache' = [url |-> fetch[f].url, tag |-> tag]
    /\ fetch' = [fetch EXCEPT ![f] = Idle]
    /\ UNCHANGED <<clock, upstream, dirs, pointer, lock>>

-----------------------------------------------------------------------------
(* SnapshotStore.publish.                                                  *)

\* Faulty variant: publication is not serialized.
EntersUnlocked(f) ==
    /\ fetch[f].pc = "lock"
    /\ lock' = f
    /\ fetch' = [fetch EXCEPT ![f].pc = "check"]
    /\ UNCHANGED <<clock, upstream, dirs, pointer, cache>>

Acquire(f) ==
    /\ fetch[f].pc = "lock"
    /\ lock = None
    /\ lock' = f
    /\ fetch' = [fetch EXCEPT ![f].pc = "check"]
    /\ UNCHANGED <<clock, upstream, dirs, pointer, cache>>

New(f) == [content |-> fetch[f].got, at |-> fetch[f].at]

Acceptable(content) ==
    pointer # None => content.end >= pointer.content.end /\ content # pointer.content

\* Faulty variant: a directory that exists is written over.
ReusesDirectory(f) ==
    LET new == [content |-> fetch[f].got, at |-> clock] IN
    /\ fetch[f].pc = "check"
    /\ Acceptable(fetch[f].got)
    /\ dirs' = [dirs EXCEPT ![new] = "made"]
    /\ fetch' = [fetch EXCEPT ![f].pc = "payload", ![f].at = clock]
    /\ UNCHANGED <<clock, upstream, pointer, cache, lock>>

\* The directory of this second and content must not exist.
MakeDirectory(f) ==
    LET new == [content |-> fetch[f].got, at |-> clock] IN
    /\ fetch[f].pc = "check"
    /\ Acceptable(fetch[f].got)
    /\ dirs[new] = "absent"
    /\ dirs' = [dirs EXCEPT ![new] = "made"]
    /\ fetch' = [fetch EXCEPT ![f].pc = "payload", ![f].at = clock]
    /\ UNCHANGED <<clock, upstream, pointer, cache, lock>>

\* A temporal regression, content that is published already, a directory
\* that exists: the call fails and is not retried.
Refuse(f) ==
    /\ fetch[f].pc = "check"
    /\ ~Acceptable(fetch[f].got)
        \/ dirs[[content |-> fetch[f].got, at |-> clock]] # "absent"
    /\ lock' = None
    /\ fetch' = [fetch EXCEPT ![f] = Idle]
    /\ UNCHANGED <<clock, upstream, dirs, pointer, cache>>

WritePayload(f) ==
    /\ fetch[f].pc = "payload"
    /\ dirs' = [dirs EXCEPT ![New(f)] = "payload"]
    /\ fetch' = [fetch EXCEPT ![f].pc = "metadata"]
    /\ UNCHANGED <<clock, upstream, pointer, cache, lock>>

WriteMetadata(f) ==
    /\ fetch[f].pc = "metadata"
    /\ dirs' = [dirs EXCEPT ![New(f)] = "complete"]
    /\ fetch' = [fetch EXCEPT ![f].pc = "pointer"]
    /\ UNCHANGED <<clock, upstream, pointer, cache, lock>>

\* Faulty variant: the pointer may be replaced before the metadata is there.
PointsEarly(f) ==
    /\ fetch[f].pc \in {"metadata", "pointer"}
    /\ pointer' = New(f)
    /\ lock' = None
    /\ fetch' = [fetch EXCEPT ![f].pc = "cache"]
    /\ UNCHANGED <<clock, upstream, dirs, cache>>

MovePointer(f) ==
    /\ fetch[f].pc = "pointer"
    /\ pointer' = New(f)
    /\ lock' = None
    /\ fetch' = [fetch EXCEPT ![f].pc = "cache"]
    /\ UNCHANGED <<clock, upstream, dirs, cache>>

\* The operating system refuses the lock or a write, of a directory or of
\* cache_state.json; what was written stays, and the call may try again.
WriteFails(f) ==
    /\ fetch[f].pc \notin {"idle", "request", "compare"}
    /\ lock' = IF lock = f THEN None ELSE lock
    /\ Retry(f) \/ fetch' = [fetch EXCEPT ![f] = Idle]
    /\ UNCHANGED <<clock, upstream, dirs, pointer, cache>>

\* The process dies.
Die(f) ==
    /\ fetch[f].pc # "idle"
    /\ fetch' = [fetch EXCEPT ![f] = Idle]
    /\ lock' = IF lock = f THEN None ELSE lock
    /\ UNCHANGED <<clock, upstream, dirs, pointer, cache>>

-----------------------------------------------------------------------------
Tick ==
    /\ \E t \in Times : t > clock /\ clock' = t
    /\ UNCHANGED <<upstream, dirs, pointer, cache, lock, fetch>>

\* A source may serve anything next, older content included.
UpstreamChanges ==
    /\ \E u \in Urls, c \in Content : upstream' = [upstream EXCEPT ![u] = c]
    /\ UNCHANGED <<clock, dirs, pointer, cache, lock, fetch>>

Attempt(f) == Download(f) \/ NotModified(f) \/ RequestFails(f)

FetchStep(f) ==
    \/ Attempt(f) \/ Compare(f) \/ WriteCache(f) \/ Acquire(f)
    \/ MakeDirectory(f) \/ Refuse(f)
    \/ WritePayload(f) \/ WriteMetadata(f) \/ MovePointer(f) \/ WriteFails(f)

Next ==
    \/ \E f \in Fetchers : FetchCall(f) \/ FetchStep(f) \/ Die(f)
    \/ Tick \/ UpstreamChanges

Spec == Init /\ [][Next]_vars

-----------------------------------------------------------------------------
(* Properties.                                                             *)

\* The pointer names a directory whose payload and metadata are both there,
\* whatever failed or died in the middle of a publication ("No pointer
\* changed before the final replace", line 257).
PointerIsComplete == pointer # None => dirs[pointer] = "complete"

\* A 304 never hides content: what an ETag stands for, in cache_state.json or
\* on its way to the source, does not end later than what is published.
Covered(tag) == tag # None => pointer # None /\ tag.end <= pointer.content.end
\* Covered, for the stored validators and for those of every running fetch.
TagsAreCovered == Covered(cache.tag) /\ \A f \in Fetchers : Covered(fetch[f].tag)

\* A snapshot that was complete is never written again, so that a reader
\* that holds its path reads what its hash says.
CompleteIsImmutable ==
    [][\A s \in Snapshot : dirs[s] = "complete" => dirs'[s] = "complete"]_dirs

\* What a reader sees of the store; "torn" is a pointer to a directory that
\* is not complete, and no step of SnapshotHistory leads to it.
Published ==
    IF pointer = None THEN None
    ELSE IF dirs[pointer] = "complete" THEN pointer ELSE "torn"

Abstract == INSTANCE SnapshotHistory WITH current <- Published

\* The processes together publish one snapshot after the other, each as a
\* whole, and never go back in time.
ImplementsHistory == Abstract!History

-----------------------------------------------------------------------------
(* The inductive invariant.                                                *)

Publishing == {"check", "payload", "metadata", "pointer"}

OneHolder == \A f \in Fetchers : fetch[f].pc \in Publishing => lock = f

\* Content that was fetched is at hand until the call ends, and what is about
\* to be published still fits what is published.
FetchLocals ==
    \A f \in Fetchers :
        /\ fetch[f].pc \notin {"idle", "request"} => fetch[f].got \in Content
        /\ fetch[f].pc # "idle" => fetch[f].url \in Urls
        /\ fetch[f].pc \in {"unchanged", "cache"} => Covered(fetch[f].got)
        /\ fetch[f].pc \in {"payload", "metadata", "pointer"} =>
            /\ Acceptable(fetch[f].got)
            /\ pointer # None => fetch[f].at >= pointer.at
            /\ pointer # New(f)
        /\ fetch[f].pc = "payload" => dirs[New(f)] = "made"
        /\ fetch[f].pc = "metadata" => dirs[New(f)] = "payload"
        /\ fetch[f].pc = "pointer" => dirs[New(f)] = "complete"

\* Nothing was published in the future.
PublishedInThePast ==
    /\ pointer # None => pointer.at <= clock
    /\ \A f \in Fetchers : fetch[f].at <= clock

IInv ==
    /\ TypeOK
    /\ PointerIsComplete
    /\ TagsAreCovered
    /\ OneHolder
    /\ FetchLocals
    /\ PublishedInThePast
=============================================================================
