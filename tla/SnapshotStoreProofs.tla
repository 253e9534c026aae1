------------------------ MODULE SnapshotStoreProofs ------------------------
(***************************************************************************)
(* SnapshotStore, for any number of processes, sources, contents and       *)
(* seconds: the pointer always names a complete snapshot, cached ETags     *)
(* never run ahead of it, and the store implements SnapshotHistory.        *)
(***************************************************************************)
EXTENDS SnapshotStore, TLAPS

USE StoreDaysAssumption, StoreTimesAssumption, AttemptsAssumption

\* The store starts empty: the invariant holds.
LEMMA InitIInv == Init => IInv
  <1> SUFFICES ASSUME Init PROVE IInv
    OBVIOUS
  <1>1. Idle \in Locals
    BY DEF Idle, Locals, Tag
  <1>2. TypeOK
    BY <1>1 DEF Init, TypeOK, Tag
  <1>3. PointerIsComplete /\ TagsAreCovered /\ OneHolder /\ FetchLocals
    BY DEF Init, PointerIsComplete, TagsAreCovered, Covered, OneHolder, FetchLocals,
           Idle, Publishing
  <1>4. PublishedInThePast
    BY DEF Init, PublishedInThePast, Idle
  <1> QED
    BY <1>2, <1>3, <1>4 DEF IInv

\* The fields of the record a call is described by.
LEMMA LocalsFields ==
    ASSUME NEW l \in Locals
    PROVE  /\ l.url \in Urls \union {None}
           /\ l.tag \in Tag
           /\ l.got \in Tag
           /\ l.at \in Times
           /\ l.attempt \in 0..MaxAttempts
  BY DEF Locals

\* No call: nothing fetched, nothing to cover.
LEMMA IdleFields ==
    /\ Idle \in Locals /\ Idle.pc = "idle" /\ Idle.tag = None /\ Idle.at = 0
    /\ Idle.url = None /\ Idle.got = None
  BY DEF Idle, Locals, Tag

\* What is published covers what the snapshot before it covered.
LEMMA CoverGrows ==
    ASSUME TypeOK, NEW s \in Snapshot, Acceptable(s.content), pointer' = s,
           NEW tag \in Tag, Covered(tag)
    PROVE  Covered(tag)'
<1> SUFFICES ASSUME tag # None PROVE s # None /\ tag.end <= s.content.end
  BY DEF Covered
<1>1. s # None
  BY StoreNoneAssumption
<1>2. pointer \in Snapshot /\ tag.end <= pointer.content.end
  BY StoreNoneAssumption DEF Covered, TypeOK
<1>3. s.content.end >= pointer.content.end
  BY <1>2, StoreNoneAssumption DEF Acceptable
<1>4. tag.end \in Nat /\ s.content.end \in Nat /\ pointer.content.end \in Nat
  BY <1>2 DEF Snapshot, Content, Tag
<1> QED
  BY <1>1, <1>2, <1>3, <1>4

-----------------------------------------------------------------------------
(* One lemma per step: the invariant holds again after it.                 *)

\* A call that changes only its own locals, and gives up the lock when it
\* leaves the publication, disturbs nobody: it is enough to look at what it
\* holds now.
LEMMA OwnLocals ==
    ASSUME IInv, NEW f \in Fetchers, NEW l \in Locals,
           fetch' = [fetch EXCEPT ![f] = l],
           clock' \in Times, clock' >= clock, upstream' = upstream, dirs' = dirs, pointer' = pointer,
           cache' \in [url: Urls \union {None}, tag: Tag], Covered(cache'.tag),
           \/ l.pc \notin Publishing /\ lock' \in {lock, None} /\ (lock' = None => lock \in {f, None})
           \/ l.pc = "check" /\ lock' = f /\ lock \in {f, None},
           Covered(l.tag), l.at <= clock,
           l.pc \notin {"idle", "request"} => l.got \in Content,
           l.pc # "idle" => l.url \in Urls,
           l.pc \in {"unchanged", "cache"} => Covered(l.got)
    PROVE  IInv'
<1>1. \A g \in Fetchers : fetch'[g] = IF g = f THEN l ELSE fetch[g]
  BY DEF IInv, TypeOK
<1>2. \A g \in Fetchers : fetch[g] \in Locals /\ fetch'[g] \in Locals
  BY <1>1 DEF IInv, TypeOK
<1>3. TypeOK'
  BY <1>2 DEF IInv, TypeOK, Publishing
<1>4. PointerIsComplete'
  BY DEF IInv, PointerIsComplete
<1>5. TagsAreCovered'
  BY <1>1 DEF IInv, TagsAreCovered, Covered
<1>6. OneHolder'
  BY <1>1, StoreNoneAssumption DEF IInv, OneHolder, Publishing
<1>7. FetchLocals'
  <2> SUFFICES ASSUME NEW g \in Fetchers PROVE FetchLocals!(g)'
    BY DEF FetchLocals
  <2> QED
    BY <1>1, <1>2 DEF IInv, FetchLocals, Publishing, New, Acceptable, Covered
<1>8. PublishedInThePast'
  <2>1. /\ clock \in Nat /\ clock' \in Nat
        /\ pointer # None => pointer.at \in Nat
        /\ \A g \in Fetchers : fetch'[g].at \in Nat /\ fetch'[g].at <= clock
    BY <1>1, <1>2, LocalsFields DEF IInv, TypeOK, PublishedInThePast, Snapshot
  <2> QED
    BY <2>1 DEF IInv, PublishedInThePast
<1> QED
  BY <1>3, <1>4, <1>5, <1>6, <1>7, <1>8 DEF IInv

\* The steps of a call that neither write a directory nor move the pointer.
LEMMA OwnSteps ==
    ASSUME IInv, NEW f \in Fetchers,
           \/ FetchCall(f) \/ Attempt(f) \/ Compare(f) \/ WriteCache(f) \/ Acquire(f)
           \/ Refuse(f) \/ WriteFails(f) \/ Die(f)
    PROVE  IInv'
<1> DEFINE idle == fetch' = [fetch EXCEPT ![f] = Idle]
           retried == [fetch[f] EXCEPT !.pc = "request", !.attempt = @ + 1]
<1>0. /\ clock \in Times /\ clock \in Nat /\ clock >= clock /\ 0 <= clock
      /\ cache \in [url: Urls \union {None}, tag: Tag] /\ cache.tag \in Tag
      /\ fetch[f] \in Locals
  BY DEF IInv, TypeOK
<1>1. /\ fetch[f].tag \in Tag /\ fetch[f].at <= clock
      /\ Covered(fetch[f].tag) /\ Covered(cache.tag) /\ Covered(None)
  <2>1. fetch[f].tag \in Tag /\ Covered(None)
    BY <1>0, LocalsFields DEF Covered
  <2>2. fetch[f].at <= clock /\ Covered(fetch[f].tag) /\ Covered(cache.tag)
    BY DEF IInv, PublishedInThePast, TagsAreCovered
  <2> QED
    BY <2>1, <2>2
<1>2. ASSUME idle, UNCHANGED <<clock, upstream, dirs, pointer>>,
             cache' \in [url: Urls \union {None}, tag: Tag], Covered(cache'.tag),
             lock' \in {lock, None}, lock' = None => lock \in {f, None}
      PROVE  IInv'
  BY <1>0, <1>1, <1>2, IdleFields, OwnLocals DEF Publishing
<1>3. ASSUME Retry(f), UNCHANGED <<clock, upstream, dirs, pointer, cache>>,
             fetch[f].pc # "idle", lock' \in {lock, None}, lock' = None => lock \in {f, None}
      PROVE  IInv'
  <2>1. retried \in Locals
    <3>1. fetch[f].attempt + 1 \in 0..MaxAttempts
      BY <1>0, <1>3, LocalsFields DEF Retry
    <3> QED
      BY <1>0, <3>1 DEF Locals
  <2>2. retried.pc = "request" /\ retried.tag = fetch[f].tag /\ retried.at = fetch[f].at
        /\ retried.url = fetch[f].url
    BY <1>1 DEF Locals
  <2>3. fetch[f].url \in Urls
    BY <1>3 DEF IInv, FetchLocals
  <2>4. fetch' = [fetch EXCEPT ![f] = retried]
    BY <1>3 DEF Retry
  <2> HIDE DEF retried
  <2> QED
    BY <1>0, <1>1, <1>3, <2>1, <2>2, <2>3, <2>4, OwnLocals DEF Publishing
<1>4. ASSUME FetchCall(f) PROVE IInv'
  <2>1. PICK u \in Urls : fetch' = [fetch EXCEPT ![f] =
            [pc |-> "request", url |-> u, tag |-> IF cache.url = u THEN cache.tag ELSE None,
             got |-> None, at |-> 0, attempt |-> 1]]
    BY <1>4 DEF FetchCall
  <2> DEFINE tag == IF cache.url = u THEN cache.tag ELSE None
             l == [pc |-> "request", url |-> u, tag |-> tag,
                   got |-> None, at |-> 0, attempt |-> 1]
  <2>3. fetch' = [fetch EXCEPT ![f] = l]
    BY <2>1
  <2>0. tag \in {cache.tag, None} /\ tag \in Tag /\ None \in Tag
    BY <1>0 DEF Tag
  <2> HIDE DEF tag
  <2>2. l \in Locals /\ l.pc = "request" /\ l.tag \in {cache.tag, None} /\ l.at = 0 /\ l.url = u
    BY <2>0 DEF Locals
  <2> HIDE DEF l
  <2> QED
    <3>1. UNCHANGED <<clock, upstream, dirs, pointer, cache, lock>>
      BY <1>4 DEF FetchCall
    <3>2. /\ clock' \in Times /\ clock' >= clock /\ lock \in Fetchers \union {None}
          /\ cache' \in [url: Urls \union {None}, tag: Tag] /\ Covered(cache'.tag)
      BY <1>0, <1>1, <3>1 DEF IInv, TypeOK, Covered
    <3>3. Covered(l.tag) /\ l.at <= clock /\ l.url \in Urls
      BY <1>0, <1>1, <2>2
    <3>4. l.pc \notin Publishing \union {"idle", "unchanged", "cache"}
      BY <2>2 DEF Publishing
    <3> HIDE DEF idle, retried
    <3> QED
      BY <2>2, <2>3, <3>1, <3>2, <3>3, <3>4, OwnLocals
<1>5. ASSUME Download(f) PROVE IInv'
  <2> DEFINE l == [fetch[f] EXCEPT !.pc = "compare", !.got = upstream[fetch[f].url]]
  <2>1. upstream[fetch[f].url] \in Content
    BY <1>5 DEF Download, IInv, TypeOK, FetchLocals
  <2>2. /\ l \in Locals /\ l.pc = "compare" /\ l.tag = fetch[f].tag /\ l.at = fetch[f].at
        /\ l.url = fetch[f].url /\ l.got \in Content
    BY <1>0, <1>1, <2>1 DEF Locals, Tag
  <2>3. fetch' = [fetch EXCEPT ![f] = l] /\ fetch[f].url \in Urls
    BY <1>5 DEF Download, IInv, FetchLocals
  <2> HIDE DEF l
  <2> QED
    BY <1>0, <1>1, <1>5, <2>2, <2>3, OwnLocals DEF Download, Publishing
<1>6. ASSUME Compare(f) PROVE IInv'
  <2> DEFINE pc == IF pointer # None /\ pointer.content = fetch[f].got
                   THEN "unchanged" ELSE "lock"
             l == [fetch[f] EXCEPT !.pc = pc]
  <2>1. fetch[f].got \in Content /\ fetch[f].url \in Urls
    BY <1>6 DEF Compare, IInv, FetchLocals
  <2>2. pc \in {"unchanged", "lock"} /\ (pc = "unchanged" => Covered(fetch[f].got))
    <3>1. CASE pointer # None /\ pointer.content = fetch[f].got
      <4>1. fetch[f].got.end \in Nat
        BY <2>1 DEF Content
      <4> QED
        BY <3>1, <4>1 DEF Covered
    <3>2. CASE ~(pointer # None /\ pointer.content = fetch[f].got)
      BY <3>2
    <3> QED
      BY <3>1, <3>2
  <2> HIDE DEF pc
  <2>3. /\ l \in Locals /\ l.pc = pc /\ l.tag = fetch[f].tag /\ l.at = fetch[f].at
        /\ l.url = fetch[f].url /\ l.got = fetch[f].got
    BY <1>0, <1>1, <2>2 DEF Locals
  <2>4. fetch' = [fetch EXCEPT ![f] = l]
    BY <1>6 DEF Compare, pc
  <2> HIDE DEF l
  <2> QED
    BY <1>0, <1>1, <1>6, <2>1, <2>2, <2>3, <2>4, OwnLocals DEF Compare, Publishing
<1>7. ASSUME Acquire(f) PROVE IInv'
  <2> DEFINE l == [fetch[f] EXCEPT !.pc = "check"]
  <2>1. fetch[f].got \in Content /\ fetch[f].url \in Urls
    BY <1>7 DEF Acquire, IInv, FetchLocals
  <2>2. /\ l \in Locals /\ l.pc = "check" /\ l.tag = fetch[f].tag /\ l.at = fetch[f].at
        /\ l.url = fetch[f].url /\ l.got = fetch[f].got
    BY <1>0 DEF Locals
  <2>3. fetch' = [fetch EXCEPT ![f] = l]
    BY <1>7 DEF Acquire
  <2> HIDE DEF l
  <2> QED
    BY <1>0, <1>1, <1>7, <2>1, <2>2, <2>3, OwnLocals DEF Acquire, Publishing
<1>8. ASSUME WriteCache(f) PROVE IInv'
  <2>1. PICK tag \in {fetch[f].got, None} : cache' = [url |-> fetch[f].url, tag |-> tag]
    BY <1>8 DEF WriteCache
  <2>2. fetch[f].got \in Content /\ fetch[f].url \in Urls /\ Covered(fetch[f].got)
    BY <1>8 DEF WriteCache, IInv, FetchLocals
  <2>3. cache' \in [url: Urls \union {None}, tag: Tag] /\ cache'.tag = tag /\ Covered(tag)
    BY <1>0, <1>1, <2>1, <2>2 DEF Tag
  <2> QED
    BY <1>2, <1>8, <2>3 DEF WriteCache
<1>9. ASSUME NotModified(f) \/ RequestFails(f) \/ Refuse(f) \/ WriteFails(f) \/ Die(f)
      PROVE IInv'
  <2>1. cache \in [url: Urls \union {None}, tag: Tag]
    BY DEF IInv, TypeOK
  <2>2. fetch[f].pc \in Publishing => lock = f
    BY DEF IInv, OneHolder
  <2> QED
    BY <1>0, <1>1, <1>2, <1>3, <1>9, <2>1, <2>2
       DEF NotModified, RequestFails, Refuse, WriteFails, Die, Publishing
<1> QED
  BY <1>4, <1>5, <1>6, <1>7, <1>8, <1>9 DEF Attempt

\* Writing the directory: only the holder of the lock does, so the others'
\* locals do not speak of directories.
LEMMA DirectorySteps ==
    ASSUME IInv, NEW f \in Fetchers, NEW l \in Locals, NEW s \in Snapshot,
           NEW stage \in {"made", "payload", "complete"},
           fetch[f].pc \in Publishing, l.pc \in Publishing, lock' = lock,
           fetch' = [fetch EXCEPT ![f] = l],
           dirs' = [dirs EXCEPT ![s] = stage],
           UNCHANGED <<clock, upstream, pointer, cache>>,
           l.tag = fetch[f].tag, l.at <= clock, l.url \in Urls, l.got \in Content,
           s = [content |-> l.got, at |-> l.at], pointer # s,
           pointer # None => l.at >= pointer.at,
           l.pc # "check", Acceptable(l.got),
           l.pc = "payload" => stage = "made",
           l.pc = "metadata" => stage = "payload",
           l.pc = "pointer" => stage = "complete"
    PROVE  IInv'
<1>0. /\ fetch \in [Fetchers -> Locals] /\ dirs' \in [Snapshot -> {"absent", "made", "payload", "complete"}]
      /\ dirs'[s] = stage /\ \A t \in Snapshot : t # s => dirs'[t] = dirs[t]
      /\ clock' = clock /\ upstream' = upstream /\ pointer' = pointer /\ cache' = cache
  BY DEF IInv, TypeOK
<1>1. \A g \in Fetchers : fetch'[g] = IF g = f THEN l ELSE fetch[g]
  BY <1>0
<1>2. \A g \in Fetchers \ {f} : fetch[g].pc \notin Publishing
  BY DEF IInv, OneHolder
<1>3. TypeOK'
  BY <1>0 DEF IInv, TypeOK
<1>4. PointerIsComplete'
  BY <1>0 DEF IInv, PointerIsComplete, TypeOK
<1>5. TagsAreCovered'
  BY <1>0, <1>1 DEF IInv, TagsAreCovered, Covered
<1>6. OneHolder'
  BY <1>1, <1>2 DEF IInv, OneHolder
<1>7. FetchLocals'
  <2> SUFFICES ASSUME NEW g \in Fetchers PROVE FetchLocals!(g)'
    BY DEF FetchLocals
  <2>1. CASE g = f
    BY <1>0, <1>1, <2>1 DEF Publishing, New, Acceptable, Covered
  <2>2. CASE g # f
    BY <1>0, <1>1, <1>2, <2>2 DEF IInv, FetchLocals, Publishing, Covered
  <2> QED
    BY <2>1, <2>2
<1>8. PublishedInThePast'
  BY <1>0, <1>1 DEF IInv, PublishedInThePast
<1> QED
  BY <1>3, <1>4, <1>5, <1>6, <1>7, <1>8 DEF IInv

\* Moving the pointer: what is published now fits what was published.
LEMMA PointerStep ==
    ASSUME IInv, NEW f \in Fetchers, MovePointer(f)
    PROVE  /\ IInv'
           /\ pointer' = New(f) /\ New(f) \in Snapshot /\ dirs[New(f)] = "complete"
           /\ dirs' = dirs
           /\ pointer # None => New(f).at >= pointer.at
           /\ Acceptable(New(f).content)
<1> DEFINE l == [fetch[f] EXCEPT !.pc = "cache"]
<1>0. /\ fetch \in [Fetchers -> Locals] /\ fetch[f] \in Locals /\ fetch[f].at \in Times
      /\ \A g \in Fetchers : fetch[g].tag \in Tag
      /\ fetch[f].got \in Content /\ fetch[f].url \in Urls
      /\ cache.tag \in Tag
  BY LocalsFields DEF IInv, TypeOK, FetchLocals, MovePointer
<1>1. New(f) \in Snapshot /\ New(f).content = fetch[f].got /\ New(f).at = fetch[f].at
  BY <1>0 DEF New, Snapshot
<1>2. /\ Acceptable(fetch[f].got) /\ dirs[New(f)] = "complete"
      /\ pointer # None => fetch[f].at >= pointer.at
  BY DEF IInv, FetchLocals, MovePointer
<1>3. l \in Locals /\ l.pc = "cache" /\ l.tag = fetch[f].tag /\ l.got = fetch[f].got
      /\ l.url = fetch[f].url /\ l.at = fetch[f].at
  BY <1>0 DEF Locals
<1>4. /\ fetch' = [fetch EXCEPT ![f] = l] /\ pointer' = New(f) /\ lock' = None
      /\ clock' = clock /\ upstream' = upstream /\ dirs' = dirs /\ cache' = cache
  BY DEF MovePointer
<1> HIDE DEF l
<1>5. \A g \in Fetchers : fetch'[g] = IF g = f THEN l ELSE fetch[g]
  BY <1>0, <1>4
<1>6. \A g \in Fetchers \ {f} : fetch[g].pc \notin Publishing
  BY DEF IInv, OneHolder, MovePointer, Publishing
<1>7. TypeOK'
  BY <1>0, <1>1, <1>3, <1>4 DEF IInv, TypeOK
<1>8. PointerIsComplete'
  BY <1>2, <1>4 DEF PointerIsComplete
<1>9. TypeOK /\ \A tag \in Tag : Covered(tag) => Covered(tag)'
  BY <1>1, <1>2, <1>4, CoverGrows DEF IInv
<1>10. TagsAreCovered'
  <2>1. Covered(cache.tag)' /\ \A g \in Fetchers : Covered(fetch[g].tag) /\ fetch'[g].tag = fetch[g].tag
    BY <1>0, <1>3, <1>4, <1>5, <1>9 DEF IInv, TagsAreCovered, Covered
  <2>2. ASSUME NEW g \in Fetchers PROVE Covered(fetch[g].tag)'
    <3> DEFINE t == fetch[g].tag
    <3>1. t # None => pointer' # None /\ t.end <= pointer'.content.end
      <4>1. \A tag \in Tag : Covered(tag) =>
              (tag # None => pointer' # None /\ tag.end <= pointer'.content.end)
        BY <1>9 DEF Covered
      <4> QED
        BY <1>0, <2>1, <4>1
    <3> QED
      BY <2>1, <3>1 DEF Covered
  <2> QED
    BY <2>1, <2>2 DEF TagsAreCovered
<1>11. OneHolder'
  BY <1>3, <1>5, <1>6 DEF OneHolder, Publishing
<1>12. FetchLocals'
  <2> SUFFICES ASSUME NEW g \in Fetchers PROVE FetchLocals!(g)'
    BY DEF FetchLocals
  <2>1. CASE g = f
    <3>1. fetch[f].got.end \in Nat /\ New(f) # None
      BY <1>0, <1>1, StoreNoneAssumption DEF Content
    <3>2. Covered(fetch[f].got)'
      BY <1>1, <1>3, <1>4, <1>5, <3>1 DEF Covered
    <3> QED
      BY <1>0, <1>3, <1>5, <2>1, <3>2
  <2>2. CASE g # f
    <3>1. fetch'[g] = fetch[g] /\ fetch[g].pc \notin Publishing
      BY <1>5, <1>6, <2>2
    <3>2. fetch[g].pc \in {"unchanged", "cache"} => Covered(fetch[g].got)'
      <4>1. SUFFICES ASSUME fetch[g].pc \in {"unchanged", "cache"}
                     PROVE  fetch[g].got # None =>
                                pointer' # None /\ fetch[g].got.end <= pointer'.content.end
        BY <3>1 DEF Covered
      <4>2. fetch[g].got \in Tag /\ Covered(fetch[g].got)
        BY <4>1 DEF IInv, FetchLocals, Tag
      <4> QED
        BY <1>9, <4>2 DEF Covered
    <3> QED
      BY <3>1, <3>2 DEF IInv, FetchLocals, Publishing
  <2> QED
    BY <2>1, <2>2
<1>13. PublishedInThePast'
  BY <1>1, <1>3, <1>4, <1>5 DEF IInv, PublishedInThePast
<1> QED
  BY <1>1, <1>2, <1>4, <1>7, <1>8, <1>10, <1>11, <1>12, <1>13 DEF IInv

\* The three steps that write the directory of the snapshot.
LEMMA PublishingSteps ==
    ASSUME IInv, NEW f \in Fetchers,
           MakeDirectory(f) \/ WritePayload(f) \/ WriteMetadata(f)
    PROVE  /\ IInv'
           /\ \E s \in Snapshot, stage \in {"made", "payload", "complete"} :
                /\ dirs' = [dirs EXCEPT ![s] = stage]
                /\ dirs[s] # "complete"
<1>0. /\ fetch[f] \in Locals /\ clock \in Times /\ clock \in Nat /\ clock >= clock
      /\ fetch[f].at \in Times /\ fetch[f].at <= clock
      /\ fetch[f].got \in Content /\ fetch[f].url \in Urls
  BY LocalsFields
     DEF IInv, TypeOK, FetchLocals, PublishedInThePast, MakeDirectory, WritePayload, WriteMetadata
<1>1. CASE MakeDirectory(f)
  <2> DEFINE new == [content |-> fetch[f].got, at |-> clock]
             l == [fetch[f] EXCEPT !.pc = "payload", !.at = clock]
  <2>1. new \in Snapshot
    BY <1>0 DEF Snapshot
  <2>2. /\ l \in Locals /\ l.pc = "payload" /\ l.tag = fetch[f].tag
        /\ l.got = fetch[f].got /\ l.url = fetch[f].url /\ l.at = clock
    BY <1>0 DEF Locals
  <2>3. /\ dirs' = [dirs EXCEPT ![new] = "made"] /\ fetch' = [fetch EXCEPT ![f] = l]
        /\ fetch[f].pc = "check" /\ Acceptable(fetch[f].got) /\ dirs[new] = "absent"
        /\ UNCHANGED <<clock, upstream, pointer, cache>> /\ lock' = lock
    BY <1>1 DEF MakeDirectory
  <2>4. new = [content |-> l.got, at |-> l.at]
    BY <2>2
  <2>5. pointer # new /\ (pointer # None => l.at >= pointer.at)
    BY <2>1, <2>2, <2>3, StoreNoneAssumption DEF IInv, PointerIsComplete, PublishedInThePast
  <2> HIDE DEF new, l
  <2>6. IInv'
    BY <1>0, <2>1, <2>2, <2>3, <2>4, <2>5, DirectorySteps DEF Publishing
  <2> QED
    BY <2>1, <2>3, <2>6
<1>2. CASE WritePayload(f) \/ WriteMetadata(f)
  <2> DEFINE pc == IF WritePayload(f) THEN "metadata" ELSE "pointer"
             stage == IF WritePayload(f) THEN "payload" ELSE "complete"
             l == [fetch[f] EXCEPT !.pc = pc]
             new == New(f)
  <2>1. new \in Snapshot /\ new = [content |-> fetch[f].got, at |-> fetch[f].at]
    BY <1>0 DEF New, Snapshot
  <2>2. /\ pc \in {"metadata", "pointer"} /\ stage \in {"payload", "complete"}
        /\ (pc = "metadata" => stage = "payload") /\ (pc = "pointer" => stage = "complete")
    OBVIOUS
  <2>3. /\ dirs' = [dirs EXCEPT ![new] = stage] /\ fetch' = [fetch EXCEPT ![f] = l]
        /\ fetch[f].pc \in {"payload", "metadata"}
        /\ UNCHANGED <<clock, upstream, pointer, cache>> /\ lock' = lock
    BY <1>2 DEF WritePayload, WriteMetadata
  <2> HIDE DEF pc, stage
  <2>4. /\ l \in Locals /\ l.pc = pc /\ l.tag = fetch[f].tag
        /\ l.got = fetch[f].got /\ l.url = fetch[f].url /\ l.at = fetch[f].at
    BY <1>0, <2>2 DEF Locals
  <2>5. /\ Acceptable(fetch[f].got) /\ pointer # new /\ dirs[new] \in {"made", "payload"}
        /\ pointer # None => fetch[f].at >= pointer.at
    BY <2>3 DEF IInv, FetchLocals
  <2> HIDE DEF new, l
  <2>6. IInv'
    BY <1>0, <2>1, <2>2, <2>3, <2>4, <2>5, DirectorySteps DEF Publishing
  <2> QED
    BY <2>1, <2>2, <2>3, <2>5, <2>6
<1> QED
  BY <1>1, <1>2

\* The clock and the sources move on by themselves.
LEMMA OutsideSteps == ASSUME IInv, Tick \/ UpstreamChanges PROVE IInv'
<1>1. CASE Tick
  <2>1. clock' \in Times /\ clock' > clock /\ UNCHANGED <<upstream, dirs, pointer, cache, lock, fetch>>
    BY <1>1 DEF Tick
  <2>2. PublishedInThePast'
    <3>1. /\ clock \in Nat /\ clock' \in Nat
          /\ pointer # None => pointer.at \in Nat
          /\ \A g \in Fetchers : fetch[g].at \in Nat
      BY <2>1, LocalsFields DEF IInv, TypeOK, Snapshot
    <3> QED
      BY <2>1, <3>1 DEF IInv, PublishedInThePast
  <2> QED
    BY <2>1, <2>2
       DEF IInv, TypeOK, PointerIsComplete, TagsAreCovered, Covered, OneHolder, FetchLocals,
           New, Acceptable
<1>2. CASE UpstreamChanges
  <2>1. upstream' \in [Urls -> Content] /\ UNCHANGED <<clock, dirs, pointer, cache, lock, fetch>>
    BY <1>2 DEF UpstreamChanges, IInv, TypeOK
  <2> QED
    BY <2>1
       DEF IInv, TypeOK, PointerIsComplete, TagsAreCovered, Covered, OneHolder, FetchLocals,
           New, Acceptable, PublishedInThePast
<1> QED
  BY <1>1, <1>2

\* What every step does to the directories and the pointer.
LEMMA Step ==
    ASSUME IInv, [Next]_vars
    PROVE  /\ IInv'
           /\ \/ dirs' = dirs /\ pointer' = pointer
              \/ /\ pointer' = pointer
                 /\ \E s \in Snapshot, stage \in {"made", "payload", "complete"} :
                        dirs' = [dirs EXCEPT ![s] = stage] /\ dirs[s] # "complete"
              \/ /\ dirs' = dirs /\ pointer' \in Snapshot /\ dirs[pointer'] = "complete"
                 /\ pointer # None => pointer'.at >= pointer.at
                 /\ Acceptable(pointer'.content)
<1>1. ASSUME NEW f \in Fetchers,
             \/ FetchCall(f) \/ Attempt(f) \/ Compare(f) \/ WriteCache(f) \/ Acquire(f)
             \/ Refuse(f) \/ WriteFails(f) \/ Die(f)
      PROVE  IInv' /\ dirs' = dirs /\ pointer' = pointer
  BY <1>1, OwnSteps
     DEF FetchCall, Attempt, Download, NotModified, RequestFails, Compare, WriteCache,
         Acquire, Refuse, WriteFails, Die
<1>2. ASSUME NEW f \in Fetchers, MakeDirectory(f) \/ WritePayload(f) \/ WriteMetadata(f)
      PROVE  /\ IInv' /\ pointer' = pointer
             /\ \E s \in Snapshot, stage \in {"made", "payload", "complete"} :
                    dirs' = [dirs EXCEPT ![s] = stage] /\ dirs[s] # "complete"
  BY <1>2, PublishingSteps DEF MakeDirectory, WritePayload, WriteMetadata
<1>3. ASSUME NEW f \in Fetchers, MovePointer(f)
      PROVE  /\ IInv' /\ dirs' = dirs /\ pointer' \in Snapshot /\ dirs[pointer'] = "complete"
             /\ pointer # None => pointer'.at >= pointer.at
             /\ Acceptable(pointer'.content)
  BY <1>3, PointerStep
<1>4. ASSUME Tick \/ UpstreamChanges PROVE IInv' /\ dirs' = dirs /\ pointer' = pointer
  BY <1>4, OutsideSteps DEF Tick, UpstreamChanges
<1>5. ASSUME UNCHANGED vars PROVE IInv' /\ dirs' = dirs /\ pointer' = pointer
  BY <1>5
     DEF vars, IInv, TypeOK, PointerIsComplete, TagsAreCovered, Covered, OneHolder, FetchLocals,
         New, Acceptable, PublishedInThePast
<1> QED
  BY <1>1, <1>2, <1>3, <1>4, <1>5 DEF Next, FetchStep

-----------------------------------------------------------------------------
\* Every reachable state satisfies the inductive invariant.
THEOREM StoreInvariant == Spec => []IInv
<1>1. IInv /\ [Next]_vars => IInv'
  BY Step
<1> QED
  BY InitIInv, <1>1, PTL DEF Spec

\* The variables keep their types.
THEOREM StoreTypes == Spec => []TypeOK
<1>1. IInv => TypeOK
  BY DEF IInv
<1> QED
  BY <1>1, StoreInvariant, PTL

\* The pointer never names a snapshot that is not completely written,
\* however many processes publish and die.
THEOREM PointerAlwaysComplete == Spec => []PointerIsComplete
<1>1. IInv => PointerIsComplete
  BY DEF IInv
<1> QED
  BY <1>1, StoreInvariant, PTL

\* An answer 304 never hides content that is not published.
THEOREM TagsAlwaysCovered == Spec => []TagsAreCovered
<1>1. IInv => TagsAreCovered
  BY DEF IInv
<1> QED
  BY <1>1, StoreInvariant, PTL

\* No step writes into a complete snapshot.
THEOREM CompleteStaysImmutable == Spec => CompleteIsImmutable
<1>1. IInv /\ [Next]_vars =>
        [\A s \in Snapshot : dirs[s] = "complete" => dirs'[s] = "complete"]_dirs
  <2> SUFFICES ASSUME IInv, [Next]_vars, NEW s \in Snapshot, dirs[s] = "complete"
               PROVE  dirs'[s] = "complete"
    OBVIOUS
  <2>1. dirs' = dirs \/ \E t \in Snapshot, stage \in {"made", "payload", "complete"} :
                            dirs' = [dirs EXCEPT ![t] = stage] /\ dirs[t] # "complete"
    BY Step
  <2> QED
    BY <2>1 DEF IInv, TypeOK
<1> QED
  BY <1>1, StoreInvariant, PTL DEF Spec, CompleteIsImmutable

\* The store implements SnapshotHistory.
THEOREM HistoryImplemented == Spec => ImplementsHistory
<1>1. Init => Abstract!Empty
  BY DEF Init, Abstract!Empty, Published
<1>2. IInv /\ [Next]_vars => [Abstract!Publish]_Published
  <2> SUFFICES ASSUME IInv, [Next]_vars, Published' # Published PROVE Abstract!Publish
    BY DEF Abstract!Publish
  <2>1. Published = pointer
    BY DEF Published, IInv, PointerIsComplete
  <2>2. Published' = pointer'
    BY Step DEF Published, IInv, PointerIsComplete
  <2>3. /\ pointer' \in Snapshot
        /\ pointer # None => pointer'.at >= pointer.at
        /\ Acceptable(pointer'.content)
    BY <2>1, <2>2, Step
  <2> QED
    BY <2>1, <2>2, <2>3
       DEF Abstract!Publish, Abstract!Follows, Abstract!Snapshot, Abstract!Content,
           Snapshot, Content, Acceptable
<1> QED
  BY <1>1, <1>2, StoreInvariant, PTL DEF Spec, ImplementsHistory, Abstract!History
=============================================================================
