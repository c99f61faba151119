------------------------- MODULE TokenServiceProofs -------------------------
(***************************************************************************)
(* Proofs about TokenService for every number of subscribers, tokens and   *)
(* requests, every TTL and every mix of faults.                            *)
(***************************************************************************)
EXTENDS TokenService, TLAPS

\* Every row is of a drawn value, of a subscriber and due within TTL.
RowsOK ==
    \A t \in Token :
        tokens[t] # NoRow =>
            /\ t \in drawn
            /\ tokens[t].sub \in Sub
            /\ tokens[t].expires <= now + TTL

\* Every cached copy is backed, by a row that is there.
CacheOK ==
    /\ CacheIsBacked
    /\ \A t \in Token : cached[t] # NoEntry => cached[t].sub \in Sub

\* What a job that is about to make call c relies on, d being its data: a value to
\* be inserted is new to the table, and what is to be cached is what the table has.
JobOK(c, d) ==
    /\ c # "idle" => d.token \in drawn
    /\ c \in {"build", "insert", "cacheSet", "recache"} => d.sub \in Sub
    /\ c = "insert" => tokens[d.token] = NoRow /\ d.expires <= now + TTL
    /\ c \in {"cacheSet", "recache"} =>
         tokens[d.token] = [sub |-> d.sub, expires |-> d.expires]
    /\ c = "unauthorized" /\ d.err = "notFound" /\ tokens[d.token] # NoRow =>
         Expired(tokens[d.token].expires)

JobsOK == \A j \in Job : JobOK(pc[j], job[j])

\* A token that is being generated is the business of one job only.
Apart ==
    \A j, k \in Job :
        j # k /\ Generating(j) /\ pc[k] # "idle" => job[j].token # job[k].token

\* The inductive invariant.
IInv == TypeOK /\ RowsOK /\ CacheOK /\ JobsOK /\ Apart

-----------------------------------------------------------------------------
(* Facts about the values *)

\* The absent row, entry and job have their types.
LEMMA NothingTyped == NoRow \in Row /\ NoEntry \in Entry /\ NoJob \in JobData
BY ConstantsOK DEF NoRow, Row, NoEntry, Entry, NoJob, JobData

\* A row of a subscriber is not the absent row, and an entry likewise.
LEMMA SubPresent ==
    ASSUME NEW sub \in Sub, NEW n, NEW m
    PROVE  /\ [sub |-> sub, expires |-> n] # NoRow
           /\ [sub |-> sub, expires |-> n, evict |-> m] # NoEntry
BY ConstantsOK DEF NoRow, NoEntry

\* A cached copy has the subscriber and the deadline of its row.
LEMMA BackedBy ==
    ASSUME TypeOK, CacheOK, NEW t \in Token, cached[t] # NoEntry
    PROVE  /\ tokens[t] # NoRow
           /\ tokens[t].sub = cached[t].sub /\ cached[t].sub \in Sub
           /\ tokens[t].expires = cached[t].expires
<1> DEFINE e == cached[t]
<1>1. e.sub \in Sub /\ tokens[t] = [sub |-> e.sub, expires |-> e.expires]
  BY DEF CacheOK, CacheIsBacked
<1>2. tokens[t] # NoRow
  BY <1>1, SubPresent
<1> QED
  BY <1>1, <1>2

\* A job that is not idle has a token.
LEMMA JobToken ==
    ASSUME IInv, NEW j \in Job, pc[j] # "idle"
    PROVE  job[j] \in JobData /\ job[j].token \in Token /\ job[j].token \in drawn
BY DEF IInv, TypeOK, JobsOK, JobOK

-----------------------------------------------------------------------------
(* Steps that leave the stores alone *)

\* A step of one job to a call it is ready for keeps the invariant, provided that
\* the call is not one of generation unless it was already.
LEMMA JobStep ==
    ASSUME IInv, NEW j \in Job, NEW c \in Calls, NEW d \in JobData,
           pc' = [pc EXCEPT ![j] = c], job' = [job EXCEPT ![j] = d],
           UNCHANGED <<now, stores, drawn>>,
           JobOK(c, d),
           c \notin {"insert", "cacheSet", "scopeSet"},
           \/ c = "idle"
           \/ \A k \in Job : k # j /\ Generating(k) => job[k].token # d.token
    PROVE  IInv'
<1>1. TypeOK'
  BY DEF IInv, TypeOK, stores
<1>2. RowsOK' /\ CacheOK'
  BY DEF IInv, RowsOK, CacheOK, CacheIsBacked, stores
<1>3. JobsOK'
  BY DEF IInv, TypeOK, JobsOK, JobOK, Expired, stores
<1>4. Apart'
  BY DEF IInv, TypeOK, Apart, Generating
<1> QED
  BY <1>1, <1>2, <1>3, <1>4 DEF IInv

\* The idle job relies on nothing.
LEMMA IdleOK == JobOK("idle", NoJob)
BY DEF JobOK

\* The reply is written.
LEMMA FinishKeeps ==
    ASSUME IInv, NEW j \in Job, Finish(j), UNCHANGED <<now, stores, drawn>>
    PROVE  IInv'
BY JobStep, IdleOK, NothingTyped DEF Finish, Goto, Calls

\* A request arrives with a token that nobody is generating.
LEMMA PresentKeeps ==
    ASSUME IInv, NEW j \in Job, Present(j)
    PROVE  IInv'
<1>1. PICK t \in drawn :
        /\ \A k \in Job : Generating(k) => job[k].token # t
        /\ job' = [job EXCEPT ![j] = [job[j] EXCEPT !.token = t]]
  BY DEF Present, IInv, TypeOK
<1> DEFINE d == [job[j] EXCEPT !.token = t]
<1>2. d \in JobData /\ d.token = t
  BY <1>1 DEF IInv, TypeOK, JobData
<1>3. JobOK("cacheGet", d)
  BY <1>1, <1>2 DEF JobOK
<1> QED
  BY <1>1, <1>2, <1>3, JobStep DEF Present, Goto, Calls

\* A job that is not generating shares its token with none that is.
LEMMA NotShared ==
    ASSUME IInv, NEW j \in Job, pc[j] # "idle"
    PROVE  \A k \in Job : k # j /\ Generating(k) => job[k].token # job[j].token
BY DEF IInv, Apart

\* The lookup in the cache: the entry is that of a row.
LEMMA CacheHitKeeps ==
    ASSUME IInv, NEW j \in Job, CacheHit(j)
    PROVE  IInv'
<1> DEFINE entry == cached[job[j].token]
           d == [job[j] EXCEPT !.sub = entry.sub]
<1>1. job[j] \in JobData /\ job[j].token \in Token /\ job[j].token \in drawn
  BY JobToken DEF CacheHit
<1>2. entry.sub \in Sub
  BY <1>1, BackedBy DEF IInv, CacheHit, Live
<1>3. d \in JobData /\ d.token = job[j].token /\ d.sub = entry.sub
  BY <1>1, <1>2 DEF JobData
<1>4. JobOK("build", d)
  BY <1>1, <1>2, <1>3 DEF JobOK
<1>5. job' = [job EXCEPT ![j] = d] /\ pc' = [pc EXCEPT ![j] = "build"]
  BY DEF CacheHit, Goto
<1>6. UNCHANGED <<now, stores, drawn>> /\ pc[j] # "idle"
  BY DEF CacheHit
<1> QED
  BY <1>3, <1>4, <1>5, <1>6, JobStep, NotShared DEF Calls

\* Nothing found, or something to be deleted: only the next call changes.
LEMMA CacheMissKeeps ==
    ASSUME IInv, NEW j \in Job, CacheExpired(j) \/ CacheMiss(j)
    PROVE  IInv'
<1>1. job[j] \in JobData /\ job[j].token \in drawn /\ pc[j] # "idle"
  BY JobToken DEF CacheExpired, CacheMiss
<1>2. PICK c \in {"cacheDel", "find"} : pc' = [pc EXCEPT ![j] = c]
  BY DEF CacheExpired, CacheMiss, Goto
<1>3. JobOK(c, job[j])
  BY <1>1 DEF JobOK
<1>4. job' = [job EXCEPT ![j] = job[j]] /\ UNCHANGED <<now, stores, drawn>>
  BY DEF CacheExpired, CacheMiss, IInv, TypeOK
<1>5. \A k \in Job : k # j /\ Generating(k) => job[k].token # job[j].token
  BY <1>1, NotShared
<1>6. c \in Calls /\ c \notin {"insert", "cacheSet", "scopeSet"}
  BY DEF Calls
<1> QED
  BY <1>1, <1>2, <1>3, <1>4, <1>5, <1>6, JobStep

\* The row is there, and what is left of its time is at most TTL.
LEMMA FoundKeeps ==
    ASSUME IInv, NEW j \in Job, Found(j)
    PROVE  IInv'
<1> DEFINE row == tokens[job[j].token]
           d == [job[j] EXCEPT !.sub = row.sub, !.expires = row.expires,
                               !.ttl = Remaining(row.expires)]
<1>1. job[j] \in JobData /\ job[j].token \in Token /\ job[j].token \in drawn
  BY JobToken DEF Found
<1>2. row \in Row /\ row.sub \in Sub /\ row.expires \in Nat /\ row.expires <= now + TTL
  BY <1>1 DEF IInv, TypeOK, RowsOK, Found, Row
<1>3. Remaining(row.expires) \in 0 .. TTL
  BY <1>2, ConstantsOK DEF IInv, TypeOK, Found, Expired, Remaining
<1>4. /\ d \in JobData /\ d.token = job[j].token
      /\ d.sub = row.sub /\ d.expires = row.expires
  BY <1>1, <1>2, <1>3 DEF JobData
<1>5. row = [sub |-> row.sub, expires |-> row.expires]
  BY <1>2 DEF Row
<1>6. PICK c \in {"recache", "build"} : pc' = [pc EXCEPT ![j] = c]
  BY DEF Found, Goto
<1>7. JobOK(c, d)
  BY <1>1, <1>2, <1>4, <1>5 DEF JobOK
<1>8. job' = [job EXCEPT ![j] = d]
  BY DEF Found
<1>9. UNCHANGED <<now, stores, drawn>> /\ pc[j] # "idle"
  BY DEF Found
<1>10. \A k \in Job : k # j /\ Generating(k) => job[k].token # d.token
  BY <1>4, <1>9, NotShared
<1>11. c \in Calls /\ c \notin {"insert", "cacheSet", "scopeSet"}
  BY DEF Calls
<1> HIDE DEF d
<1> QED
  BY <1>4, <1>6, <1>7, <1>8, <1>9, <1>10, <1>11, JobStep

\* The request is refused; if as unknown, then a row is past its deadline.
LEMMA RefuseKeeps ==
    ASSUME IInv, NEW j \in Job, NotFound(j) \/ FindFails(j)
    PROVE  IInv'
<1>1. job[j] \in JobData /\ job[j].token \in drawn /\ pc[j] # "idle"
  BY JobToken DEF NotFound, FindFails
<1>2. PICK e \in {"notFound", "other"} :
        /\ job' = [job EXCEPT ![j] = [job[j] EXCEPT !.err = e]]
        /\ e = "notFound" /\ tokens[job[j].token] # NoRow =>
             Expired(tokens[job[j].token].expires)
  BY DEF NotFound, FindFails, Refuse
<1> DEFINE d == [job[j] EXCEPT !.err = e]
<1>3. d \in JobData /\ d.token = job[j].token /\ d.err = e
  BY <1>1 DEF JobData
<1>4. JobOK("unauthorized", d)
  BY <1>1, <1>2, <1>3 DEF JobOK
<1>5. pc' = [pc EXCEPT ![j] = "unauthorized"] /\ UNCHANGED <<now, stores, drawn>>
  BY DEF NotFound, FindFails, Refuse, Goto
<1> QED
  BY <1>1, <1>2, <1>3, <1>4, <1>5, JobStep, NotShared DEF Calls

-----------------------------------------------------------------------------
(* Steps that change a store *)

\* A SET from a row writes a copy of it, or nothing.
LEMMA CacheSetBacked ==
    ASSUME IInv, NEW t \in Token, NEW sub \in Sub, NEW expires \in Nat, NEW ttl \in Nat,
           tokens[t] = [sub |-> sub, expires |-> expires],
           NEW c \in CacheSetOutcomes(t, sub, expires, ttl)
    PROVE  /\ c \in [Token -> Entry]
           /\ \A u \in Token : c[u] # NoEntry =>
                /\ tokens[u] = [sub |-> c[u].sub, expires |-> c[u].expires]
                /\ c[u].sub \in Sub
<1> DEFINE e == [sub |-> sub, expires |-> expires, evict |-> now + ttl]
<1>1. e \in Entry /\ e.sub = sub /\ e.expires = expires
  BY DEF IInv, TypeOK, Entry
<1>2. c = cached \/ c = [cached EXCEPT ![t] = e]
  BY DEF CacheSetOutcomes
<1>3. cached \in [Token -> Entry]
  BY DEF IInv, TypeOK
<1>4. \A u \in Token : cached[u] # NoEntry =>
        /\ tokens[u] = [sub |-> cached[u].sub, expires |-> cached[u].expires]
        /\ cached[u].sub \in Sub
  BY DEF IInv, CacheOK, CacheIsBacked
<1> HIDE DEF e
<1> QED
  BY <1>1, <1>2, <1>3, <1>4

\* A cached copy, set when re-caching or after the INSERT, is one of a row.
LEMMA CachingKeeps ==
    ASSUME IInv, NEW j \in Job, Recache(j) \/ CacheSet(j)
    PROVE  IInv'
<1> DEFINE d == job[j]
<1>1. pc[j] \in {"recache", "cacheSet"}
  BY DEF Recache, CacheSet
<1>2. d \in JobData /\ d.token \in Token /\ d.token \in drawn
  BY <1>1, JobToken
<1>3. d.sub \in Sub /\ tokens[d.token] = [sub |-> d.sub, expires |-> d.expires]
  BY <1>1 DEF IInv, JobsOK, JobOK
<1>4. d.expires \in Nat /\ d.ttl \in Nat
  BY <1>2, ConstantsOK DEF JobData
<1>5. /\ cached' \in CacheSetOutcomes(d.token, d.sub, d.expires, d.ttl)
      /\ UNCHANGED <<now, job, tokens, scopes, drawn>>
  BY DEF Recache, CacheSet
<1>6. /\ cached' \in [Token -> Entry]
      /\ \A u \in Token : cached'[u] # NoEntry =>
           /\ tokens[u] = [sub |-> cached'[u].sub, expires |-> cached'[u].expires]
           /\ cached'[u].sub \in Sub
  BY <1>2, <1>3, <1>4, <1>5, CacheSetBacked
<1>7. PICK c \in {"build", "scopeSet"} :
        pc' = [pc EXCEPT ![j] = c] /\ (c = "scopeSet" <=> pc[j] = "cacheSet")
  BY DEF Recache, CacheSet, Goto
<1>8. TypeOK'
  BY <1>5, <1>6, <1>7 DEF IInv, TypeOK, Calls
<1>9. RowsOK' /\ CacheOK'
  BY <1>5, <1>6 DEF IInv, RowsOK, CacheOK, CacheIsBacked
<1>10. JobsOK'
  BY <1>2, <1>3, <1>5, <1>7 DEF IInv, TypeOK, JobsOK, JobOK, Expired
<1>11. Apart'
  BY <1>1, <1>5, <1>7 DEF IInv, TypeOK, Apart, Generating
<1> QED
  BY <1>8, <1>9, <1>10, <1>11 DEF IInv

\* The expired entry goes, or stays.
LEMMA CacheDelKeeps ==
    ASSUME IInv, NEW j \in Job, CacheDel(j)
    PROVE  IInv'
<1>1. job[j] \in JobData /\ job[j].token \in Token /\ job[j].token \in drawn
  BY JobToken DEF CacheDel
<1>2. cached' = cached \/ cached' = [cached EXCEPT ![job[j].token] = NoEntry]
  BY DEF CacheDel, DelOutcomes, IInv, TypeOK
<1>3. /\ pc' = [pc EXCEPT ![j] = "find"] /\ pc[j] = "cacheDel"
      /\ UNCHANGED <<now, job, tokens, scopes, drawn>>
  BY DEF CacheDel, Goto
<1>4. TypeOK'
  BY <1>2, <1>3, NothingTyped DEF IInv, TypeOK, Calls
<1>5. RowsOK' /\ CacheOK'
  BY <1>1, <1>2, <1>3 DEF IInv, TypeOK, RowsOK, CacheOK, CacheIsBacked
<1>6. JobsOK'
  BY <1>1, <1>3 DEF IInv, TypeOK, JobsOK, JobOK, Expired
<1>7. Apart'
  BY <1>3 DEF IInv, TypeOK, Apart, Generating
<1> QED
  BY <1>4, <1>5, <1>6, <1>7 DEF IInv

\* A fresh value is in no row, and no other job has it.
LEMMA DrawKeeps ==
    ASSUME IInv, NEW j \in Job, NEW sub \in Sub, Draw(j, sub), UNCHANGED <<now, stores>>
    PROVE  IInv'
<1>1. PICK t \in Token \ drawn :
        /\ drawn' = drawn \cup {t}
        /\ job' = [job EXCEPT ![j] = [token |-> t, sub |-> sub, expires |-> now + TTL,
                                       ttl |-> TTL, err |-> "none"]]
  BY DEF Draw
<1> DEFINE d == [token |-> t, sub |-> sub, expires |-> now + TTL, ttl |-> TTL,
                 err |-> "none"]
<1>2. /\ d \in JobData /\ d.token = t /\ d.sub = sub /\ d.expires = now + TTL
      /\ d.err = "none"
  BY ConstantsOK DEF IInv, TypeOK, JobData
<1>3. pc' = [pc EXCEPT ![j] = "insert"]
  BY DEF Draw, Goto
<1>4. job' = [job EXCEPT ![j] = d]
  BY <1>1
<1>5. tokens[t] = NoRow
  BY DEF IInv, RowsOK
<1> HIDE DEF d
<1>6. TypeOK'
  BY <1>1, <1>2, <1>3, <1>4 DEF IInv, TypeOK, Calls, stores
<1>7. RowsOK' /\ CacheOK'
  BY <1>1 DEF IInv, RowsOK, CacheOK, CacheIsBacked, stores
<1>8. JobsOK'
  <2>1. ASSUME NEW k \in Job PROVE JobOK(pc[k], job[k])
    BY DEF IInv, JobsOK
  <2>2. now + TTL <= now + TTL
    BY ConstantsOK DEF IInv, TypeOK
  <2> QED
    BY <1>1, <1>2, <1>3, <1>4, <1>5, <2>1, <2>2
       DEF IInv, TypeOK, JobsOK, JobOK, Expired, stores
<1>9. \A k \in Job : k # j /\ pc[k] # "idle" => job[k].token # t
  BY <1>1, JobToken
<1>10. Apart'
  BY <1>2, <1>3, <1>4, <1>9 DEF IInv, TypeOK, Apart, Generating
<1> QED
  BY <1>6, <1>7, <1>8, <1>10 DEF IInv

\* The reply is built: nothing more is to do, or a token is to be generated.
LEMMA BuildKeeps ==
    ASSUME IInv, NEW j \in Job, Build(j)
    PROVE  IInv'
<1>1. job[j].sub \in Sub /\ UNCHANGED <<now, stores>>
  BY DEF Build, IInv, JobsOK, JobOK
<1>2. CASE Draw(j, job[j].sub)
  BY <1>1, <1>2, DrawKeeps
<1>3. CASE Finish(j) /\ UNCHANGED drawn
  BY <1>1, <1>3, FinishKeeps
<1> QED
  BY <1>2, <1>3 DEF Build

\* The row is new, and no other job is about the token.
LEMMA InsertKeeps ==
    ASSUME IInv, NEW j \in Job, Insert(j) \/ InsertUnconfirmed(j)
    PROVE  IInv'
<1> DEFINE d == job[j]
           row == [sub |-> d.sub, expires |-> d.expires]
<1>1. d \in JobData /\ d.token \in Token /\ d.token \in drawn
  BY JobToken DEF Insert, InsertUnconfirmed
<1>2. d.sub \in Sub /\ tokens[d.token] = NoRow /\ d.expires <= now + TTL
  BY DEF Insert, InsertUnconfirmed, IInv, JobsOK, JobOK
<1>3. /\ tokens' = [tokens EXCEPT ![d.token] = row] /\ pc[j] = "insert"
      /\ UNCHANGED <<now, cached, scopes, drawn>>
      /\ \/ pc' = [pc EXCEPT ![j] = "cacheSet"] /\ job' = job
         \/ pc' = [pc EXCEPT ![j] = "idle"] /\ job' = [job EXCEPT ![j] = NoJob]
  BY DEF Insert, InsertUnconfirmed, InsertRow, Finish, Goto
<1>4. row \in Row /\ row # NoRow /\ row.sub = d.sub /\ row.expires = d.expires
  BY <1>1, <1>2, SubPresent DEF JobData, Row
<1>5. cached[d.token] = NoEntry
  BY <1>1, <1>2, BackedBy DEF IInv
<1>6. \A k \in Job : k # j /\ pc[k] # "idle" => job[k].token # d.token
  BY <1>3 DEF IInv, Apart, Generating
<1>7. TypeOK'
  BY <1>1, <1>3, <1>4, NothingTyped DEF IInv, TypeOK, Calls
<1>8. RowsOK'
  BY <1>1, <1>2, <1>3, <1>4 DEF IInv, TypeOK, RowsOK
<1>9. CacheOK'
  BY <1>1, <1>3, <1>5 DEF IInv, TypeOK, CacheOK, CacheIsBacked
<1>10. \A k \in Job : k # j => JobOK(pc[k], job[k])'
  BY <1>1, <1>3, <1>6 DEF IInv, TypeOK, JobsOK, JobOK, Expired
<1>11. JobOK(pc[j], job[j])'
  BY <1>1, <1>2, <1>3 DEF IInv, TypeOK, JobOK
<1>12. JobsOK'
  BY <1>10, <1>11 DEF JobsOK
<1>13. Apart'
  BY <1>3 DEF IInv, TypeOK, Apart, Generating
<1> QED
  BY <1>7, <1>8, <1>9, <1>12, <1>13 DEF IInv

\* The scope key matters to nothing.
LEMMA ScopeSetKeeps ==
    ASSUME IInv, NEW j \in Job, ScopeSet(j)
    PROVE  IInv'
<1>1. job[j].token \in Token
  BY JobToken DEF ScopeSet
<1>2. scopes' \in [Token -> Nat]
  BY <1>1, ConstantsOK DEF ScopeSet, IInv, TypeOK
<1>3. /\ pc' = [pc EXCEPT ![j] = "idle"] /\ job' = [job EXCEPT ![j] = NoJob]
      /\ UNCHANGED <<now, tokens, cached, drawn>>
  BY DEF ScopeSet, Finish, Goto
<1>4. TypeOK'
  BY <1>2, <1>3, NothingTyped DEF IInv, TypeOK, Calls
<1>5. RowsOK' /\ CacheOK'
  BY <1>3 DEF IInv, RowsOK, CacheOK, CacheIsBacked
<1>6. JobsOK'
  BY <1>3 DEF IInv, TypeOK, JobsOK, JobOK, Expired
<1>7. Apart'
  BY <1>3 DEF IInv, TypeOK, Apart, Generating
<1> QED
  BY <1>4, <1>5, <1>6, <1>7 DEF IInv

\* Time only moves forward, and what Redis drops is gone.
LEMMA TickKeeps ==
    ASSUME IInv, Tick
    PROVE  IInv'
<1>1. now \in Nat /\ now' = now + 1 /\ TTL \in Nat
  BY ConstantsOK DEF Tick, IInv, TypeOK
<1>2. UNCHANGED <<pc, job, tokens, drawn>>
  BY DEF Tick
<1>3. \A t \in Token : cached'[t] = NoEntry \/ cached'[t] = cached[t]
  BY DEF Tick
<1>4. cached' \in [Token -> Entry] /\ scopes' \in [Token -> Nat]
  BY NothingTyped DEF Tick, IInv, TypeOK
<1>5. TypeOK'
  BY <1>1, <1>2, <1>4 DEF IInv, TypeOK
<1>6. RowsOK'
  BY <1>1, <1>2 DEF IInv, TypeOK, RowsOK, Row
<1>7. CacheOK'
  BY <1>2, <1>3 DEF IInv, CacheOK, CacheIsBacked
<1>8. JobsOK'
  <2>1. \A j \in Job : job[j].expires \in Nat
    BY DEF IInv, TypeOK, JobData
  <2>2. \A t \in Token : tokens[t].expires \in Nat
    BY DEF IInv, TypeOK, Row
  <2>3. \A t \in drawn : t \in Token
    BY DEF IInv, TypeOK
  <2> QED
    BY <1>1, <1>2, <2>1, <2>2, <2>3 DEF IInv, JobsOK, JobOK, Expired
<1>9. Apart'
  BY <1>2 DEF IInv, Apart, Generating
<1> QED
  BY <1>5, <1>6, <1>7, <1>8, <1>9 DEF IInv

\* A crash leaves no job, and the stores as they are.
LEMMA CrashKeeps ==
    ASSUME IInv, Crash
    PROVE  IInv'
<1>1. TypeOK'
  BY NothingTyped DEF IInv, TypeOK, Crash, Calls, stores
<1>2. RowsOK' /\ CacheOK'
  BY DEF IInv, RowsOK, CacheOK, CacheIsBacked, Crash, stores
<1>3. JobsOK' /\ Apart'
  BY DEF JobsOK, JobOK, Apart, Generating, Crash
<1> QED
  BY <1>1, <1>2, <1>3 DEF IInv

-----------------------------------------------------------------------------
(* The invariant and the properties *)

\* The stores are empty and every job is idle.
LEMMA Initially == Init => IInv
BY NothingTyped
   DEF Init, IInv, TypeOK, RowsOK, CacheOK, CacheIsBacked, JobsOK, JobOK, Apart,
       Generating, Calls

\* IInv is inductive.
LEMMA Inductive == IInv /\ [Next]_vars => IInv'
<1> SUFFICES ASSUME IInv, [Next]_vars PROVE IInv'
  OBVIOUS
<1>1. ASSUME NEW j \in Job, Acquire(j) PROVE IInv'
  BY <1>1, DrawKeeps DEF Acquire
<1>2. ASSUME NEW j \in Job, BuildFails(j) \/ InsertFails(j) \/ Unauthorized(j)
      PROVE  IInv'
  BY <1>2, FinishKeeps DEF BuildFails, InsertFails, Unauthorized
<1>3. CASE UNCHANGED vars
  BY <1>3
     DEF vars, stores, IInv, TypeOK, RowsOK, CacheOK, CacheIsBacked, JobsOK, JobOK,
         Apart, Generating, Expired
<1>4. CASE Next
  BY <1>1, <1>2, <1>4, PresentKeeps, CacheHitKeeps, CacheMissKeeps, CacheDelKeeps,
     FoundKeeps, RefuseKeeps, CachingKeeps, BuildKeeps, InsertKeeps, ScopeSetKeeps,
     TickKeeps, CrashKeeps
     DEF Next
<1> QED
  BY <1>3, <1>4

\* IInv holds in every reachable state of the token service.
THEOREM Invariance == Spec => []IInv
BY Initially, Inductive, PTL DEF Spec

\* Every variable keeps its type: the time left to a token that is cached again is
\* between 0 and TTL.
THEOREM TypeCorrect == Spec => []TypeOK
<1>1. IInv => TypeOK
  BY DEF IInv
<1> QED
  BY <1>1, Invariance, PTL

\* The cache never holds a token that Postgres does not, or with another deadline.
THEOREM Backed == Spec => []CacheIsBacked
<1>1. IInv => CacheIsBacked
  BY DEF IInv, CacheOK
<1> QED
  BY <1>1, Invariance, PTL

\* A token that Postgres has is called unknown only after its deadline.
THEOREM Cause == Spec => []RefusedForCause
<1>1. IInv => RefusedForCause
  BY DEF IInv, JobsOK, JobOK, RefusedForCause
<1> QED
  BY <1>1, Invariance, PTL

\* A token is accepted for its own subscriber only, and up to its deadline.
THEOREM WhileValid == Spec => AcceptedWhileValid
<1> DEFINE A(j) == LET t == job[j].token IN
                   pc[j] \in {"cacheGet", "find"} /\ pc'[j] \in {"recache", "build"} =>
                       /\ tokens[t] # NoRow
                       /\ tokens[t].sub = job'[j].sub
                       /\ now <= tokens[t].expires
<1>1. ASSUME IInv, NEW j \in Job, CacheHit(j) PROVE A(j)
  <2>1. job[j] \in JobData /\ job[j].token \in Token
    BY <1>1, JobToken DEF CacheHit
  <2>2. job'[j].sub = cached[job[j].token].sub
    BY <1>1, <2>1 DEF CacheHit, IInv, TypeOK, JobData
  <2>3. now \in Nat /\ cached[job[j].token].expires \in Nat
    BY <1>1, <2>1 DEF IInv, TypeOK, Entry
  <2>4. ~ Expired(cached[job[j].token].expires) /\ cached[job[j].token] # NoEntry
    BY <1>1 DEF CacheHit, Live
  <2> QED
    BY <1>1, <2>1, <2>2, <2>3, <2>4, BackedBy DEF IInv, Expired
<1>2. ASSUME IInv, NEW j \in Job, Found(j) PROVE A(j)
  <2>1. job[j] \in JobData /\ job[j].token \in Token
    BY <1>2, JobToken DEF Found
  <2>2. job'[j].sub = tokens[job[j].token].sub
    BY <1>2, <2>1 DEF Found, IInv, TypeOK, JobData
  <2>3. now \in Nat /\ tokens[job[j].token].expires \in Nat
    BY <1>2, <2>1 DEF IInv, TypeOK, Row
  <2> QED
    BY <1>2, <2>2, <2>3 DEF Found, Expired
<1>3. ASSUME IInv, [Next]_vars, NEW j \in Job,
             pc[j] \in {"cacheGet", "find"}, pc'[j] \in {"recache", "build"}
      PROVE  CacheHit(j) \/ Found(j)
  <2>1. pc \in [Job -> Calls] /\ pc'[j] # pc[j]
    BY <1>3 DEF IInv, TypeOK
  <2>2. ASSUME NEW k \in Job,
               \/ Present(k) \/ CacheExpired(k) \/ CacheDel(k) \/ CacheMiss(k)
               \/ NotFound(k) \/ FindFails(k) \/ Unauthorized(k) \/ BuildFails(k)
               \/ Insert(k) \/ InsertUnconfirmed(k) \/ InsertFails(k)
               \/ CacheSet(k) \/ ScopeSet(k)
               \/ Build(k) \/ Acquire(k)
        PROVE  \E c \in Calls \ {"recache", "build"} : pc' = [pc EXCEPT ![k] = c]
    BY <2>2
       DEF Present, CacheExpired, CacheDel, CacheMiss, NotFound, FindFails, Unauthorized,
           BuildFails, Insert, InsertUnconfirmed, InsertFails, CacheSet, ScopeSet, Build,
           Acquire, Goto, Finish, Refuse, Draw, Calls
  <2>3. ASSUME NEW k \in Job, Recache(k)
        PROVE  pc' = [pc EXCEPT ![k] = "build"] /\ pc[k] = "recache"
    BY <2>3 DEF Recache, Goto
  <2>4. ASSUME NEW k \in Job, CacheHit(k) \/ Found(k)
        PROVE  \E c \in Calls : pc' = [pc EXCEPT ![k] = c]
    BY <2>4 DEF CacheHit, Found, Goto, Calls
  <2>5. pc'[j] # "idle" /\ pc' # pc
    BY <1>3, <2>1
  <2>6. ~ Tick /\ ~ Crash /\ ~ UNCHANGED vars
    BY <2>5 DEF Tick, Crash, vars
  <2> QED
    BY <1>3, <2>1, <2>2, <2>3, <2>4, <2>6 DEF Next
<1>4. IInv /\ [Next]_vars => \A j \in Job : A(j)
  BY <1>1, <1>2, <1>3
<1>5. IInv /\ [Next]_vars =>
        [\A j \in Job :
           LET t == job[j].token IN
           pc[j] \in {"cacheGet", "find"} /\ pc'[j] \in {"recache", "build"} =>
               /\ tokens[t] # NoRow
               /\ tokens[t].sub = job'[j].sub
               /\ now <= tokens[t].expires]_vars
  BY <1>4
<1> QED
  BY <1>5, Invariance, PTL DEF Spec, AcceptedWhileValid

-----------------------------------------------------------------------------
(* The refinement *)

\* A call between validation and reply.
Served == {"recache", "build"}

\* What `serving` is mapped to.
Serving == {[token |-> job[j].token, sub |-> job[j].sub] : j \in {k \in Job : pc[k] \in Served}}

\* What every step has to be.
PromiseStep == Promise!Next \/ UNCHANGED <<now, tokens, Serving>>

\* Requests end, or stay what they are.
LEMMA ReleaseStep ==
    ASSUME Serving' \subseteq Serving, UNCHANGED <<now, tokens>>
    PROVE  PromiseStep
BY DEF PromiseStep, Promise!Next, Promise!Release, Serving, Served

\* A job goes on to a call in which it serves nothing.
LEMMA LeaveStep ==
    ASSUME IInv, NEW j \in Job, NEW c \in Calls \ Served, NEW d,
           pc' = [pc EXCEPT ![j] = c], job' = [job EXCEPT ![j] = d],
           UNCHANGED <<now, tokens>>
    PROVE  PromiseStep
<1>1. \A k \in Job : pc'[k] \in Served => pc[k] \in Served /\ job'[k] = job[k]
  BY DEF IInv, TypeOK
<1>2. Serving' \subseteq Serving
  BY <1>1 DEF Serving
<1> QED
  BY <1>2, ReleaseStep

\* A job has found its token valid, and serves the subscriber the table names.
LEMMA AcceptStep ==
    ASSUME IInv, NEW j \in Job, NEW c \in Served, NEW d \in JobData,
           pc[j] \notin Served,
           pc' = [pc EXCEPT ![j] = c], job' = [job EXCEPT ![j] = d],
           UNCHANGED <<now, tokens>>,
           d.token \in Token,
           tokens[d.token] # NoRow,
           tokens[d.token].sub = d.sub,
           now <= tokens[d.token].expires
    PROVE  PromiseStep
<1> DEFINE new == [token |-> d.token, sub |-> d.sub]
<1>1. \A k \in Job : k # j => pc'[k] = pc[k] /\ job'[k] = job[k]
  BY DEF IInv, TypeOK
<1>2. pc'[j] \in Served /\ job'[j] = d
  BY DEF IInv, TypeOK
<1>3. Serving' = Serving \cup {new}
  BY <1>1, <1>2 DEF Serving
<1>4. Promise!Accept(d.token)
  BY <1>3 DEF Promise!Accept, Serving, Served
<1> QED
  BY <1>4 DEF PromiseStep, Promise!Next

\* A row is inserted, of the job's subscriber and with its deadline.
LEMMA IssueStep ==
    ASSUME IInv, NEW j \in Job, Insert(j) \/ InsertUnconfirmed(j)
    PROVE  PromiseStep
<1> DEFINE d == job[j]
<1>1. pc[j] = "insert" /\ d \in JobData /\ d.token \in Token
  BY JobToken DEF Insert, InsertUnconfirmed
<1>2. d.sub \in Sub /\ tokens[d.token] = NoRow /\ d.expires <= now + TTL
  BY <1>1 DEF IInv, JobsOK, JobOK
<1>3. d.expires \in 0 .. now + TTL
  BY <1>1, <1>2, ConstantsOK DEF JobData, IInv, TypeOK
<1>4. /\ tokens' = [tokens EXCEPT ![d.token] = [sub |-> d.sub, expires |-> d.expires]]
      /\ now' = now
  BY DEF Insert, InsertUnconfirmed, InsertRow
<1>5. PICK c \in Calls \ Served : pc' = [pc EXCEPT ![j] = c]
  BY DEF Insert, InsertUnconfirmed, Finish, Goto, Calls, Served
<1>6. \A k \in Job : k # j => job'[k] = job[k]
  BY DEF Insert, InsertUnconfirmed, Finish, IInv, TypeOK
<1>7. \A k \in Job : pc'[k] \in Served <=> pc[k] \in Served
  BY <1>1, <1>5 DEF IInv, TypeOK, Served
<1>8. \A k \in Job : pc[k] \in Served => job'[k] = job[k]
  BY <1>1, <1>6 DEF Served
<1>9. Serving' = Serving
  BY <1>7, <1>8 DEF Serving
<1>10. Promise!Issue(d.token, d.sub)
  BY <1>2, <1>3, <1>4, <1>9 DEF Promise!Issue, Serving, Served
<1> QED
  BY <1>1, <1>2, <1>10 DEF PromiseStep, Promise!Next

\* Validation: what the cache has is the row, and what it has not the row tells.
LEMMA ValidStep ==
    ASSUME IInv, NEW j \in Job, CacheHit(j) \/ Found(j)
    PROVE  PromiseStep
<1>1. job[j] \in JobData /\ job[j].token \in Token
  BY JobToken DEF CacheHit, Found
<1> DEFINE t == job[j].token
<1>2. now \in Nat /\ tokens[t].expires \in Nat /\ cached[t].expires \in Nat
  BY <1>1 DEF IInv, TypeOK, Row, Entry
<1>3. CASE CacheHit(j)
  <2> DEFINE d == [job[j] EXCEPT !.sub = cached[t].sub]
  <2>1. cached[t] # NoEntry /\ ~ Expired(cached[t].expires)
    BY <1>3 DEF CacheHit, Live
  <2>2. /\ tokens[t] # NoRow /\ tokens[t].sub = cached[t].sub /\ cached[t].sub \in Sub
        /\ tokens[t].expires = cached[t].expires
    BY <1>1, <2>1, BackedBy DEF IInv
  <2>3. d \in JobData /\ d.token = t /\ d.sub = cached[t].sub
    BY <1>1, <2>2 DEF JobData
  <2>4. /\ pc' = [pc EXCEPT ![j] = "build"] /\ job' = [job EXCEPT ![j] = d]
        /\ pc[j] = "cacheGet" /\ UNCHANGED <<now, tokens>>
    BY <1>3 DEF CacheHit, Goto, stores
  <2>5. now <= tokens[t].expires
    BY <1>2, <2>1, <2>2 DEF Expired
  <2> HIDE DEF d
  <2> QED
    BY <1>1, <2>2, <2>3, <2>4, <2>5, AcceptStep DEF Served
<1>4. CASE Found(j)
  <2> DEFINE d == [job[j] EXCEPT !.sub = tokens[t].sub, !.expires = tokens[t].expires,
                                 !.ttl = Remaining(tokens[t].expires)]
  <2>1. tokens[t] # NoRow /\ ~ Expired(tokens[t].expires)
    BY <1>4 DEF Found
  <2>2. tokens[t].sub \in Sub /\ tokens[t].expires <= now + TTL
    BY <1>1, <2>1 DEF IInv, RowsOK
  <2>3. Remaining(tokens[t].expires) \in 0 .. TTL
    BY <1>2, <2>1, <2>2, ConstantsOK DEF Expired, Remaining
  <2>4. d \in JobData /\ d.token = t /\ d.sub = tokens[t].sub
    BY <1>1, <1>2, <2>2, <2>3 DEF JobData
  <2>5. PICK c \in Served : pc' = [pc EXCEPT ![j] = c]
    BY <1>4 DEF Found, Goto, Served
  <2>6. job' = [job EXCEPT ![j] = d] /\ pc[j] = "find" /\ UNCHANGED <<now, tokens>>
    BY <1>4 DEF Found, stores
  <2>7. now <= tokens[t].expires
    BY <1>2, <2>1 DEF Expired
  <2> HIDE DEF d
  <2> QED
    BY <1>1, <2>1, <2>4, <2>5, <2>6, <2>7, AcceptStep DEF Served
<1> QED
  BY <1>3, <1>4

\* Steps to a call that serves nothing.
LEMMA LeaveSteps ==
    ASSUME IInv, NEW j \in Job,
           \/ Present(j) \/ CacheExpired(j) \/ CacheDel(j) \/ CacheMiss(j) \/ NotFound(j)
           \/ FindFails(j) \/ Unauthorized(j) \/ Build(j) \/ BuildFails(j) \/ Acquire(j)
           \/ InsertFails(j) \/ CacheSet(j) \/ ScopeSet(j)
    PROVE  PromiseStep
<1>1. UNCHANGED <<now, tokens>>
  BY DEF Present, CacheExpired, CacheDel, CacheMiss, NotFound, FindFails, Unauthorized,
         Build, BuildFails, Acquire, InsertFails, CacheSet, ScopeSet, stores
<1>2. \E c \in Calls \ Served : pc' = [pc EXCEPT ![j] = c]
  BY DEF Present, CacheExpired, CacheDel, CacheMiss, NotFound, FindFails, Unauthorized,
         Build, BuildFails, Acquire, InsertFails, CacheSet, ScopeSet, Goto, Finish, Refuse,
         Draw, Calls, Served
<1>3. job \in [Job -> JobData]
  BY DEF IInv, TypeOK
<1>4. job' = [job EXCEPT ![j] = job'[j]]
  BY <1>3
     DEF Present, CacheExpired, CacheDel, CacheMiss, NotFound, FindFails, Unauthorized,
         Build, BuildFails, Acquire, InsertFails, CacheSet, ScopeSet, Finish, Refuse, Draw
<1> QED
  BY <1>1, <1>2, <1>4, LeaveStep

\* The SET of a request that has been accepted changes nothing that is promised.
LEMMA RecacheStep ==
    ASSUME IInv, NEW j \in Job, Recache(j)
    PROVE  PromiseStep
<1>1. \A k \in Job : pc'[k] \in Served <=> pc[k] \in Served
  BY DEF Recache, Goto, IInv, TypeOK, Served
<1>2. Serving' = Serving
  BY <1>1 DEF Serving, Recache
<1> QED
  BY <1>2 DEF PromiseStep, Recache

\* A crash ends every request.
LEMMA CrashStep ==
    ASSUME Crash
    PROVE  PromiseStep
<1>1. Serving' \subseteq Serving
  BY DEF Crash, Serving, Served
<1> QED
  BY <1>1, ReleaseStep DEF Crash, stores

LEMMA TickStep ==
    ASSUME Tick
    PROVE  PromiseStep
BY DEF Tick, PromiseStep, Promise!Next, Promise!Pass, Serving, Served

LEMMA InitPromise == Init => Promise!Init
BY DEF Init, Promise!Init

LEMMA NextPromise == IInv /\ [Next]_vars => PromiseStep
<1> SUFFICES ASSUME IInv, [Next]_vars
             PROVE  PromiseStep
  OBVIOUS
<1>1. CASE UNCHANGED vars
  BY <1>1 DEF vars, stores, PromiseStep, Serving
<1>2. CASE Next
  BY <1>2, LeaveSteps, ValidStep, IssueStep, RecacheStep, TickStep, CrashStep DEF Next
<1> QED
  BY <1>1, <1>2

\* The token service, with its cache, its clocks and its faults, implements the promise.
THEOREM Implements == Spec => ImplementsPromise
<1>1. IInv /\ [Next]_vars => [Promise!Next]_(Promise!vars)
  BY NextPromise DEF PromiseStep, Promise!vars, Serving, Served
<1> QED
  BY <1>1, InitPromise, Invariance, PTL DEF Spec, Promise!Spec, ImplementsPromise
=============================================================================
