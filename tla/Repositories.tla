------------------------------ MODULE Repositories ------------------------------
(***************************************************************************)
(* repositories/types.ts has two implementations: memory.ts, maps of the   *)
(* process that keep their rows in the order of insertion, and prisma.ts,  *)
(* tables with unique indexes.  Tests run on the first and the deployment  *)
(* on the second.  Both are driven here by the same calls, one at a time   *)
(* and without failures, and their answers are compared.                   *)
(***************************************************************************)
EXTENDS Integers, Sequences, SequencesExt, FiniteSets, FiniteSetsExt, Listings

CONSTANTS
  Users,      \* user ids, which are also the emails
  Slugs,      \* challenges that score
  Kinds,      \* kinds of progress
  Paths,      \* what progress is kept of
  Marks,      \* what progress is set to: [status, completedAt]
  Ids,        \* ids, in the order in which they are given out
  Times,      \* moments
  Worth,      \* points of a challenge
  Tries       \* bound: submissions

Statuses == {"in_progress", "completed"}

ASSUME StoresAssumption ==
  /\ Ids \subseteq Nat /\ Times \subseteq Nat \ {0}
  /\ Marks \subseteq [status : Statuses, completedAt : Times \cup {0}]
  /\ Worth \in Nat \ {0} /\ Tries \in Nat

VARIABLES
  family,   \* the repository under test
  mem,      \* memory.ts: [Fields -> sequences of rows]
  db,       \* prisma.ts: [Fields -> sets of rows]
  answer    \* the last call and what it returned: [call, mem, db]

storeVars == <<family, mem, db, answer>>

-----------------------------------------------------------------------------
(* Of prisma.ts, "entries" is the table challengeProgress, of scores and   *)
(* of progress in challenges alike, "progress" those of the other kinds;   *)
(* memory.ts has one map for scores and one for progress of every kind.    *)
Fields == {"users", "byEmail", "sessions", "progress", "entries", "events", "environments"}

StoresInit ==
  /\ family \in {"accounts", "progress", "challenges", "environments"}
  /\ mem = [f \in Fields |-> <<>>]
  /\ db = [f \in Fields |-> {}]
  /\ answer = [call |-> "none", mem |-> "none", db |-> "none"]

Answer(call, m, d) == answer' = [call |-> call, mem |-> m, db |-> d]

Found(s, Test(_)) == IF \E i \in 1 .. Len(s) : Test(s[i]) THEN {SelectInSeq(s, Test)} ELSE {}

(* A row is appended to the map and inserted into the table.               *)
Added(field, row) ==
  /\ mem' = [mem EXCEPT ![field] = Append(@, row)]
  /\ db' = [db EXCEPT ![field] = @ \cup {row}]

(* Map.set of a present key keeps its place.                               *)
Rewritten(s, Test(_), New(_)) == [i \in 1 .. Len(s) |-> IF Test(s[i]) THEN New(s[i]) ELSE s[i]]

Put(s, Test(_), row) ==
  IF \E i \in 1 .. Len(s) : Test(s[i]) THEN Rewritten(s, Test, LAMBDA x : row) ELSE Append(s, row)

Updated(rows, Test(_), New(_)) == {IF Test(x) THEN New(x) ELSE x : x \in rows}

Change(field, Test(_), New(_)) ==
  /\ mem' = [mem EXCEPT ![field] = Rewritten(@, Test, New)]
  /\ db' = [db EXCEPT ![field] = Updated(@, Test, New)]

Unchanged == UNCHANGED <<mem, db>>

-----------------------------------------------------------------------------
(* Users: memory.ts keeps one map by id and one by email.                  *)
CreateUser(u) ==
  /\ family = "accounts"
  /\ LET taken == Found(mem["byEmail"], LAMBDA x : x = u) # {}
         present == \E x \in db["users"] : x = u IN
     /\ Answer("createUser", IF taken THEN "rejects" ELSE u, IF present THEN "rejects" ELSE u)
     /\ mem' = IF taken THEN mem ELSE [mem EXCEPT !["users"] = Append(@, u),
                                                  !["byEmail"] = Append(@, u)]
     /\ db' = IF present THEN db ELSE [db EXCEPT !["users"] = @ \cup {u}]
  /\ UNCHANGED family

FindUser(u) ==
  /\ family = "accounts"
  /\ Answer("findUser", {mem["users"][i] : i \in Found(mem["users"], LAMBDA x : x = u)},
            {x \in db["users"] : x = u})
  /\ Unchanged /\ UNCHANGED family

(* Sessions: the id stands for its token as well, which is unique.         *)
CreateSession(id, u, expires) ==
  /\ family = "accounts" /\ u \in db["users"]
  /\ \A x \in db["sessions"] : x.id < id
  /\ LET row == [id |-> id, user |-> u, expires |-> expires, seen |-> 0, revoked |-> 0] IN
     Added("sessions", row) /\ Answer("create", row, row)
  /\ UNCHANGED family

FindByTokenHash(id) ==
  /\ family = "accounts"
  /\ Answer("findByTokenHash",
            {mem["sessions"][i] : i \in Found(mem["sessions"], LAMBDA x : x.id = id)},
            {x \in db["sessions"] : x.id = id})
  /\ Unchanged /\ UNCHANGED family

(* The update of a row that is gone rejects, the map passes over it.       *)
TouchLastSeen(id, at) ==
  /\ family = "accounts"
  /\ Change("sessions", LAMBDA x : x.id = id, LAMBDA x : [x EXCEPT !.seen = at])
  /\ Answer("touchLastSeen", "touched",
            IF \E x \in db["sessions"] : x.id = id THEN "touched" ELSE "rejects")
  /\ UNCHANGED family

Revoke(id, at) ==
  /\ family = "accounts"
  /\ Change("sessions", LAMBDA x : x.id = id /\ x.revoked = 0,
                        LAMBDA x : [x EXCEPT !.revoked = at])
  /\ Answer("revoke", "revoked", "revoked")
  /\ UNCHANGED family

RevokeAllForUser(u, at) ==
  /\ family = "accounts"
  /\ Change("sessions", LAMBDA x : x.user = u /\ x.revoked = 0,
                        LAMBDA x : [x EXCEPT !.revoked = at])
  /\ Answer("revoke", "revoked", "revoked")
  /\ UNCHANGED family

(* Deleted one by one while the map is iterated, or in one statement.      *)
DeleteExpired(before) ==
  /\ family = "accounts"
  /\ LET kept == Filtered(mem["sessions"], LAMBDA x : x.expires > before)
         gone == {x \in db["sessions"] : x.expires <= before} IN
     /\ mem' = [mem EXCEPT !["sessions"] = kept]
     /\ db' = [db EXCEPT !["sessions"] = @ \ gone]
     /\ Answer("deleteExpired", Len(mem["sessions"]) - Len(kept), Cardinality(gone))
  /\ UNCHANGED family

-----------------------------------------------------------------------------
(* Progress: one map with the kind in the key, or a table of each kind; of *)
(* a challenge the row of its scores, two columns of which are rewritten.  *)
Fresh(u, slug) == [user |-> u, slug |-> slug, status |-> "in_progress", attempts |-> 0,
                   points |-> 0, solvedAt |-> 0, completedAt |-> 0]

RowOf(rows, u, slug) ==
  LET own == {x \in rows : x.user = u /\ x.slug = slug} IN
  IF own = {} THEN Fresh(u, slug) ELSE CHOOSE x \in own : TRUE

Stored(rows, row) == {x \in rows : ~(x.user = row.user /\ x.slug = row.slug)} \cup {row}

Upsert(kind, u, slug, mark) ==
  /\ family = (IF kind = "challenge" THEN "challenges" ELSE "progress")
  /\ LET Same(x) == x.kind = kind /\ x.user = u /\ x.slug = slug
         row == [kind |-> kind, user |-> u, slug |-> slug,
                 status |-> mark.status, completedAt |-> mark.completedAt]
         scores == [RowOf(db["entries"], u, slug) EXCEPT !.status = mark.status,
                                                         !.completedAt = mark.completedAt] IN
     /\ mem' = [mem EXCEPT !["progress"] = Put(@, Same, row)]
     /\ db' = IF kind = "challenge" THEN [db EXCEPT !["entries"] = Stored(@, scores)]
              ELSE [db EXCEPT !["progress"] = {x \in @ : ~Same(x)} \cup {row}]
  /\ Answer("upsert", "done", "done")
  /\ UNCHANGED family

Told(x) == [user |-> x.user, slug |-> x.slug, status |-> x.status, completedAt |-> x.completedAt]

ListForUser(kind, u) ==
  /\ family = (IF kind = "challenge" THEN "challenges" ELSE "progress")
  /\ LET Own(x) == x.kind = kind /\ x.user = u
         rows == IF kind = "challenge" THEN {x \in db["entries"] : x.user = u}
                 ELSE {x \in db["progress"] : Own(x)} IN
     Answer("listForUser", {Told(x) : x \in Range(Filtered(mem["progress"], Own))},
            {Told(x) : x \in rows})
  /\ Unchanged /\ UNCHANGED family

-----------------------------------------------------------------------------
(* Scoring.  memory.ts looks for the event where the table has an index,   *)
(* and sums up the ledger by itself.                                       *)
Points(events, u) == Worth * Cardinality({e \in events : e[1] = u})

Awarded(row, at) ==
  [row EXCEPT !.status = "completed", !.points = Worth, !.solvedAt = at, !.completedAt = at]

(* Wrong: a repeated solve is dated anew.                                  *)
SolvedInMemoryAgain(entry, at, scored) ==
  [Awarded(entry, at) EXCEPT !.points = IF scored THEN entry.points ELSE Worth]

(* The entry after a correct submission, memory.ts.                        *)
SolvedInMemory(entry, at, scored) ==
  IF entry.solvedAt # 0 THEN entry
  ELSE IF scored THEN [entry EXCEPT !.status = "completed", !.solvedAt = at,
                                    !.completedAt = IF @ = 0 THEN at ELSE @]
  ELSE Awarded(entry, at)

(* The row after it, prisma.ts: nothing, the status alone when the ledger  *)
(* has the event, or the award.                                            *)
SolvedInTable(row, at, scored) ==
  IF row.solvedAt # 0 THEN row
  ELSE IF scored THEN [row EXCEPT !.status = "completed"]
  ELSE Awarded(row, at)

(* Of whose submission, and what is returned of it.                        *)
Outcome(row, correct, solvedBefore, events) ==
  [of |-> <<row.user, row.slug>>, correct |-> correct,
   alreadySolved |-> correct /\ solvedBefore,
   gained |-> IF correct /\ ~solvedBefore THEN Worth ELSE 0,
   total |-> Points(events, row.user), completedAt |-> row.completedAt, attempts |-> row.attempts]

RecordSubmission(u, slug, correct, at) ==
  /\ family = "challenges"
  /\ LET Counted(x) == [x EXCEPT !.attempts = @ + 1]
         entry == Counted(RowOf(Range(mem["entries"]), u, slug))
         row == Counted(RowOf(db["entries"], u, slug))
         known == <<u, slug>> \in Range(mem["events"])
         scored == <<u, slug>> \in db["events"]
         entry2 == IF correct THEN SolvedInMemory(entry, at, known) ELSE entry
         row2 == IF correct THEN SolvedInTable(row, at, scored) ELSE row
         events == IF correct /\ entry.solvedAt = 0 /\ ~known
                   THEN Append(mem["events"], <<u, slug>>) ELSE mem["events"]
         ledger == IF correct /\ row.solvedAt = 0 THEN db["events"] \cup {<<u, slug>>}
                                                  ELSE db["events"] IN
     /\ MapThenSumSet(LAMBDA x : x.attempts, db["entries"]) < Tries
     /\ mem' = [mem EXCEPT !["events"] = events,
          !["entries"] = Put(@, LAMBDA x : x.user = u /\ x.slug = slug, entry2)]
     /\ db' = [db EXCEPT !["events"] = ledger, !["entries"] = Stored(@, row2)]
     /\ Answer("recordSubmission",
               Outcome(entry2, correct, entry.solvedAt # 0 \/ known, Range(events)),
               Outcome(row2, correct, row.solvedAt # 0 \/ scored, ledger))
  /\ UNCHANGED family

GetUserSummary(u) ==
  /\ family = "challenges"
  /\ LET Own(x) == x.user = u
         Summary(rows, events) ==
           [challenges |-> rows, total |-> Points(events, u),
            solved |-> Cardinality({x \in rows : x.solvedAt # 0})] IN
     Answer("getUserSummary", Summary(Range(Filtered(mem["entries"], Own)), Range(mem["events"])),
            Summary({x \in db["entries"] : Own(x)}, db["events"]))
  /\ Unchanged /\ UNCHANGED family

-----------------------------------------------------------------------------
(* Environments: rows are never deleted.  A patch has the fields that a    *)
(* transition writes, here the status and the expiry.                      *)
CreateEnvironment(id, u, expires) ==
  /\ family = "environments" /\ \A x \in db["environments"] : x.id < id
  /\ LET row == [id |-> id, user |-> u, status |-> "live", expires |-> expires] IN
     Added("environments", row) /\ Answer("create", row, row)
  /\ UNCHANGED family

FindEnvironment(id) ==
  /\ family = "environments"
  /\ Answer("findById",
            {mem["environments"][i] : i \in Found(mem["environments"], LAMBDA x : x.id = id)},
            {x \in db["environments"] : x.id = id})
  /\ Unchanged /\ UNCHANGED family

(* No row is changed of an id that is missing.                             *)
UpdateEnvironment(id, patch) ==
  /\ family = "environments"
  /\ LET Patched(x) == [f \in DOMAIN x |-> IF f \in DOMAIN patch THEN patch[f] ELSE x[f]]
         Same(x) == x.id = id
         places == Found(mem["environments"], Same) IN
     /\ Change("environments", Same, Patched)
     /\ Answer("update",
               IF places = {} THEN "null"
               ELSE Patched(mem["environments"][CHOOSE i \in places : TRUE]),
               IF \E x \in db["environments"] : Same(x)
               THEN Patched(CHOOSE x \in db["environments"] : Same(x)) ELSE "rejects")
  /\ UNCHANGED family

NewestFirst(rows) ==
  CHOOSE s \in [1 .. Cardinality(rows) -> rows] :
    \A i, j \in 1 .. Cardinality(rows) : i < j => s[i].id > s[j].id

(* In the order of insertion, or the newest first.                         *)
ListByUser(u) ==
  /\ family = "environments"
  /\ LET Own(x) == x.user = u IN
     Answer("listByUser", Filtered(mem["environments"], Own),
            NewestFirst({x \in db["environments"] : Own(x)}))
  /\ Unchanged /\ UNCHANGED family

FindExpired(before) ==
  /\ family = "environments"
  /\ LET Due(x) == x.status = "live" /\ x.expires <= before IN
     Answer("findExpired", Range(Filtered(mem["environments"], Due)),
            {x \in db["environments"] : Due(x)})
  /\ Unchanged /\ UNCHANGED family

-----------------------------------------------------------------------------
Patches == [status : {"live", "ended"}] \cup [expires : Times]

StoresNext ==
  \/ \E u \in Users : CreateUser(u) \/ FindUser(u) \/ GetUserSummary(u) \/ ListByUser(u)
  \/ \E id \in Ids, u \in Users, at \in Times :
       CreateSession(id, u, at) \/ CreateEnvironment(id, u, at)
  \/ \E id \in Ids : FindByTokenHash(id) \/ FindEnvironment(id)
  \/ \E id \in Ids, at \in Times : TouchLastSeen(id, at) \/ Revoke(id, at)
  \/ \E u \in Users, at \in Times : RevokeAllForUser(u, at)
  \/ \E at \in Times : DeleteExpired(at) \/ FindExpired(at)
  \/ \E kind \in Kinds, u \in Users, slug \in Paths, mark \in Marks : Upsert(kind, u, slug, mark)
  \/ \E kind \in Kinds, u \in Users : ListForUser(kind, u)
  \/ \E u \in Users, slug \in Slugs, correct \in BOOLEAN, at \in Times :
       RecordSubmission(u, slug, correct, at)
  \/ \E id \in Ids, patch \in Patches : UpdateEnvironment(id, patch)

StoresSpec == StoresInit /\ [][StoresNext]_storeVars

-----------------------------------------------------------------------------
(* The challenges that memory.ts keeps progress in, and those that were    *)
(* submitted to.                                                           *)
Marked == {<<x.user, x.slug>> : x \in {y \in Range(mem["progress"]) : y.kind = "challenge"}}

Tried == {<<x.user, x.slug>> : x \in Range(mem["entries"])}

Except(keys, rows) == {x \in rows : <<x.user, x.slug>> \notin keys}

(* memory.ts has two rows of a challenge where the table has one.  What a  *)
(* submission counts is the same in both however they are mixed with       *)
(* progress, and so is all of the row when only one of the two was         *)
(* written.                                                                *)
RowsAgree(u, slug) ==
  LET key == <<u, slug>>
      entry == RowOf(Range(mem["entries"]), u, slug)
      row == RowOf(db["entries"], u, slug) IN
  /\ entry.attempts = row.attempts /\ entry.points = row.points /\ entry.solvedAt = row.solvedAt
  /\ key \notin Marked => row = entry
  /\ key \in Marked \ Tried =>
       \E x \in Range(mem["progress"]) : x.kind = "challenge" /\ Told(x) = Told(row)
  /\ (\E x \in db["entries"] : x.user = u /\ x.slug = slug) <=> key \in Marked \cup Tried

(* Both give the same answer, but for the list of environments, which one  *)
(* gives oldest first and the other newest first; an update of a row that  *)
(* is gone, at which the database alone rejects; and what is read of a     *)
(* challenge, of which the table shows progress and scores as one.         *)
AnswersAgree ==
  LET m == answer.mem
      d == answer.db IN
  \/ m = d
  \/ answer.call = "listByUser" /\ m = Reverse(d)
  \/ answer.call = "touchLastSeen" /\ m = "touched" /\ d = "rejects"
  \/ answer.call = "update" /\ m = "null" /\ d = "rejects"
  \/ /\ answer.call = "recordSubmission" /\ m.of \in Marked
     /\ m = [d EXCEPT !.completedAt = m.completedAt]
  \/ /\ answer.call = "getUserSummary" /\ m.total = d.total /\ m.solved = d.solved
     /\ Except(Marked, m.challenges) = Except(Marked, d.challenges)
  \/ /\ answer.call = "listForUser" /\ family = "challenges"
     /\ Except(Tried, m) = Except(Tried, d)

(* After any sequence of calls both implementations hold the same rows,    *)
(* memory.ts has each user in both maps, and both answer alike, with the   *)
(* exceptions above and no other.                                          *)
StoresAgree ==
  /\ \A f \in {"users", "sessions", "events", "environments"} :
       Range(mem[f]) = db[f] /\ Len(mem[f]) = Cardinality(db[f])
  /\ mem["byEmail"] = mem["users"]
  /\ {x \in Range(mem["progress"]) : x.kind # "challenge"} = db["progress"]
  /\ \A u \in Users, slug \in Slugs \cup Paths : RowsAgree(u, slug)
  /\ AnswersAgree
=============================================================================
