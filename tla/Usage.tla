------------------------------- MODULE Usage -------------------------------
(***************************************************************************)
(* The budget (internal/budget) and the usage records (internal/tracking). *)
(* A request asks whether it may go on, talks to the model, and records    *)
(* the tokens it used in both; several requests do so at once.  The budget *)
(* lives in memory; the records are written to their file after each one,  *)
(* outside the lock.  Costs are whole numbers of some small coin.          *)
(***************************************************************************)
EXTENDS Naturals, Sequences, SequencesExt, FiniteSets, FiniteSetsExt

CONSTANTS Requests, Users,
          Limit,        \* of what is counted, and for "user"; 0: none
          Tokens,       \* what a request may use
          Costs,        \* what it may cost
          Listens,      \* whether somebody set a callback for alerts
          DaysPerMonth, MaxDays, MaxRecords, MaxStops,
          Torn          \* a file that is no JSON

Bills == {"dayCost", "monthCost"}
Counted == {"session", "day", "month"} \cup Bills
Daily == {"day", "dayCost"}
Monthly == {"month", "monthCost"}
Uses(s) == IF s \in Bills THEN Costs ELSE Tokens
UsageAssumption ==
    /\ IsFiniteSet(Requests)
    /\ \A S \in {Tokens, Costs} : IsFiniteSet(S) /\ S \subseteq Nat /\ S # {}
    /\ Limit \in [Counted \cup {"user"} -> Nat] /\ DaysPerMonth \in Nat \ {0} /\ MaxDays \in Nat
    /\ Torn \notin Seq([user : Users, tokens : Nat, cost : Nat, day : 0..MaxDays])
    /\ Listens \in BOOLEAN

VARIABLES day,                \* the date
          used, user, dayKey, monthKey, alerts,  \* budget.Manager
          records, file, snapshot,               \* tracking.Tracker
          at, of,             \* where a request is, and whose it is
          since,              \* history: the first record of this process
          made, stops

budget == <<used, user, dayKey, monthKey, alerts>>
tracker == <<records, file, snapshot>>
vars == <<day, budget, tracker, at, of, since, made, stops>>

month(d) == d \div DaysPerMonth
Total(rs) == FoldFunctionOnSet(+, 0, [i \in rs |-> records[i].tokens], rs)
Bill(rs) == FoldFunctionOnSet(+, 0, [i \in rs |-> records[i].cost], rs)

NoUse == [s \in Counted |-> 0]
NoUser == [u \in Users |-> 0]
Init ==
    /\ day = 0
    /\ used = NoUse /\ user = NoUser /\ dayKey = 0 /\ monthKey = 0 /\ alerts = {}
    /\ records = << >> /\ file = << >> /\ snapshot = [r \in Requests |-> << >>]
    /\ at = [r \in Requests |-> "idle"] /\ of \in [Requests -> Users]
    /\ since = 0 /\ made = 0 /\ stops = 0

NextDay ==
    /\ day < MaxDays /\ day' = day + 1
    /\ UNCHANGED <<budget, tracker, at, of, since, made, stops>>

Move(r, from, to) == at[r] = from /\ at' = [at EXCEPT ![r] = to]

-----------------------------------------------------------------------------
Reached(s) == Limit[s] > 0 /\ used[s] >= Limit[s]
\* Check does not look at the date: the last recorded day's use counts.
Allowed(u) ==
    /\ \A s \in Counted : ~Reached(s)
    /\ ~(Limit["user"] > 0 /\ user[u] >= Limit["user"])

Check(r) ==
    /\ made < MaxRecords /\ Allowed(of[r])
    /\ Move(r, "idle", "asking") /\ made' = made + 1
    /\ UNCHANGED <<day, budget, tracker, of, since, stops>>

\* Mutant: a new day leaves the users' counts as they are.
ResetUsersNever(new) == user

\* A new day empties the users' counts.
ResetUsers(new) == IF new THEN [u \in Users |-> 0] ELSE user

\* An alert is of 100, 80 or 50 percent (all asked for) and goes to the
\* callback; the program sets none yet.  A month's cost has none.
Level(s) ==
    LET Reaches(l) == used[s] * 100 >= Limit[s] * l
    IN IF Reaches(100) THEN 100 ELSE IF Reaches(80) THEN 80 ELSE IF Reaches(50) THEN 50 ELSE 0

Alerted == Counted \ {"monthCost"}
checkLimits ==
    {[span |-> s, level |-> Level(s)] : s \in {s \in Alerted : Listens /\ Limit[s] > 0 /\ Level(s) > 0}}

\* budget.Manager.Record
Record(r, n, c) ==
    /\ Move(r, "asking", "recorded")
    /\ LET new == dayKey # day
           Over(s) == (new /\ s \in Daily) \/ (monthKey # month(day) /\ s \in Monthly)
       IN /\ used' = [s \in Counted |-> (IF Over(s) THEN 0 ELSE used[s]) + (IF s \in Bills THEN c ELSE n)]
          /\ user' = [ResetUsers(new) EXCEPT ![of[r]] = @ + n]
    /\ dayKey' = day /\ monthKey' = month(day)
    /\ alerts' = checkLimits'
    /\ records' = Append(records, [user |-> of[r], tokens |-> n, cost |-> c, day |-> day])
    /\ UNCHANGED <<day, file, snapshot, of, since, made, stops>>

\* tracking.Tracker.Save: a snapshot under the lock, the file without it.
Snapshot(r) ==
    /\ Move(r, "recorded", "saving")
    /\ snapshot' = [snapshot EXCEPT ![r] = records]
    /\ UNCHANGED <<day, budget, records, file, of, since, made, stops>>

Save(r) ==
    /\ Move(r, "saving", "idle") /\ of' \in {[of EXCEPT ![r] = u] : u \in Users}
    /\ file' \in {snapshot[r], file, Torn}
    /\ snapshot' = [snapshot EXCEPT ![r] = << >>]
    /\ UNCHANGED <<day, budget, records, since, made, stops>>

\* The process ends, perhaps within a write, and starts again: the budget is
\* new, and of the records there are those that can be read.
Restart ==
    /\ stops < MaxStops /\ stops' = stops + 1
    /\ file' \in {file} \cup {Torn : r \in {r \in Requests : at[r] = "saving"}}
    /\ records' = IF file' = Torn THEN << >> ELSE file'
    /\ since' = Len(records')
    /\ used' = NoUse /\ user' = NoUser /\ dayKey' = day /\ monthKey' = month(day) /\ alerts' = {}
    /\ snapshot' = [r \in Requests |-> << >>]
    /\ at' = [r \in Requests |-> "idle"]
    /\ UNCHANGED <<day, of, made>>

Next ==
    \/ NextDay \/ Restart
    \/ \E r \in Requests : Check(r) \/ (\E n \in Tokens, c \in Costs : Record(r, n, c)) \/ Snapshot(r) \/ Save(r)

-----------------------------------------------------------------------------
TypeOK ==
    /\ used \in [Counted -> Nat] /\ user \in [Users -> Nat]
    /\ dayKey \in 0..MaxDays /\ day \in dayKey..MaxDays
    /\ at \in [Requests -> {"idle", "asking", "recorded", "saving"}]
    /\ \A i \in DOMAIN records : records[i].user \in Users /\ records[i].day \in 0..day

\* tracking.Tracker.GetSummary of the records this process added
Added == (since + 1)..Len(records)
Today(i) == records[i].day = dayKey
ThisMonth(i) == month(records[i].day) = monthKey

\* What the budget counts is what was recorded since the process started, the
\* tokens and what they cost: in all, on the last day and in the last month
\* that has a record, and on that day for each user.
CountsAreTrue ==
    /\ used["session"] = Total(Added)
    /\ used["day"] = Total({i \in Added : Today(i)})
    /\ used["month"] = Total({i \in Added : ThisMonth(i)})
    /\ used["dayCost"] = Bill({i \in Added : Today(i)})
    /\ used["monthCost"] = Bill({i \in Added : ThisMonth(i)})
    /\ \A u \in Users : user[u] = Total({i \in Added : Today(i) /\ records[i].user = u})

\* A limit on tokens or costs is passed by no more than what the requests that
\* run together use.  If somebody listens, the limits that are reached, and no
\* others, stand announced as reached when they refuse a request; those of a
\* user and on a month's cost refuse it unannounced.
LimitsHold ==
    /\ \A s \in Counted : Limit[s] > 0 => used[s] < Limit[s] + Cardinality(Requests) * Max(Uses(s))
    /\ Listens => \A s \in Alerted : Reached(s) <=> [span |-> s, level |-> 100] \in alerts

\* The file holds the first of the records, or is one that a failing write or
\* a dying process cut and no request has written since.
FileIsPrefix == file = Torn \/ IsPrefix(file, records)
=============================================================================
