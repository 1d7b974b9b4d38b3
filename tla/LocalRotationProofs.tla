-------------------------- MODULE LocalRotationProofs --------------------------
(***************************************************************************)
(* Proofs about LocalRotation, for all rules, numbers of days and runs.    *)
(*                                                                         *)
(* The rotation decides with what it has read (linked, doomed) while it    *)
(* changes what that was read from.  The inductive invariant LinkInv says  *)
(* what of it still holds of the directories, for the part of the loop     *)
(* that is ahead; WantedInv adds what is true until something fails.  Mid- *)
(* night may fall between any two steps and into the listing, so what was  *)
(* listed is not what would be listed now.                                 *)
(***************************************************************************)
EXTENDS LocalRotation, DeliveryProofs

\* The places of the two loops.
InLoop == pc \in {"next", "weekly", "relink", "daily", "remove"}
AtFile == pc \in {"weekly", "relink", "daily", "remove"}

\* Run r has not come to its delivery.
Unmade(r) == r > runs \/ (r = runs /\ (pc \in {"dump", "deliver"} \/ (~safe /\ pc # "idle")))

\* Outside of the loops they have left nothing behind; a run makes its copies
\* once.
Course ==
    /\ pc # "idle" => runs > 0
    /\ pc = "deliver" => 0 < archived /\ archived <= today /\ today - archived <= MaxAge
    /\ ~InLoop => listed = {} /\ linked = {} /\ unread = {} /\ doomed = {}
    /\ AtFile => cur \in doomed \ left
    /\ \A n \in doomed : n[1] \in listed /\ ~Unmade(n[2])
    /\ \A r \in Runs : Unmade(r) => (\A p \in Periods : files[p][r].is = "none") /\ made[r] = NotMade

\* A link leads to an earlier period, and what was noted of it is its target.
LinksLeadBack ==
    /\ \A p \in Periods, r \in Runs : files[p][r].is = "link" => Before(files[p][r].to, p)
    /\ \A x \in linked : Before(x[1], x[3])
    /\ \A x, y \in linked : x[2] = y[2] /\ x[3] = y[3] => x = y

Base == TypeOK /\ Course /\ LinksLeadBack

\* The loop has still to come to, or is at, name n.
Ahead(n) == n \in left \/ (AtFile /\ n = cur)

\* A listed link to a file that is to go is known to the loop, unless it could
\* not be read.
LinksAreKnown ==
    InLoop => \A p \in Periods, r \in Runs :
        p \in listed /\ files[p][r].is = "link" /\ Ahead(<<files[p][r].to, r>>)
            => <<files[p][r].to, r, p>> \in linked \/ <<p, r>> \in unread

\* The loop is before the step that would move the file x[1] over its link x[3].
Awaited(x) ==
    \/ <<x[1], x[2]>> \in left
    \/ cur = <<x[1], x[2]>> /\ (pc = "weekly" \/ (x[3] = "daily" /\ pc \in {"relink", "daily"}))

\* No file has come into the place of such a link.
LinksStayLinks == \A x \in linked : Awaited(x) => files[x[3]][x[2]].is \in {"link", "none"}

\* No link leads to a link, but for a moment, after the last accident.
LinksLeadToFiles ==
    /\ \A r \in Runs : files["daily"][r].is = "link" /\ files["daily"][r].to = "weekly"
                       /\ files["weekly"][r].is = "link"
          => pc = "daily" /\ cur = <<"monthly", r>> /\ ~moved /\ faults # 0 /\ HasKeptLink(DailyLink)
    /\ \A x \in linked : files[x[1]][x[2]].is # "link"

\* A file with a link that is to stay is kept.
KeptForLinks ==
    /\ moved => kept /\ pc # "weekly"
    /\ pc = "relink" => /\ kept /\ HasKeptLink(WeeklyLink)
                        /\ files["weekly"][cur[2]].is = "link" => ~moved /\ faults # 0
    /\ pc \in {"daily", "remove"} /\ HasKeptLink(WeeklyLink) => kept
    /\ pc = "remove" /\ HasKeptLink(DailyLink) => kept

LinkInv == Base /\ LinksAreKnown /\ LinksStayLinks /\ LinksLeadToFiles /\ KeptForLinks

\* What one delivery does to the directories: only names of the run change;
\* the first due directory has the file, or a part of it, the others links.
LEMMA DeliverMakes ==
    ASSUME TypeOK, Course, Deliver
    PROVE  /\ Due \in SUBSET Periods
           /\ Due # {} => First(Due) \in Due /\ \A p \in Due \ {First(Due)} : Before(First(Due), p)
           /\ runs \in Runs /\ clock' = clock + 1
           /\ files' \in [Periods -> [Runs -> Copies]]
           /\ \A p \in Periods, r \in Runs \ {runs} : files'[p][r] = files[p][r]
           /\ \A p \in Periods : files'[p][runs].is = "link" =>
                 p \in Due \ {First(Due)} /\ files'[p][runs].to = First(Due)
           /\ \A p \in Periods : files'[p][runs].is # "none" =>
                 p \in Due /\ files'[p][runs].at = clock' /\ archived <= files'[p][runs].day
           /\ \/ Fault /\ UNCHANGED made
              \/ /\ NoFault
                 /\ made' = [made EXCEPT ![runs] = [periods |-> Due, day |-> today, archived |-> archived]]
                 /\ \A p \in Due : files'[p][runs].is = IF p = First(Due) THEN "archive" ELSE "link"
<1> DEFINE top == First(Due)
<1>1. /\ Due \in SUBSET Periods /\ today \in Nat /\ archived \in Nat /\ archived <= today /\ clock \in Nat
      /\ runs \in Runs /\ runs \in Int
  BY DstListType, LocalAssumption DEF TypeOK, Course, Deliver, Runs, Due
<1>2. Due # {} => top \in Due /\ \A p \in Due \ {top} : Before(top, p)
  BY <1>1, FirstOfDue
<1>3. PICK o \in LocalDelivery(TRUE, archived, Empty, Due, today) :
         /\ files' = [p \in Periods |-> [files[p] EXCEPT ![runs] =
                 IF o.held[p].is = "none" THEN NoCopy
                 ELSE [is |-> o.held[p].is, to |-> Target(o.held, p), at |-> clock', day |-> o.held[p].day]]]
         /\ IF o.ok
            THEN /\ made' = [made EXCEPT ![runs] = [periods |-> Due, day |-> today, archived |-> archived]]
                 /\ NoFault
            ELSE Fault /\ UNCHANGED made
  BY DEF Deliver, Empty
<1>4. /\ o.ok \in BOOLEAN
      /\ \A p \in Periods : o.held[p] \in Slot /\ (o.held[p].is # "none" => archived <= o.held[p].day)
      /\ \A p \in Periods : o.held[p].is = "link" => p \in Due \ {top}
      /\ \A p \in Periods \ Due : o.held[p].is = "none"
      /\ o.ok => \A p \in Due : o.held[p].is = IF p = top THEN "archive" ELSE "link"
  BY <1>1, FreshDelivery
<1>5. \A p \in Periods : Target(o.held, p) = IF o.held[p].is = "link" THEN top ELSE "none"
  BY DEF Target
<1> HIDE DEF top
<1> DEFINE Made(p) == [is |-> o.held[p].is, to |-> IF o.held[p].is = "link" THEN top ELSE "none",
                       at |-> clock', day |-> o.held[p].day]
           New(p) == IF o.held[p].is = "none" THEN NoCopy ELSE Made(p)
<1>6. \A p \in Periods : files'[p] = [files[p] EXCEPT ![runs] = New(p)]
  BY <1>3, <1>5
<1>7. clock' = clock + 1 /\ files \in [Periods -> [Runs -> Copies]]
  BY DEF Deliver, TypeOK
<1>9. NoCopy \in Copies /\ NoCopy.is = "none"
  BY DEF NoCopy, Copies, Contents
<1>a. ASSUME NEW p \in Periods
      PROVE  /\ New(p) \in Copies /\ New(p).is = o.held[p].is
             /\ New(p).is = "link" => New(p).to = top
             /\ New(p).is # "none" => New(p).at = clock' /\ archived <= New(p).day
  <2>1. Made(p) \in Copies
    BY <1>1, <1>2, <1>4, <1>7 DEF Copies, Slot
  <2>2. /\ Made(p).is = o.held[p].is /\ Made(p).at = clock' /\ Made(p).day = o.held[p].day
        /\ o.held[p].is = "link" => Made(p).to = top
    OBVIOUS
  <2> HIDE DEF Made
  <2> QED
    BY <1>4, <1>9, <2>1, <2>2
<1> HIDE DEF New
<1>8. /\ \A p \in Periods, r \in Runs \ {runs} : files'[p][r] = files[p][r]
      /\ \A p \in Periods : files'[p][runs] = New(p)
  <2>1. ASSUME NEW p \in Periods, NEW copy, files'[p] = [files[p] EXCEPT ![runs] = copy]
        PROVE  files'[p][runs] = copy /\ \A r \in Runs \ {runs} : files'[p][r] = files[p][r]
    BY <1>1, <1>7, <2>1
  <2> QED
    BY <1>6, <2>1, Zenon
<1>10. \A p \in Periods : files'[p][runs] \in Copies
  BY <1>8, <1>a
<1>11. files' \in [Periods -> [Runs -> Copies]]
  BY <1>1, <1>3, <1>6, <1>7, <1>10
<1>12. \A p \in Periods : /\ files'[p][runs].is = o.held[p].is
                          /\ files'[p][runs].is = "link" => files'[p][runs].to = top
                          /\ files'[p][runs].is # "none" =>
                                files'[p][runs].at = clock' /\ archived <= files'[p][runs].day
  BY <1>8, <1>a
<1>13. /\ \A p \in Periods : files'[p][runs].is = "link" => p \in Due \ {top} /\ files'[p][runs].to = top
       /\ \A p \in Periods : files'[p][runs].is # "none" =>
             p \in Due /\ files'[p][runs].at = clock' /\ archived <= files'[p][runs].day
  BY <1>4, <1>12
<1>14. \/ Fault /\ UNCHANGED made
       \/ /\ NoFault
          /\ made' = [made EXCEPT ![runs] = [periods |-> Due, day |-> today, archived |-> archived]]
          /\ \A p \in Due : files'[p][runs].is = IF p = top THEN "archive" ELSE "link"
  BY <1>1, <1>3, <1>4, <1>12
<1> QED
  BY <1>1, <1>2, <1>7, <1>8, <1>11, <1>13, <1>14 DEF top

-----------------------------------------------------------------------------
(***************************************************************************)
(* Directories, and what the loop does to them.                            *)
(***************************************************************************)
Directories == [Periods -> [Runs -> Copies]]

LEMMA NoCopyIs == NoCopy \in Copies /\ NoCopy.is = "none"
BY DEF NoCopy, Copies, Contents

LEMMA WithDoes ==
    ASSUME NEW fs \in Directories, NEW p \in Periods, NEW r \in Runs, NEW copy \in Copies
    PROVE  /\ With(fs, <<p, r>>, copy) \in Directories
           /\ With(fs, <<p, r>>, copy)[p][r] = copy
           /\ \A q \in Periods, s \in Runs : q # p \/ s # r => With(fs, <<p, r>>, copy)[q][s] = fs[q][s]
BY DEF With, Directories

LEMMA WithoutDoes ==
    ASSUME NEW fs \in Directories, NEW p \in Periods, NEW r \in Runs
    PROVE  /\ Without(fs, <<p, r>>) \in Directories
           /\ Without(fs, <<p, r>>)[p][r] = NoCopy
           /\ \A q \in Periods, s \in Runs : q # p \/ s # r => Without(fs, <<p, r>>)[q][s] = fs[q][s]
<1>1. Without(fs, <<p, r>>) = With(fs, <<p, r>>, NoCopy) /\ NoCopy \in Copies
  BY NoCopyIs DEF Without
<1> QED
  BY <1>1, WithDoes

\* The name at which the loop is.
LEMMA CurIsName ==
    ASSUME TypeOK, Course, AtFile
    PROVE  cur[1] \in Periods /\ cur[2] \in Runs /\ cur = <<cur[1], cur[2]>> /\ cur \in Names
BY DEF TypeOK, Course, Names

\* A link that the loop knows leads to an earlier period's directory.
LEMMA KnownLink ==
    ASSUME LinksLeadBack, NEW n, HasLink(n)
    PROVE  Before(cur[1], n[1])
BY DEF LinksLeadBack, HasLink

\* moveFile has put the file in the place of its link, which is in p.
Moved(p) ==
    /\ files'[p][cur[2]] = files[cur[1]][cur[2]]
    /\ files'[cur[1]][cur[2]] = NoCopy
    /\ \A q \in Periods, r \in Runs : r # cur[2] \/ q \notin {p, cur[1]} => files'[q][r] = files[q][r]
    /\ moved' = TRUE /\ NoFault /\ files[p][cur[2]].is # "none"

\* It has failed, perhaps after the removal of the link.
NotMoved(p) ==
    /\ files'[p][cur[2]] \in {files[p][cur[2]], NoCopy}
    /\ \A q \in Periods, r \in Runs : r # cur[2] \/ q # p => files'[q][r] = files[q][r]
    /\ moved' = moved
    /\ IF files[p][cur[2]].is # "none" THEN Fault ELSE NoFault

LEMMA MoveOverDoes ==
    ASSUME TypeOK, Course, AtFile, NEW p \in Periods, p # cur[1], MoveOver(<<p, cur[2]>>)
    PROVE  files' \in Directories /\ (Moved(p) \/ NotMoved(p))
<1> DEFINE n == <<p, cur[2]>>
<1>1. /\ cur[1] \in Periods /\ cur[2] \in Runs /\ cur = <<cur[1], cur[2]>>
      /\ files \in Directories /\ files[cur[1]][cur[2]] \in Copies
  BY CurIsName DEF TypeOK, Directories
<1>2. There(files, n) <=> files[p][cur[2]].is # "none"
  BY DEF There
<1>3. CASE /\ There(files, n) /\ moved' = TRUE /\ NoFault
           /\ files' = Without(With(files, n, At(files, cur)), cur)
  <2>1. PICK fs \in Directories : fs = With(files, n, At(files, cur))
    BY <1>1, WithDoes DEF At
  <2>2. /\ fs[p][cur[2]] = files[cur[1]][cur[2]]
        /\ \A q \in Periods, r \in Runs : q # p \/ r # cur[2] => fs[q][r] = files[q][r]
    BY <1>1, <2>1, WithDoes DEF At
  <2>3. files' = Without(fs, <<cur[1], cur[2]>>)
    BY <1>1, <1>3, <2>1
  <2>4. /\ files' \in Directories /\ files'[cur[1]][cur[2]] = NoCopy
        /\ \A q \in Periods, r \in Runs : q # cur[1] \/ r # cur[2] => files'[q][r] = fs[q][r]
    <3>1. PICK q \in Periods, r \in Runs : q = cur[1] /\ r = cur[2]
      BY <1>1
    <3>2. files' = Without(fs, <<q, r>>)
      BY <2>3, <3>1
    <3> QED
      BY <2>1, <3>1, <3>2, WithoutDoes
  <2> QED
    BY <1>1, <1>2, <1>3, <2>2, <2>4 DEF Moved
<1>4. CASE /\ files' \in {files, Without(files, n)} /\ UNCHANGED moved
           /\ IF There(files, n) THEN Fault ELSE NoFault
  <2>1. /\ Without(files, n) \in Directories /\ Without(files, n)[p][cur[2]] = NoCopy
        /\ \A q \in Periods, r \in Runs : q # p \/ r # cur[2] => Without(files, n)[q][r] = files[q][r]
    BY <1>1, WithoutDoes
  <2> QED
    BY <1>1, <1>2, <1>4, <2>1 DEF NotMoved
<1> QED
  BY <1>3, <1>4 DEF MoveOver

\* The three steps that deal with the links of a file.
LEMMA MoveToWeeklyDoes ==
    ASSUME TypeOK, Course, LinksLeadBack, MoveToWeekly
    PROVE  /\ pc = "weekly" /\ UNCHANGED <<setup, calendar, runs, archived, clock, listed, linked, unread, doomed, left, cur, made>>
           /\ files' \in Directories
           /\ \/ /\ ~HasKeptLink(WeeklyLink) /\ pc' = "daily"
                 /\ UNCHANGED <<files, moved, kept, faults>>
              \/ /\ HasKeptLink(WeeklyLink) /\ cur[1] = "monthly" /\ kept' = TRUE /\ pc' = "relink"
                 /\ Moved("weekly") \/ NotMoved("weekly")
<1>1. CASE HasKeptLink(WeeklyLink)
  <2>1. cur[1] = "monthly"
    BY <1>1, KnownLink DEF HasKeptLink, WeeklyLink, Before
  <2>2. MoveOver(<<"weekly", cur[2]>>) /\ kept' = TRUE /\ pc' = "relink" /\ AtFile
    BY <1>1 DEF MoveToWeekly, WeeklyLink, AtFile
  <2>3. files' \in Directories /\ (Moved("weekly") \/ NotMoved("weekly"))
    BY <2>1, <2>2, MoveOverDoes DEF Periods
  <2> QED
    BY <1>1, <2>1, <2>2, <2>3 DEF MoveToWeekly
<1>2. CASE ~HasKeptLink(WeeklyLink)
  BY <1>2 DEF MoveToWeekly, TypeOK, Directories
<1> QED
  BY <1>1, <1>2

LEMMA MoveToDailyDoes ==
    ASSUME TypeOK, Course, LinksLeadBack, MoveToDaily
    PROVE  /\ pc = "daily" /\ pc' = "remove"
           /\ UNCHANGED <<setup, calendar, runs, archived, clock, listed, linked, unread, doomed, left, cur, made>>
           /\ files' \in Directories
           /\ \/ ~NeedsDailyMove /\ UNCHANGED <<files, moved, kept, faults>>
              \/ /\ HasKeptLink(DailyLink) /\ ~moved /\ cur[1] # "daily" /\ kept' = TRUE
                 /\ Moved("daily") \/ NotMoved("daily")
<1>1. CASE NeedsDailyMove
  <2>1. HasKeptLink(DailyLink) /\ ~moved /\ cur[1] # "daily"
    BY <1>1, KnownLink DEF NeedsDailyMove, HasKeptLink, DailyLink, Before
  <2>2. MoveOver(<<"daily", cur[2]>>) /\ kept' = TRUE /\ AtFile
    BY <1>1 DEF MoveToDaily, DailyLink, AtFile
  <2>3. files' \in Directories /\ (Moved("daily") \/ NotMoved("daily"))
    BY <2>1, <2>2, MoveOverDoes DEF Periods
  <2> QED
    BY <1>1, <2>1, <2>2, <2>3 DEF MoveToDaily
<1>2. CASE ~NeedsDailyMove
  BY <1>2 DEF MoveToDaily, TypeOK, Directories
<1> QED
  BY <1>1, <1>2

LEMMA RelinkDoes ==
    ASSUME TypeOK, Course, Relink
    PROVE  /\ pc = "relink" /\ files' \in Directories /\ UNCHANGED <<setup, calendar, runs, archived, made>>
           /\ \A p \in Periods, r \in Runs : r # cur[2] \/ p # "daily" => files'[p][r] = files[p][r]
           /\ \/ BreakLoop /\ (NoFault \/ Fault)
              \/ /\ pc' = "daily" /\ UNCHANGED loop
                 /\ \/ UNCHANGED <<files, clock>> /\ NoFault /\ ~HasKeptLink(DailyLink)
                    \/ /\ HasKeptLink(DailyLink) /\ clock' = clock + 1 /\ NoFault
                       /\ files'["daily"][cur[2]] =
                             [is |-> "link", to |-> "weekly", at |-> clock', day |-> today]
                    \/ /\ HasKeptLink(DailyLink) /\ clock' = clock /\ Fault
                       /\ files'["daily"][cur[2]] = NoCopy
<1>1. pc = "relink" /\ UNCHANGED <<setup, calendar, runs, archived, made>>
  BY DEF Relink
<1>2. cur[2] \in Runs /\ "daily" \in Periods /\ files \in Directories
  BY <1>1, CurIsName DEF TypeOK, Directories, Periods, AtFile
<1>4. ASSUME HasKeptLink(DailyLink), clock' = clock + 1, NoFault, pc' = "daily", UNCHANGED loop,
             files' = With(files, DailyLink, [is |-> "link", to |-> "weekly", at |-> clock', day |-> today])
      PROVE  /\ files' \in Directories
             /\ files'["daily"][cur[2]] = [is |-> "link", to |-> "weekly", at |-> clock', day |-> today]
             /\ \A p \in Periods, r \in Runs : r # cur[2] \/ p # "daily" => files'[p][r] = files[p][r]
  <2>1. PICK copy \in Copies, r \in Runs :
           copy = [is |-> "link", to |-> "weekly", at |-> clock', day |-> today] /\ r = cur[2]
    <3>1. clock' \in Nat /\ today \in Nat
      BY <1>4, LocalAssumption DEF TypeOK
    <3> QED
      BY <1>2, <3>1 DEF Copies, Contents, Periods
  <2>2. files' = With(files, <<"daily", r>>, copy)
    BY <1>4, <2>1 DEF DailyLink
  <2> QED
    BY <1>2, <2>1, <2>2, WithDoes
<1>5. ASSUME HasKeptLink(DailyLink), clock' = clock, Fault, pc' = "daily", UNCHANGED loop,
             files' = Without(files, DailyLink)
      PROVE  /\ files' \in Directories
             /\ files'["daily"][cur[2]] = NoCopy
             /\ \A p \in Periods, r \in Runs : r # cur[2] \/ p # "daily" => files'[p][r] = files[p][r]
  <2>1. files' = Without(files, <<"daily", cur[2]>>)
    BY <1>5 DEF DailyLink
  <2> QED
    BY <1>2, <2>1, WithoutDoes
<1>6. \/ UNCHANGED <<files, clock>> /\ NoFault /\ ~HasKeptLink(DailyLink) /\ pc' = "daily" /\ UNCHANGED loop
      \/ BreakLoop /\ (NoFault \/ Fault)
      \/ /\ HasKeptLink(DailyLink) /\ clock' = clock + 1 /\ NoFault /\ pc' = "daily" /\ UNCHANGED loop
         /\ files' = With(files, DailyLink, [is |-> "link", to |-> "weekly", at |-> clock', day |-> today])
      \/ /\ HasKeptLink(DailyLink) /\ clock' = clock /\ Fault /\ pc' = "daily" /\ UNCHANGED loop
         /\ files' = Without(files, DailyLink)
  BY DEF Relink, HasKeptLink
<1>7. BreakLoop => files' = files
  BY DEF BreakLoop
<1> QED
  BY <1>1, <1>2, <1>4, <1>5, <1>6, <1>7

LEMMA RemoveFileDoes ==
    ASSUME TypeOK, Course, RemoveFile
    PROVE  /\ pc = "remove" /\ pc' = "next"
           /\ UNCHANGED <<setup, calendar, runs, archived, clock, loop, made>>
           /\ files' \in Directories
           /\ \A p \in Periods, r \in Runs : p # cur[1] \/ r # cur[2] => files'[p][r] = files[p][r]
           /\ \/ kept /\ NoFault /\ UNCHANGED files
              \/ ~kept /\ NoFault /\ files'[cur[1]][cur[2]] = NoCopy
              \/ ~kept /\ Fault /\ UNCHANGED files
<1>1. /\ cur[1] \in Periods /\ cur[2] \in Runs /\ cur = <<cur[1], cur[2]>> /\ files \in Directories
  BY CurIsName DEF TypeOK, Directories, RemoveFile, AtFile
<1>2. ASSUME files' = Without(files, cur)
      PROVE  /\ files' \in Directories
             /\ files'[cur[1]][cur[2]] = NoCopy
             /\ \A p \in Periods, r \in Runs : p # cur[1] \/ r # cur[2] => files'[p][r] = files[p][r]
  <2>1. PICK q \in Periods, r \in Runs : q = cur[1] /\ r = cur[2] /\ cur = <<q, r>>
    BY <1>1
  <2>2. files' = Without(files, <<q, r>>)
    BY <1>2, <2>1
  <2> QED
    BY <1>1, <2>1, <2>2, WithoutDoes
<1> QED
  BY <1>1, <1>2 DEF RemoveFile

-----------------------------------------------------------------------------
(***************************************************************************)
(* Types, the course of a run, and the direction of links.                 *)
(***************************************************************************)
LEMMA BaseInit == Init => Base
<1> SUFFICES ASSUME Init
             PROVE  Base
  OBVIOUS
<1>1. files \in Directories /\ \A p \in Periods, r \in Runs : files[p][r].is = "none"
  BY NoCopyIs DEF Init, Directories
<1>2. NotMade \in [periods : SUBSET Periods, day : Nat, archived : Nat]
  BY DEF NotMade
<1>3. TypeOK
  <2>1. /\ today \in 1 .. LastDay /\ archived \in 0 .. LastDay
        /\ runs \in 0 .. MaxRuns /\ clock \in Nat /\ faults \in 0 .. MaxFaults
    BY LocalAssumption DEF Init
  <2>5. rule \in RuleChoices /\ safe \in BOOLEAN /\ tar \in BOOLEAN /\ late \in BOOLEAN
    BY Zenon DEF Init
  <2>2. pc \in {"idle", "list", "dump", "deliver", "next", "weekly", "relink", "daily", "remove"}
    BY DEF Init
  <2>3. /\ listed \subseteq Periods /\ linked \subseteq Periods \X Runs \X {"weekly", "daily"}
        /\ doomed \subseteq Names /\ left \subseteq doomed /\ unread \subseteq Names
        /\ cur \in Names \cup {NoName} /\ moved \in BOOLEAN /\ kept \in BOOLEAN
    BY DEF Init
  <2>4. made \in [Runs -> [periods : SUBSET Periods, day : Nat, archived : Nat]]
    BY <1>2 DEF Init
  <2> QED
    BY <1>1, <2>1, <2>2, <2>3, <2>4, <2>5 DEF TypeOK, Directories
<1>4. Course
  BY <1>1 DEF Init, Course, InLoop, AtFile, There
<1>5. LinksLeadBack
  BY <1>1 DEF Init, LinksLeadBack
<1> QED
  BY <1>3, <1>4, <1>5 DEF Base

\* What the first loop sees of the directories, and notes.
Seen == {n \in Names : n[1] \in listed' /\ There(files, n)}
SeenLinks == {n \in Seen : files[n[1]][n[2]].is = "link"}

LEMMA ListFilesReads ==
    ASSUME ListFiles
    PROVE  \E on \in Readings :
              /\ Listed(on) = Seen /\ Links(on) = SeenLinks /\ doomed' = ToDelete(on)
              /\ listed' = {p \in Periods : InEffect(rule, p, on[p])}
              /\ today' = on["daily"]
              /\ \E skipped \in {{}} \cup {{n} : n \in SeenLinks} :
                    /\ IF skipped = {} THEN NoFault ELSE Fault
                    /\ unread' = skipped /\ linked' = LinksTo(on, skipped)
<1>1. PICK on \in Readings :
         /\ \E skipped \in {{}} \cup {{n} : n \in Links(on)} :
               /\ IF skipped = {} THEN NoFault ELSE Fault
               /\ unread' = skipped
               /\ linked' = LinksTo(on, skipped)
         /\ listed' = {p \in Periods : IsListed(p, on)}
         /\ doomed' = ToDelete(on)
         /\ today' = on["daily"]
  BY DEF ListFiles
<1>2. Listed(on) = Seen
  BY <1>1 DEF Listed, Seen, Names
<1>3. Links(on) = SeenLinks
  BY <1>2 DEF Links, SeenLinks
<1> QED
  BY <1>1, <1>2, <1>3 DEF IsListed

LEMMA ReadingsAre ==
    ASSUME TypeOK, NEW on \in Readings
    PROVE  /\ \A p \in Periods : on[p] \in 1 .. LastDay /\ today <= on[p] /\ on[p] <= on["daily"]
           /\ \A p \in Periods : on[p] \in {today, today + 1}
           /\ \A p, q \in Periods : Before(p, q) => on[p] <= on[q]
           /\ \A p \in Periods : on[p] # today => LateRuns
<1>1. today \in 1 .. LastDay /\ LastDay \in Nat
  BY LocalAssumption DEF TypeOK
<1>2. /\ on \in [Periods -> IF LateRuns /\ today < LastDay THEN {today, today + 1} ELSE {today}]
      /\ \A p, q \in Periods : Before(p, q) => on[p] <= on[q]
  BY DEF Readings
<1>3. \A p \in Periods : /\ on[p] \in {today, today + 1}
                         /\ on[p] # today => LateRuns /\ today < LastDay
  BY <1>1, <1>2
<1>4. \A p \in Periods : p = "daily" \/ Before(p, "daily")
  BY DEF Periods, Before
<1>5. "daily" \in Periods
  BY DEF Periods
<1> QED
  BY <1>1, <1>2, <1>3, <1>4, <1>5

LEMMA ListFilesNotes ==
    ASSUME Base, ListFiles
    PROVE  /\ linked' \subseteq Periods \X Runs \X {"weekly", "daily"}
           /\ doomed' \subseteq Seen /\ left' = doomed' /\ unread' \subseteq SeenLinks
           /\ listed' \subseteq Periods
           /\ today' \in 1 .. LastDay /\ today' \in {today, today + 1} /\ late' = (late \/ today' # today)
           /\ (unread' = {} /\ NoFault) \/ Fault
           /\ \A q \in Periods, r \in Runs, p \in Periods :
                 <<q, r, p>> \in linked' <=> /\ <<p, r>> \in SeenLinks \ unread'
                                             /\ files[p][r].to = q /\ <<q, r>> \in Seen
<1>0. PICK on \in Readings :
         /\ Listed(on) = Seen /\ Links(on) = SeenLinks /\ doomed' = ToDelete(on)
         /\ listed' = {p \in Periods : InEffect(rule, p, on[p])}
         /\ today' = on["daily"]
         /\ \E skipped \in {{}} \cup {{n} : n \in SeenLinks} :
               /\ IF skipped = {} THEN NoFault ELSE Fault
               /\ unread' = skipped /\ linked' = LinksTo(on, skipped)
  BY ListFilesReads
<1>1. PICK skipped \in {{}} \cup {{n} : n \in SeenLinks} :
         /\ IF skipped = {} THEN NoFault ELSE Fault
         /\ unread' = skipped
         /\ linked' = LinksTo(on, skipped)
  BY <1>0
<1>2. ASSUME NEW n \in SeenLinks
      PROVE  /\ n[1] \in {"weekly", "daily"} /\ n[2] \in Runs /\ LinkTarget(n)[1] \in Periods
             /\ n = <<n[1], n[2]>> /\ LinkTarget(n) = <<files[n[1]][n[2]].to, n[2]>>
  <2>1. n \in Names /\ files[n[1]][n[2]].is = "link"
    BY DEF SeenLinks, Seen
  <2>2. n[1] \in Periods /\ n[2] \in Runs /\ n = <<n[1], n[2]>>
    BY <2>1 DEF Names
  <2>3. Before(files[n[1]][n[2]].to, n[1]) /\ files[n[1]][n[2]].to \in Periods \cup {"none"}
    BY <2>1, <2>2 DEF Base, LinksLeadBack, TypeOK, Copies
  <2> QED
    BY <2>2, <2>3 DEF LinkTarget, Before, Periods
<1>3. linked' \subseteq Periods \X Runs \X {"weekly", "daily"}
  BY <1>0, <1>1, <1>2 DEF LinksTo
<1>4. doomed' \subseteq Seen /\ left' = doomed'
  BY <1>0 DEF ListFiles, ToDelete
<1>5. ASSUME NEW q \in Periods, NEW r \in Runs, NEW p \in Periods
      PROVE  <<q, r, p>> \in linked' <=> /\ <<p, r>> \in SeenLinks \ unread'
                                         /\ files[p][r].to = q /\ <<q, r>> \in Seen
  <2>1. ASSUME <<q, r, p>> \in linked'
        PROVE  <<p, r>> \in SeenLinks \ unread' /\ files[p][r].to = q /\ <<q, r>> \in Seen
    <3>1. PICK n \in SeenLinks \ unread' : LinkTarget(n) \in Seen /\ <<q, r, p>> = <<LinkTarget(n)[1], n[2], n[1]>>
      BY <1>0, <1>1, <2>1 DEF LinksTo
    <3>2. n = <<p, r>> /\ LinkTarget(n) = <<q, r>>
      BY <1>2, <3>1
    <3> QED
      BY <1>2, <3>1, <3>2
  <2>2. ASSUME <<p, r>> \in SeenLinks \ unread', files[p][r].to = q, <<q, r>> \in Seen
        PROVE  <<q, r, p>> \in linked'
    <3>1. LinkTarget(<<p, r>>) = <<q, r>>
      BY <2>2 DEF LinkTarget
    <3> QED
      BY <1>0, <1>1, <2>2, <3>1 DEF LinksTo
  <2> QED
    BY <2>1, <2>2
<1>6. unread' \subseteq SeenLinks /\ ((unread' = {} /\ NoFault) \/ Fault)
  BY <1>1
<1>7. today' \in 1 .. LastDay /\ today' \in {today, today + 1}
  BY <1>0, ReadingsAre DEF Base, Periods
<1>8. late' = (late \/ today' # today)
  BY DEF ListFiles
<1> QED
  BY <1>0, <1>3, <1>4, <1>5, <1>6, <1>7, <1>8

\* Every action keeps the types.
LEMMA TypeNext == Base /\ [Next]_vars => TypeOK'
<1> SUFFICES ASSUME Base, [Next]_vars
             PROVE  TypeOK'
  OBVIOUS
<1> USE DEF setup, calendar, loop
<1>1. TypeOK /\ Course /\ LinksLeadBack
  BY DEF Base
<1>2. Fault \/ NoFault => faults' \in 0 .. MaxFaults
  BY <1>1, LocalAssumption DEF TypeOK, Fault, NoFault, CanFail
<1>3. EndLoop => /\ listed' = {} /\ linked' = {} /\ unread' = {} /\ doomed' = {}
                 /\ cur' \in Names \cup {NoName} /\ moved' \in BOOLEAN /\ kept' \in BOOLEAN
  BY DEF EndLoop
<1>4. CASE StartRun
  <2>1. runs' \in 0 .. MaxRuns
    BY <1>1, <1>4, LocalAssumption DEF StartRun, TypeOK
  <2> QED
    BY <1>1, <1>4, <2>1 DEF StartRun, TypeOK
<1>5. CASE Deliver
  <2>1. /\ files' \in Directories /\ clock' = clock + 1 /\ (Fault \/ NoFault)
        /\ runs \in Runs /\ Due \in SUBSET Periods /\ today \in Nat /\ archived \in Nat
        /\ \/ UNCHANGED made
           \/ made' = [made EXCEPT ![runs] = [periods |-> Due, day |-> today, archived |-> archived]]
    BY <1>1, <1>5, DeliverMakes, LocalAssumption DEF Directories, TypeOK
  <2>2. made' \in [Runs -> [periods : SUBSET Periods, day : Nat, archived : Nat]]
    BY <1>1, <2>1 DEF TypeOK
  <2>3. pc' \in {"list", "idle"} /\ archived' = 0 /\ UNCHANGED <<setup, calendar, runs, loop>>
    BY <1>5 DEF Deliver, AfterBackup
  <2> QED
    BY <1>1, <1>2, <2>1, <2>2, <2>3, LocalAssumption DEF TypeOK, Directories
<1>6. CASE DumpFails
  BY <1>1, <1>2, <1>6 DEF DumpFails, TypeOK, AfterBackup
<1>18. CASE Dump
  <2>1. archived' \in 0 .. LastDay
    BY <1>1, <1>18, LocalAssumption DEF Dump, TypeOK
  <2> QED
    BY <1>1, <1>18, <2>1 DEF Dump, TypeOK
<1>7. CASE ListFiles
  <2>1. /\ linked' \subseteq Periods \X Runs \X {"weekly", "daily"} /\ doomed' \subseteq Names
        /\ left' = doomed' /\ unread' \subseteq Names /\ (Fault \/ NoFault) /\ listed' \subseteq Periods
        /\ today' \in 1 .. LastDay
    BY <1>7, ListFilesNotes DEF Seen, SeenLinks
  <2>2. /\ pc' = "next" /\ UNCHANGED <<setup, runs, archived, files, clock, cur, moved, kept, made>>
        /\ late' \in BOOLEAN
    BY <1>7 DEF ListFiles
  <2> QED
    BY <1>1, <1>2, <2>1, <2>2 DEF TypeOK
<1>8. CASE ListingFails
  BY <1>1, <1>2, <1>8 DEF ListingFails, TypeOK, AfterRotation
<1>9. CASE NextFile
  <2>1. cur' \in Names /\ left' \subseteq doomed' /\ moved' \in BOOLEAN /\ kept' \in BOOLEAN
    BY <1>1, <1>9 DEF NextFile, TypeOK
  <2> QED
    BY <1>1, <1>9, <2>1 DEF NextFile, TypeOK
<1>10. CASE RotationDone
  BY <1>1, <1>3, <1>10 DEF RotationDone, TypeOK, AfterRotation
<1>11. CASE MoveToWeekly
  <2>1. /\ files' \in Directories /\ pc' \in {"daily", "relink"} /\ (Fault \/ NoFault)
        /\ moved' \in BOOLEAN /\ kept' \in BOOLEAN
    BY <1>1, <1>11, MoveToWeeklyDoes DEF TypeOK, Moved, NotMoved, NoFault
  <2> QED
    BY <1>1, <1>2, <1>11, <2>1, MoveToWeeklyDoes DEF TypeOK, Directories
<1>12. CASE Relink
  <2>1. files' \in Directories /\ UNCHANGED <<setup, calendar, runs, archived, made>>
    BY <1>1, <1>12, RelinkDoes
  <2>2. /\ (Fault \/ NoFault) /\ clock' \in Nat
        /\ BreakLoop \/ (pc' = "daily" /\ UNCHANGED loop)
    BY <1>1, <1>12, RelinkDoes DEF TypeOK, BreakLoop
  <2>3. CASE BreakLoop
    BY <1>1, <1>2, <1>3, <2>1, <2>2, <2>3 DEF BreakLoop, TypeOK, AfterRotation, Directories
  <2>4. CASE pc' = "daily" /\ UNCHANGED loop
    BY <1>1, <1>2, <2>1, <2>2, <2>4 DEF TypeOK, Directories
  <2> QED
    BY <2>2, <2>3, <2>4
<1>13. CASE MoveToDaily
  <2>1. /\ files' \in Directories /\ (Fault \/ NoFault)
        /\ moved' \in BOOLEAN /\ kept' \in BOOLEAN
    BY <1>1, <1>13, MoveToDailyDoes DEF TypeOK, Moved, NotMoved, NoFault
  <2> QED
    BY <1>1, <1>2, <1>13, <2>1, MoveToDailyDoes DEF TypeOK, Directories
<1>14. CASE RemoveFile
  BY <1>1, <1>2, <1>14, RemoveFileDoes DEF TypeOK, Directories
<1>15. CASE Killed
  BY <1>1, <1>2, <1>3, <1>15, LocalAssumption DEF Killed, TypeOK
<1>16. CASE Midnight
  <2>1. today' \in 1 .. LastDay /\ late' \in BOOLEAN
    BY <1>1, <1>16, LocalAssumption DEF Midnight, TypeOK
  <2> QED
    BY <1>1, <1>16, <2>1 DEF Midnight, TypeOK
<1>17. CASE UNCHANGED vars
  BY <1>1, <1>17 DEF vars, TypeOK
<1> QED
  BY <1>4, <1>5, <1>6, <1>7, <1>8, <1>9, <1>10, <1>11, <1>12, <1>13, <1>14, <1>15, <1>16, <1>17, <1>18
     DEF Next

\* The steps of the loop and of the listing make no copies of a backup of
\* which there are none.
LEMMA NoneStayNone ==
    ASSUME Base, [Next]_vars, ~Deliver, NEW r \in Runs, AtFile => r # cur[2],
           \A p \in Periods : files[p][r].is = "none"
    PROVE  \A p \in Periods : files'[p][r].is = "none"
<1>1. TypeOK /\ Course /\ LinksLeadBack
  BY DEF Base
<1>2. CASE MoveToWeekly
  BY <1>1, <1>2, MoveToWeeklyDoes DEF Moved, NotMoved, AtFile
<1>3. CASE Relink
  BY <1>1, <1>3, RelinkDoes DEF AtFile
<1>4. CASE MoveToDaily
  BY <1>1, <1>4, MoveToDailyDoes DEF Moved, NotMoved, AtFile
<1>5. CASE RemoveFile
  BY <1>1, <1>5, RemoveFileDoes DEF AtFile
<1>6. CASE UNCHANGED files
  BY <1>6
<1> QED
  BY <1>2, <1>3, <1>4, <1>5, <1>6
     DEF Next, vars, StartRun, Dump, DumpFails, ListFiles, ListingFails, NextFile, RotationDone, Killed, Midnight

\* Nothing becomes unmade; the delivery makes the copies of its run.
LEMMA UnmadeWas ==
    ASSUME Base, [Next]_vars, NEW r \in Runs, Unmade(r)'
    PROVE  Unmade(r) /\ (Deliver => r # runs)
<1> USE DEF setup
<1>1. TypeOK /\ Course /\ LinksLeadBack /\ runs \in Nat /\ r \in Nat /\ runs \in Int /\ r \in Int
  BY LocalAssumption DEF Base, TypeOK, Runs
<1>2. Deliver => pc = "deliver" /\ pc' = AfterBackup /\ UNCHANGED <<safe, runs>>
  BY DEF Deliver
<1>3. CASE Deliver \/ DumpFails
  <2>1. pc \in {"dump", "deliver"} /\ pc' = AfterBackup /\ safe' = safe /\ runs' = runs
    BY <1>2, <1>3 DEF DumpFails
  <2> QED
    BY <1>1, <2>1 DEF Unmade, AfterBackup
<1>4. CASE StartRun
  BY <1>1, <1>2, <1>4 DEF StartRun, Unmade
<1>5. CASE ListFiles \/ NextFile \/ Killed
  <2>1. pc # "deliver" \/ Killed
    BY <1>5 DEF ListFiles, NextFile
  <2>2. safe' = safe /\ runs' = runs /\ (pc' = "idle" \/ (pc # "idle" /\ pc' \notin {"dump", "deliver"}))
    BY <1>5 DEF ListFiles, NextFile, Killed
  <2>3. Killed => pc' = "idle" /\ pc # "idle"
    BY DEF Killed
  <2>4. Deliver => pc' # "idle" \/ ~Unmade(r)' \/ r # runs
    BY <1>1, <2>2 DEF Unmade
  <2> QED
    BY <1>1, <1>2, <2>1, <2>2, <2>3, <2>4 DEF Unmade
<1>9. CASE Dump
  <2>1. pc = "dump" /\ pc' = "deliver" /\ safe' = safe /\ runs' = runs
    BY <1>9 DEF Dump
  <2> QED
    BY <1>1, <1>2, <2>1 DEF Unmade
<1>10. CASE Midnight
  <2>1. UNCHANGED <<pc, safe, runs>>
    BY <1>10 DEF Midnight
  <2> QED
    BY <1>1, <1>2, <2>1 DEF Unmade, AfterBackup
<1>6. CASE ListingFails \/ RotationDone
  <2>1. pc \notin {"dump", "deliver", "idle"} /\ pc' = AfterRotation /\ safe' = safe /\ runs' = runs
    BY <1>6 DEF ListingFails, RotationDone
  <2> QED
    BY <1>1, <1>2, <2>1 DEF Unmade, AfterRotation
<1>7. CASE MoveToWeekly \/ Relink \/ MoveToDaily \/ RemoveFile
  <2>1. /\ pc \notin {"dump", "deliver", "idle"} /\ safe' = safe /\ runs' = runs
        /\ pc' = AfterRotation \/ pc' \notin {"dump", "deliver", "idle"}
    BY <1>1, <1>7, MoveToWeeklyDoes, RelinkDoes, MoveToDailyDoes, RemoveFileDoes DEF BreakLoop
  <2> QED
    BY <1>1, <1>2, <2>1 DEF Unmade, AfterRotation
<1>8. CASE UNCHANGED vars
  <2>1. UNCHANGED <<pc, safe, runs>>
    BY <1>8 DEF vars
  <2>2. Unmade(r)
    BY <2>1 DEF Unmade
  <2>3. ~Deliver
    BY <1>2, <2>1 DEF AfterBackup
  <2> QED
    BY <2>2, <2>3
<1> QED
  BY <1>3, <1>4, <1>5, <1>6, <1>7, <1>8, <1>9, <1>10 DEF Next

LEMMA CourseNext == Base /\ [Next]_vars => Course'
<1> SUFFICES ASSUME Base, [Next]_vars
             PROVE  Course'
  OBVIOUS
<1> USE DEF setup, calendar, loop
<1>1. TypeOK /\ Course /\ LinksLeadBack
  BY DEF Base
<1>2. \A r \in Runs : Unmade(r)' => (\A p \in Periods : files'[p][r].is = "none") /\ made'[r] = NotMade
  <2>1. ASSUME NEW r \in Runs, Unmade(r)'
        PROVE  (\A p \in Periods : files'[p][r].is = "none") /\ made'[r] = NotMade
    <3>1. Unmade(r) /\ (Deliver => r # runs)
      BY <2>1, UnmadeWas
    <3>2. (\A p \in Periods : files[p][r].is = "none") /\ made[r] = NotMade
      BY <1>1, <3>1 DEF Course
    <3>3. CASE Deliver
      <4>1. /\ \A p \in Periods : files'[p][r] = files[p][r]
            /\ \/ UNCHANGED made
               \/ made' = [made EXCEPT ![runs] = [periods |-> Due, day |-> today, archived |-> archived]]
        BY <1>1, <3>1, <3>3, DeliverMakes
      <4> QED
        BY <1>1, <3>1, <3>2, <3>3, <4>1 DEF TypeOK
    <3>4. CASE ~Deliver
      <4>1. AtFile => r # cur[2]
        BY <1>1, <3>1 DEF Course
      <4>2. made' = made
        BY <3>4 DEF Next, vars, StartRun, Dump, DumpFails, ListFiles, ListingFails, NextFile, RotationDone, Killed,
                    Midnight, MoveToWeekly, Relink, MoveToDaily, RemoveFile
      <4> QED
        BY <3>2, <3>4, <4>1, <4>2, NoneStayNone
    <3> QED
      BY <3>3, <3>4
  <2> QED
    BY <2>1
<1> DEFINE Rest == /\ (pc # "idle" => runs > 0)'
                   /\ (pc = "deliver" => 0 < archived /\ archived <= today /\ today - archived <= MaxAge)'
                   /\ (~InLoop => listed = {} /\ linked = {} /\ unread = {} /\ doomed = {})'
                   /\ (AtFile => cur \in doomed \ left)'
                   /\ (\A n \in doomed : n[1] \in listed /\ ~Unmade(n[2]))'
<1>3. Rest
  <2> USE DEF InLoop, AtFile
  <2>1. runs \in Nat /\ runs \in Int /\ \A n \in doomed : n[2] \in Runs
    BY <1>1, LocalAssumption DEF TypeOK, Names
  <2>2. listed' = listed /\ doomed' \subseteq doomed => (\A n \in doomed : n[1] \in listed /\ ~Unmade(n[2]))'
    <3>1. ASSUME listed' = listed, NEW n \in doomed PROVE n[1] \in listed' /\ ~Unmade(n[2])'
      <4>1. n[1] \in listed'
        BY <1>1, <3>1 DEF Course
      <4>2. PICK r \in Runs : r = n[2]
        BY <2>1, <3>1
      <4>3. ~Unmade(r)'
        BY <1>1, <4>2, UnmadeWas DEF Course
      <4> QED
        BY <4>1, <4>2, <4>3
    <3> QED
      BY <3>1
  <2>3. EndLoop => listed' = {} /\ linked' = {} /\ unread' = {} /\ doomed' = {}
    BY DEF EndLoop
  <2>5. CASE StartRun
    BY <1>1, <2>1, <2>5 DEF StartRun, Course
  <2>6. CASE Deliver
    <3>1. pc = "deliver" /\ pc' \in {"list", "idle"} /\ UNCHANGED <<runs, loop>>
      BY <2>6 DEF Deliver, AfterBackup
    <3> QED
      BY <1>1, <3>1 DEF Course
  <2>7. CASE DumpFails
    BY <1>1, <2>7 DEF DumpFails, AfterBackup, Course
  <2>4. CASE Dump
    <3>1. pc = "dump" /\ pc' = "deliver" /\ archived' = today /\ UNCHANGED <<today, runs, loop>>
      BY <2>4 DEF Dump
    <3>2. today \in Nat /\ 0 < today
      BY <1>1, LocalAssumption DEF TypeOK
    <3> QED
      BY <1>1, <3>1, <3>2 DEF Course, MaxAge
  <2>8. CASE ListFiles
    <3>1. pc = "list" /\ pc' = "next" /\ UNCHANGED <<setup, runs, archived, files, clock, cur, moved, kept, made>>
      BY <2>8 DEF ListFiles
    <3>2. ASSUME NEW n \in doomed'
          PROVE  n[1] \in listed' /\ ~Unmade(n[2])'
      <4>1. n \in Names /\ There(files, n) /\ n[1] \in listed'
        BY <2>8, ListFilesNotes DEF Seen
      <4>2. PICK p \in Periods, r \in Runs : n[1] = p /\ n[2] = r /\ files[p][r].is # "none"
        BY <4>1 DEF Names, There
      <4>3. ~Unmade(r)'
        BY <1>1, <4>2, UnmadeWas DEF Course
      <4> QED
        BY <3>1, <4>1, <4>2, <4>3
    <3> QED
      BY <1>1, <3>1, <3>2 DEF Course
  <2>9. CASE ListingFails
    BY <1>1, <2>9 DEF ListingFails, AfterRotation, Course
  <2>10. CASE NextFile
    <3>1. cur' \in doomed' \ left' /\ pc' = "weekly" /\ pc = "next" /\ UNCHANGED <<runs, listed, doomed>>
      BY <1>1, <2>10 DEF NextFile, TypeOK
    <3> QED
      BY <1>1, <2>2, <3>1 DEF Course
  <2>11. CASE RotationDone
    BY <1>1, <2>3, <2>11 DEF RotationDone, AfterRotation, Course
  <2>12. CASE MoveToWeekly
    BY <1>1, <2>2, <2>12, MoveToWeeklyDoes DEF Course
  <2>13. CASE Relink
    BY <1>1, <2>2, <2>3, <2>13, RelinkDoes DEF Course, BreakLoop, AfterRotation
  <2>14. CASE MoveToDaily
    BY <1>1, <2>2, <2>14, MoveToDailyDoes DEF Course
  <2>15. CASE RemoveFile
    BY <1>1, <2>2, <2>15, RemoveFileDoes DEF Course
  <2>16. CASE Killed
    BY <1>1, <2>3, <2>16 DEF Killed, Course
  <2>17. CASE Midnight
    <3>1. /\ today' = today + 1 /\ (pc = "deliver" => today - archived < MaxAge)
          /\ UNCHANGED <<pc, runs, archived, loop>>
      BY <2>17 DEF Midnight
    <3>2. today \in Nat /\ archived \in Nat
      BY <1>1, LocalAssumption DEF TypeOK
    <3>3. (pc = "deliver" => 0 < archived /\ archived <= today /\ today - archived <= MaxAge)'
      BY <1>1, <3>1, <3>2 DEF Course, MaxAge
    <3> QED
      BY <1>1, <2>2, <3>1, <3>3 DEF Course
  <2>18. CASE UNCHANGED vars
    BY <1>1, <2>2, <2>18 DEF vars, Course
  <2> QED
    BY <2>4, <2>5, <2>6, <2>7, <2>8, <2>9, <2>10, <2>11, <2>12, <2>13, <2>14, <2>15, <2>16, <2>17, <2>18
       DEF Next
<1> QED
  BY <1>2, <1>3 DEF Course

\* What the first loop noted stays until the loops are left.
LEMMA LinkedNext ==
    ASSUME Base, [Next]_vars
    PROVE  ListFiles \/ UNCHANGED linked \/ linked' = {}
<1>1. Relink => UNCHANGED linked \/ linked' = {}
  BY RelinkDoes DEF Base, BreakLoop, EndLoop, loop
<1> QED
  BY <1>1 DEF Next, vars, loop, EndLoop, StartRun, Dump, Deliver, DumpFails, ListingFails, NextFile, RotationDone,
              MoveToWeekly, MoveToDaily, RemoveFile, Killed, Midnight

LEMMA LinksLeadBackNext == Base /\ [Next]_vars => LinksLeadBack'
<1> SUFFICES ASSUME Base, [Next]_vars
             PROVE  LinksLeadBack'
  OBVIOUS
<1>1. TypeOK /\ Course /\ LinksLeadBack
  BY DEF Base
<1>2. \A p \in Periods, r \in Runs : files'[p][r].is = "link" => Before(files'[p][r].to, p)
  <2>1. \A p \in Periods, r \in Runs : files[p][r].is = "link" => Before(files[p][r].to, p)
    BY <1>1 DEF LinksLeadBack
  <2>2. ASSUME NEW q \in {"weekly", "daily"}, Before(cur[1], q), AtFile, Moved(q) \/ NotMoved(q)
        PROVE  \A p \in Periods, r \in Runs : files'[p][r].is = "link" => Before(files'[p][r].to, p)
    <3>1. ASSUME NEW p \in Periods, NEW r \in Runs, files'[p][r].is = "link"
          PROVE  Before(files'[p][r].to, p)
      <4>1. cur[1] \in Periods /\ cur[2] \in Runs
        BY <1>1, <2>2, CurIsName
      <4>2. CASE files'[p][r] = files[p][r]
        BY <2>1, <3>1, <4>2
      <4>3. CASE r = cur[2] /\ p = q /\ files'[p][r] = files[cur[1]][r]
        BY <2>1, <2>2, <3>1, <4>1, <4>3 DEF Before
      <4>4. files'[p][r] # NoCopy
        BY <3>1, NoCopyIs
      <4> QED
        BY <2>2, <4>2, <4>3, <4>4 DEF Moved, NotMoved
    <3> QED
      BY <3>1
  <2>3. CASE MoveToWeekly
    <3>1. CASE UNCHANGED files
      BY <2>1, <3>1
    <3>2. CASE cur[1] = "monthly" /\ (Moved("weekly") \/ NotMoved("weekly"))
      BY <2>2, <2>3, <3>2 DEF AtFile, MoveToWeekly, Before
    <3> QED
      BY <1>1, <2>3, <3>1, <3>2, MoveToWeeklyDoes
  <2>4. CASE MoveToDaily
    <3>1. CASE UNCHANGED files
      BY <2>1, <3>1
    <3>2. CASE cur[1] # "daily" /\ (Moved("daily") \/ NotMoved("daily"))
      <4>1. AtFile
        BY <2>4 DEF AtFile, MoveToDaily
      <4>2. Before(cur[1], "daily")
        BY <1>1, <3>2, <4>1, CurIsName DEF Before, Periods
      <4> QED
        BY <2>2, <3>2, <4>1, <4>2
    <3> QED
      BY <1>1, <2>4, <3>1, <3>2, MoveToDailyDoes
  <2>5. CASE Relink
    <3>1. \/ UNCHANGED files
          \/ files'["daily"][cur[2]] = NoCopy
          \/ files'["daily"][cur[2]].is = "link" /\ files'["daily"][cur[2]].to = "weekly"
      BY <1>1, <2>5, RelinkDoes DEF BreakLoop
    <3>2. \A p \in Periods, r \in Runs : r # cur[2] \/ p # "daily" => files'[p][r] = files[p][r]
      BY <1>1, <2>5, RelinkDoes
    <3> QED
      BY <2>1, <3>1, <3>2, NoCopyIs DEF Before
  <2>6. CASE RemoveFile
    <3>1. \A p \in Periods, r \in Runs : files'[p][r] \in {files[p][r], NoCopy}
      BY <1>1, <2>6, RemoveFileDoes
    <3> QED
      BY <2>1, <3>1, NoCopyIs
  <2>7. CASE Deliver
    <3>1. /\ \A p \in Due \ {First(Due)} : Before(First(Due), p)
          /\ \A p \in Periods, r \in Runs \ {runs} : files'[p][r] = files[p][r]
          /\ \A p \in Periods : files'[p][runs].is = "link" =>
                 p \in Due \ {First(Due)} /\ files'[p][runs].to = First(Due)
      BY <1>1, <2>7, DeliverMakes
    <3> QED
      BY <2>1, <3>1
  <2>8. CASE UNCHANGED files
    BY <2>1, <2>8
  <2> QED
    BY <2>3, <2>4, <2>5, <2>6, <2>7, <2>8
       DEF Next, vars, StartRun, Dump, DumpFails, ListFiles, ListingFails, NextFile, RotationDone, Killed, Midnight
<1>3. /\ \A x \in linked' : Before(x[1], x[3])
      /\ \A x, y \in linked' : x[2] = y[2] /\ x[3] = y[3] => x = y
  <2>1. CASE ListFiles
    <3>1. \A x \in linked' : \E q, p \in Periods, r \in Runs : x = <<q, r, p>>
      BY <2>1, ListFilesNotes DEF Periods
    <3>2. ASSUME NEW q \in Periods, NEW p \in Periods, NEW r \in Runs, <<q, r, p>> \in linked'
          PROVE  files[p][r].to = q /\ Before(q, p)
      <4>1. <<p, r>> \in SeenLinks /\ files[p][r].to = q
        BY <2>1, <3>2, ListFilesNotes
      <4>2. files[p][r].is = "link"
        BY <4>1 DEF SeenLinks
      <4> QED
        BY <1>1, <4>1, <4>2 DEF LinksLeadBack
    <3>3. ASSUME NEW x \in linked'
          PROVE  Before(x[1], x[3])
      <4>1. PICK q, p \in Periods, r \in Runs : x = <<q, r, p>>
        BY <3>1
      <4> QED
        BY <3>2, <4>1
    <3>4. ASSUME NEW x \in linked', NEW y \in linked', x[2] = y[2], x[3] = y[3]
          PROVE  x = y
      <4>1. PICK q, p \in Periods, r \in Runs : x = <<q, r, p>>
        BY <3>1
      <4>2. PICK s, t \in Periods, u \in Runs : y = <<s, u, t>>
        BY <3>1
      <4>3. p = t /\ r = u
        BY <3>4, <4>1, <4>2
      <4> QED
        BY <3>2, <4>1, <4>2, <4>3
    <3> QED
      BY <3>3, <3>4
  <2>2. CASE UNCHANGED linked
    BY <1>1, <2>2 DEF LinksLeadBack
  <2>3. CASE linked' = {}
    BY <2>3
  <2> QED
    BY <2>1, <2>2, <2>3, LinkedNext
<1> QED
  BY <1>2, <1>3 DEF LinksLeadBack

LEMMA BaseNext == Base /\ [Next]_vars => Base'
BY TypeNext, CourseNext, LinksLeadBackNext DEF Base

\* The storage's directories, and all that the loops keep, have their types at
\* every point of every run.
THEOREM TypeCorrect == Spec => []TypeOK
<1>1. Base => TypeOK
  BY DEF Base
<1> QED
  BY BaseInit, BaseNext, <1>1, PTL DEF Spec
-----------------------------------------------------------------------------
(***************************************************************************)
(* Links.                                                                  *)
(***************************************************************************)
\* The links of a storage after a step, but for Relink and Deliver, are links
\* it had.
FewerLinks == \A p \in Periods, r \in Runs : files'[p][r].is = "link" => files'[p][r] = files[p][r]

\* The monthly directory has no links.
LEMMA MonthlyIsNoLink ==
    ASSUME LinksLeadBack, NEW r \in Runs
    PROVE  files["monthly"][r].is # "link"
BY DEF LinksLeadBack, Before, Periods

LEMMA FewerByMoving ==
    ASSUME NEW p \in Periods, files[cur[1]][cur[2]].is # "link", cur[1] \in Periods, cur[2] \in Runs,
           Moved(p) \/ NotMoved(p)
    PROVE  FewerLinks
<1>1. ASSUME NEW q \in Periods, NEW r \in Runs, files'[q][r].is = "link"
      PROVE  files'[q][r] = files[q][r]
  <2>1. files'[q][r] # NoCopy
    BY <1>1, NoCopyIs
  <2>2. CASE Moved(p)
    BY <1>1, <2>1, <2>2 DEF Moved
  <2>3. CASE NotMoved(p)
    BY <2>1, <2>3 DEF NotMoved
  <2> QED
    BY <2>2, <2>3
<1> QED
  BY <1>1 DEF FewerLinks

LEMMA StepsMakeNoLinks ==
    ASSUME LinkInv, [Next]_vars, ~Deliver, ~Relink
    PROVE  FewerLinks
<1>1. TypeOK /\ Course /\ LinksLeadBack
  BY DEF LinkInv, Base
<1>2. CASE MoveToWeekly
  <2>1. CASE UNCHANGED files
    BY <2>1 DEF FewerLinks
  <2>2. CASE cur[1] = "monthly" /\ (Moved("weekly") \/ NotMoved("weekly"))
    <3>1. cur[1] \in Periods /\ cur[2] \in Runs
      BY <1>1, <1>2, CurIsName DEF MoveToWeekly, AtFile
    <3>2. files[cur[1]][cur[2]].is # "link"
      BY <1>1, <2>2, <3>1, MonthlyIsNoLink
    <3> QED
      BY <2>2, <3>1, <3>2, FewerByMoving DEF Periods
  <2> QED
    BY <1>1, <1>2, <2>1, <2>2, MoveToWeeklyDoes
<1>3. CASE MoveToDaily
  <2>1. CASE UNCHANGED files
    BY <2>1 DEF FewerLinks
  <2>2. CASE HasKeptLink(DailyLink) /\ (Moved("daily") \/ NotMoved("daily"))
    <3>1. cur[1] \in Periods /\ cur[2] \in Runs
      BY <1>1, <1>3, CurIsName DEF MoveToDaily, AtFile
    <3>2. <<cur[1], cur[2], "daily">> \in linked
      BY <2>2 DEF HasKeptLink, HasLink, DailyLink
    <3>3. files[cur[1]][cur[2]].is # "link"
      BY <3>2 DEF LinkInv, LinksLeadToFiles
    <3> QED
      BY <2>2, <3>1, <3>3, FewerByMoving DEF Periods
  <2> QED
    BY <1>1, <1>3, <2>1, <2>2, MoveToDailyDoes
<1>4. CASE RemoveFile
  <2>1. \A p \in Periods, r \in Runs : files'[p][r] \in {files[p][r], NoCopy}
    BY <1>1, <1>4, RemoveFileDoes
  <2> QED
    BY <2>1, NoCopyIs DEF FewerLinks
<1>5. CASE UNCHANGED files
  BY <1>5 DEF FewerLinks
<1> QED
  BY <1>2, <1>3, <1>4, <1>5
     DEF Next, vars, StartRun, Dump, DumpFails, ListFiles, ListingFails, NextFile, RotationDone, Killed, Midnight

\* The steps of the second loop: what has still to come has been noted.
LEMMA LoopGoesOn ==
    ASSUME Base, [Next]_vars, InLoop', ~ListFiles
    PROVE  /\ InLoop /\ UNCHANGED <<rule, listed, linked, unread, doomed>>
           /\ \A n : Ahead(n)' => Ahead(n)
           /\ \A x : Awaited(x)' => Awaited(x)
<1> USE DEF setup, loop
<1>1. TypeOK /\ Course /\ LinksLeadBack
  BY DEF Base
<1>2. CASE NextFile
  BY <1>2 DEF NextFile, InLoop, Ahead, AtFile, Awaited
<1>3. CASE MoveToWeekly
  BY <1>1, <1>3, MoveToWeeklyDoes DEF InLoop, Ahead, AtFile, Awaited
<1>4. CASE Relink
  <2>1. pc = "relink" /\ pc' = "daily" /\ UNCHANGED <<setup, loop>>
    BY <1>1, <1>4, RelinkDoes DEF BreakLoop, AfterRotation, InLoop
  <2> QED
    BY <2>1 DEF InLoop, Ahead, AtFile, Awaited
<1>5. CASE MoveToDaily
  BY <1>1, <1>5, MoveToDailyDoes DEF InLoop, Ahead, AtFile, Awaited
<1>6. CASE RemoveFile
  BY <1>1, <1>6, RemoveFileDoes DEF InLoop, Ahead, AtFile, Awaited
<1>7. CASE UNCHANGED vars
  BY <1>7 DEF vars, InLoop, Ahead, AtFile, Awaited
<1>8. StartRun \/ Dump \/ Deliver \/ DumpFails \/ ListingFails \/ RotationDone \/ Killed => ~InLoop'
  BY DEF StartRun, Dump, Deliver, DumpFails, ListingFails, RotationDone, Killed, InLoop, AfterRotation, AfterBackup
<1>9. CASE Midnight
  BY <1>9 DEF Midnight, InLoop, Ahead, AtFile, Awaited
<1> QED
  BY <1>2, <1>3, <1>4, <1>5, <1>6, <1>7, <1>8, <1>9 DEF Next

LEMMA LinksAreKnownNext == LinkInv /\ [Next]_vars => LinksAreKnown'
<1> SUFFICES ASSUME LinkInv, [Next]_vars, InLoop',
                    NEW p \in Periods, NEW r \in Runs, p \in listed', files'[p][r].is = "link",
                    NEW q, q = files'[p][r].to, Ahead(<<q, r>>)'
             PROVE  <<q, r, p>> \in linked' \/ <<p, r>> \in unread'
  BY DEF LinksAreKnown
<1>1. TypeOK /\ Course /\ LinksLeadBack /\ Base
  BY DEF LinkInv, Base
<1>2. CASE ListFiles
  <2>1. files' = files /\ pc' = "next"
    BY <1>2 DEF ListFiles
  <2>2. <<q, r>> \in Seen
    BY <1>1, <1>2, <2>1, ListFilesNotes DEF Ahead, AtFile
  <2>3. <<p, r>> \in SeenLinks /\ files[p][r].to = q
    BY <2>1 DEF SeenLinks, Seen, Names, There
  <2>4. q \in Periods
    BY <2>2 DEF Seen, Names
  <2> QED
    BY <1>1, <1>2, <2>2, <2>3, <2>4, ListFilesNotes
<1>3. CASE ~ListFiles
  <2>1. /\ InLoop /\ UNCHANGED <<rule, listed, linked, unread, doomed>>
        /\ Ahead(<<q, r>>) /\ p \in listed
    BY <1>1, <1>3, LoopGoesOn
  <2>2. CASE files'[p][r] = files[p][r]
    BY <2>1, <2>2 DEF LinkInv, LinksAreKnown
  <2>3. CASE files'[p][r] # files[p][r]
    <3>1. Relink
      <4>1. ~Deliver
        BY <2>1 DEF Deliver, InLoop
      <4> QED
        BY <2>3, <4>1, StepsMakeNoLinks DEF FewerLinks
    <3>2. r = cur[2] /\ q = "weekly" /\ pc = "relink"
      BY <1>1, <2>3, <3>1, RelinkDoes, NoCopyIs DEF BreakLoop
    <3>3. <<q, r>> \notin doomed
      BY <3>2 DEF LinkInv, KeptForLinks, HasKeptLink, WeeklyLink
    <3> QED
      BY <1>1, <2>1, <3>2, <3>3 DEF Ahead, TypeOK, Course
  <2> QED
    BY <2>2, <2>3
<1> QED
  BY <1>2, <1>3

\* The step that deals with a link meets a link in its place, or nothing.
LEMMA LinkOrNothing ==
    ASSUME LinkInv
    PROVE  /\ pc = "weekly" /\ HasLink(WeeklyLink) => files["weekly"][cur[2]].is \in {"link", "none"}
           /\ pc \in {"relink", "daily"} /\ HasLink(DailyLink) => files["daily"][cur[2]].is \in {"link", "none"}
<1>1. ASSUME NEW p \in {"weekly", "daily"}, HasLink(<<p, cur[2]>>), AtFile,
             pc = "weekly" \/ (p = "daily" /\ pc \in {"relink", "daily"})
      PROVE  files[p][cur[2]].is \in {"link", "none"}
  <2>1. cur = <<cur[1], cur[2]>>
    BY <1>1, CurIsName DEF LinkInv, Base
  <2>2. PICK x \in linked : x = <<cur[1], cur[2], p>>
    BY <1>1 DEF HasLink
  <2>3. Awaited(x)
    BY <1>1, <2>1, <2>2 DEF Awaited
  <2> QED
    BY <2>2, <2>3 DEF LinkInv, LinksStayLinks
<1> QED
  BY <1>1 DEF WeeklyLink, DailyLink, AtFile

LEMMA LinksStayLinksNext == LinkInv /\ [Next]_vars => LinksStayLinks'
<1> SUFFICES ASSUME LinkInv, [Next]_vars, NEW x \in linked', Awaited(x)'
             PROVE  files'[x[3]][x[2]].is \in {"link", "none"}
  BY DEF LinksStayLinks
<1>1. TypeOK /\ Course /\ LinksLeadBack /\ Base
  BY DEF LinkInv, Base
<1>2. CASE ListFiles
  <2>1. PICK q, p \in Periods, r \in Runs : x = <<q, r, p>>
    BY <1>1, <1>2, ListFilesNotes DEF Periods
  <2>2. <<p, r>> \in SeenLinks /\ files' = files
    BY <1>1, <1>2, <2>1, ListFilesNotes DEF ListFiles
  <2> QED
    BY <2>1, <2>2 DEF SeenLinks
<1>3. CASE ~ListFiles
  <2>1. InLoop'
    <3>1. linked' # {}
      OBVIOUS
    <3> QED
      BY <1>1, <3>1, CourseNext DEF Course
  <2>2. InLoop /\ x \in linked /\ Awaited(x)
    BY <1>1, <1>3, <2>1, LoopGoesOn
  <2>3. files[x[3]][x[2]].is \in {"link", "none"}
    BY <2>2 DEF LinkInv, LinksStayLinks
  <2>4. PICK q \in Periods, p \in {"weekly", "daily"}, r \in Runs : x = <<q, r, p>>
    BY <1>1, <2>2 DEF TypeOK
  <2>5. p \in Periods /\ files'[p][r].is = files'[x[3]][x[2]].is /\ files[p][r].is \in {"link", "none"}
    BY <2>3, <2>4 DEF Periods
  <2>6. CASE files'[p][r] \in {files[p][r], NoCopy}
    BY <2>5, <2>6, NoCopyIs
  <2>7. ASSUME MoveToWeekly \/ MoveToDaily, r = cur[2], HasLink(<<p, cur[2]>>), AtFile, pc = p
        PROVE  FALSE
    <3>1. q = cur[1] /\ cur = <<q, r>>
      <4>1. PICK y \in linked : y = <<cur[1], cur[2], p>>
        BY <2>7 DEF HasLink
      <4>2. x = y
        BY <1>1, <2>2, <2>4, <2>7, <4>1 DEF LinksLeadBack
      <4> QED
        BY <1>1, <2>4, <2>7, <4>1, <4>2, CurIsName
    <3>2. cur \notin left
      BY <1>1, <2>7 DEF Course
    <3>3. pc' \notin {"next", "weekly"} /\ (pc = "daily" => pc' = "remove") /\ left' = left /\ cur' = cur
      BY <1>1, <2>7, MoveToWeeklyDoes, MoveToDailyDoes
    <3> QED
      BY <2>4, <2>7, <3>1, <3>2, <3>3 DEF Awaited
  <2>8. CASE files'[p][r] \notin {files[p][r], NoCopy}
    <3>1. CASE MoveToWeekly
      <4>1. HasKeptLink(WeeklyLink) /\ (Moved("weekly") \/ NotMoved("weekly")) /\ pc = "weekly"
        BY <1>1, <2>5, <2>8, <3>1, MoveToWeeklyDoes
      <4>2. Moved("weekly") /\ p \in {"weekly", cur[1]} /\ r = cur[2] /\ p # cur[1]
        BY <2>5, <2>8, <4>1 DEF Moved, NotMoved
      <4> QED
        BY <2>7, <3>1, <4>1, <4>2 DEF HasKeptLink, WeeklyLink, AtFile
    <3>2. CASE MoveToDaily
      <4>1. HasKeptLink(DailyLink) /\ (Moved("daily") \/ NotMoved("daily")) /\ pc = "daily"
        BY <1>1, <2>5, <2>8, <3>2, MoveToDailyDoes
      <4>2. Moved("daily") /\ p \in {"daily", cur[1]} /\ r = cur[2] /\ p # cur[1]
        BY <2>5, <2>8, <4>1 DEF Moved, NotMoved
      <4> QED
        BY <2>7, <3>2, <4>1, <4>2 DEF HasKeptLink, DailyLink, AtFile
    <3>3. CASE Relink
      <4>1. files'[p][r].is = "link"
        BY <1>1, <2>5, <2>8, <3>3, RelinkDoes DEF BreakLoop
      <4> QED
        BY <2>5, <4>1
    <3>4. CASE RemoveFile
      BY <1>1, <2>5, <2>8, <3>4, RemoveFileDoes
    <3>5. files' # files /\ ~Deliver
      BY <2>2, <2>8 DEF Deliver, InLoop
    <3> QED
      BY <3>1, <3>2, <3>3, <3>4, <3>5 DEF Next, vars, StartRun, Dump, DumpFails, ListFiles, ListingFails, NextFile,
                                          RotationDone, Killed, Midnight
  <2> QED
    BY <2>6, <2>8
<1> QED
  BY <1>2, <1>3

\* One accident, or none yet: where a fault has been, there is no other.
FewFaults == MaxFaults <= 1 \/ faults' = 0

LEMMA OneFault ==
    ASSUME TypeOK, FewFaults
    PROVE  /\ Fault => faults = 0 /\ faults' # 0
           /\ NoFault /\ faults # 0 => faults' # 0
BY LocalAssumption DEF TypeOK, Fault, NoFault, CanFail, FewFaults

LEMMA LinksLeadToFilesNext == LinkInv /\ [Next]_vars /\ FewFaults => LinksLeadToFiles'
<1> SUFFICES ASSUME FewFaults, LinkInv, [Next]_vars
             PROVE  LinksLeadToFiles'
  OBVIOUS
<1>1. TypeOK /\ Course /\ LinksLeadBack /\ Base /\ LinksLeadToFiles
  BY DEF LinkInv, Base
<1> DEFINE Chain(r) == /\ files["daily"][r].is = "link" /\ files["daily"][r].to = "weekly"
                       /\ files["weekly"][r].is = "link"
           ChainAfter(r) == /\ files'["daily"][r].is = "link" /\ files'["daily"][r].to = "weekly"
                            /\ files'["weekly"][r].is = "link"
           InHand(r) == pc = "daily" /\ cur = <<"monthly", r>> /\ ~moved /\ faults # 0 /\ HasKeptLink(DailyLink)
<1>2. \A r \in Runs : Chain(r) => InHand(r)
  BY <1>1 DEF LinksLeadToFiles
<1>3. "daily" \in Periods /\ "weekly" \in Periods
  BY DEF Periods
<1>4. ASSUME NEW r \in Runs, ChainAfter(r)
      PROVE  InHand(r)'
  <2>1. CASE Deliver
    <3>1. PICK due \in SUBSET Periods :
             /\ \A p \in Periods, s \in Runs \ {runs} : files'[p][s] = files[p][s]
             /\ \A p \in Periods : files'[p][runs].is = "link" =>
                    p \in due \ {First(due)} /\ files'[p][runs].to = First(due)
      BY <1>1, <2>1, DeliverMakes
    <3>2. r # runs
      BY <1>3, <1>4, <3>1
    <3>3. Chain(r) /\ pc = "deliver"
      BY <1>3, <1>4, <2>1, <3>1, <3>2 DEF Deliver
    <3> QED
      BY <1>2, <3>3
  <2>2. CASE Relink
    <3>1. pc = "relink"
      BY <1>1, <2>2, RelinkDoes
    <3>2. ~Chain(r)
      BY <1>2, <3>1
    <3>3. /\ r = cur[2] /\ files'["weekly"][r] = files["weekly"][r] /\ files'["daily"][r].is = "link"
          /\ files'["daily"][r] # files["daily"][r]
      BY <1>1, <1>3, <1>4, <2>2, <3>2, RelinkDoes
    <3>4. /\ HasKeptLink(DailyLink) /\ NoFault /\ pc' = "daily" /\ UNCHANGED loop
      BY <1>1, <2>2, <3>3, RelinkDoes, NoCopyIs DEF BreakLoop
    <3>5. ~moved /\ faults # 0 /\ HasKeptLink(WeeklyLink)
      BY <1>4, <3>1, <3>3 DEF LinkInv, KeptForLinks
    <3>6. cur = <<"monthly", r>>
      <4>1. cur[1] = "monthly"
        BY <1>1, <3>5, KnownLink DEF HasKeptLink, WeeklyLink, Before
      <4> QED
        BY <1>1, <3>1, <3>3, <4>1, CurIsName DEF AtFile
    <3>7. faults' # 0
      BY <1>1, <3>4, <3>5, OneFault
    <3> QED
      BY <3>4, <3>5, <3>6, <3>7 DEF loop, HasKeptLink, HasLink, DailyLink
  <2>3. CASE ~Deliver /\ ~Relink
    <3>1. /\ files'["daily"][r] = files["daily"][r]
          /\ files'["weekly"][r] = files["weekly"][r]
      BY <1>3, <1>4, <2>3, StepsMakeNoLinks DEF FewerLinks
    <3>2. Chain(r) /\ InHand(r)
      BY <1>2, <1>4, <3>1
    <3>3. ~MoveToDaily
      <4>1. ASSUME MoveToDaily PROVE FALSE
        <5>1. Moved("daily") \/ NotMoved("daily")
          BY <1>1, <3>2, <4>1, MoveToDailyDoes DEF NeedsDailyMove
        <5>2. NotMoved("daily")
          <6>1. ASSUME Moved("daily") PROVE FALSE
            <7>1. files'["daily"][r] = files["monthly"][r]
              BY <3>2, <6>1 DEF Moved
            <7> QED
              BY <1>1, <1>4, <7>1, MonthlyIsNoLink
          <6> QED
            BY <5>1, <6>1
        <5>3. Fault
          BY <3>2, <5>2 DEF NotMoved
        <5> QED
          BY <1>1, <3>2, <5>3, OneFault
      <4> QED
        BY <4>1
    <3>4. ~Killed
      BY <1>1, <3>2, OneFault DEF Killed
    <3>5. Midnight \/ UNCHANGED vars
      BY <2>3, <3>2, <3>3, <3>4 DEF Next, StartRun, Dump, DumpFails, ListFiles, ListingFails, NextFile, RotationDone,
                                    MoveToWeekly, RemoveFile
    <3>6. UNCHANGED <<pc, cur, moved, faults, linked, doomed>>
      BY <3>5 DEF Midnight, vars, loop
    <3> QED
      BY <3>2, <3>6 DEF HasKeptLink, HasLink, DailyLink
  <2> QED
    BY <2>1, <2>2, <2>3
<1>5. ASSUME NEW x \in linked'
      PROVE  files'[x[1]][x[2]].is # "link"
  <2>1. CASE ListFiles
    <3>1. PICK q, p \in Periods, r \in Runs : x = <<q, r, p>>
      BY <1>1, <1>5, <2>1, ListFilesNotes DEF Periods
    <3>2. <<p, r>> \in SeenLinks /\ files[p][r].to = q /\ files' = files /\ pc = "list"
      BY <1>1, <1>5, <2>1, <3>1, ListFilesNotes DEF ListFiles
    <3>3. files[p][r].is = "link" /\ Before(q, p)
      BY <1>1, <3>1, <3>2 DEF SeenLinks, LinksLeadBack
    <3>4. ~Chain(r)
      BY <1>2, <3>2
    <3>5. files["monthly"][r].is # "link"
      BY <1>1, MonthlyIsNoLink
    <3>6. q = "monthly" \/ (q = "weekly" /\ p = "daily")
      BY <3>3 DEF Before
    <3> QED
      BY <3>1, <3>2, <3>3, <3>4, <3>5, <3>6
  <2>2. CASE ~ListFiles
    <3>1. InLoop'
      BY <1>1, <1>5, CourseNext DEF Course
    <3>2. InLoop /\ x \in linked
      BY <1>1, <1>5, <2>2, <3>1, LoopGoesOn
    <3>3. files[x[1]][x[2]].is # "link" /\ Before(x[1], x[3])
      BY <1>1, <3>2 DEF LinksLeadToFiles, LinksLeadBack
    <3>4. PICK q \in Periods, r \in Runs : x[1] = q /\ x[2] = r /\ q # "daily"
      BY <1>1, <3>2, <3>3 DEF TypeOK, Before
    <3>5. CASE Relink
      BY <1>1, <3>3, <3>4, <3>5, RelinkDoes
    <3>6. CASE ~Relink
      <4>1. ~Deliver
        BY <3>2 DEF Deliver, InLoop
      <4> QED
        BY <3>3, <3>4, <3>6, <4>1, StepsMakeNoLinks DEF FewerLinks
    <3> QED
      BY <3>5, <3>6
  <2> QED
    BY <2>1, <2>2
<1>6. \A r \in Runs : ChainAfter(r) => InHand(r)'
  BY <1>4
<1> QED
  BY <1>5, <1>6 DEF LinksLeadToFiles

LEMMA KeptForLinksNext == LinkInv /\ [Next]_vars /\ FewFaults => KeptForLinks'
<1> SUFFICES ASSUME FewFaults, LinkInv, [Next]_vars
             PROVE  KeptForLinks'
  OBVIOUS
<1> USE DEF loop
<1>1. TypeOK /\ Course /\ LinksLeadBack /\ KeptForLinks
  BY DEF LinkInv, Base
<1>2. UNCHANGED <<cur, linked, doomed>> => /\ HasKeptLink(WeeklyLink)' = HasKeptLink(WeeklyLink)
                                           /\ HasKeptLink(DailyLink)' = HasKeptLink(DailyLink)
  BY DEF HasKeptLink, HasLink, WeeklyLink, DailyLink
<1>3. ASSUME pc' \notin {"weekly", "relink", "daily", "remove"}, (moved' => kept')
      PROVE  KeptForLinks'
  BY <1>3 DEF KeptForLinks
<1>4. CASE StartRun \/ Dump \/ Deliver \/ DumpFails \/ ListFiles \/ ListingFails
  <2>1. moved' = moved /\ kept' = kept /\ pc' \in {"idle", "dump", "deliver", "list", "next"}
    BY <1>4 DEF StartRun, Dump, Deliver, DumpFails, ListFiles, ListingFails, AfterBackup, AfterRotation
  <2>2. pc \in {"idle", "list", "dump", "deliver"} /\ (moved => kept)
    BY <1>1, <1>4 DEF StartRun, Dump, Deliver, DumpFails, ListFiles, ListingFails, KeptForLinks
  <2> QED
    BY <1>3, <2>1, <2>2
<1>5. CASE RotationDone \/ Killed
  BY <1>3, <1>5 DEF RotationDone, Killed, EndLoop, AfterRotation
<1>6. CASE NextFile
  BY <1>6 DEF NextFile, KeptForLinks
<1>7. CASE MoveToWeekly
  <2>1. /\ pc = "weekly" /\ ~moved
        /\ HasKeptLink(WeeklyLink)' = HasKeptLink(WeeklyLink) /\ HasKeptLink(DailyLink)' = HasKeptLink(DailyLink)
        /\ cur' = cur
    BY <1>1, <1>2, <1>7, MoveToWeeklyDoes DEF KeptForLinks
  <2>2. CASE ~HasKeptLink(WeeklyLink) /\ pc' = "daily" /\ UNCHANGED <<files, moved, kept, faults>>
    BY <2>1, <2>2 DEF KeptForLinks
  <2>3. CASE /\ HasKeptLink(WeeklyLink) /\ cur[1] = "monthly" /\ kept' = TRUE /\ pc' = "relink"
             /\ Moved("weekly") \/ NotMoved("weekly")
    <3>1. cur[2] \in Runs
      BY <1>1, <2>1, CurIsName DEF AtFile
    <3>2. files'["weekly"][cur[2]].is = "link" => NotMoved("weekly")
      BY <1>1, <2>3, <3>1, MonthlyIsNoLink DEF Moved
    <3>3. files'["weekly"][cur[2]].is = "link" => ~moved' /\ faults' # 0
      BY <1>1, <2>1, <3>2, OneFault, NoCopyIs DEF NotMoved
    <3> QED
      BY <2>1, <2>3, <3>3 DEF KeptForLinks
  <2> QED
    BY <1>1, <1>7, <2>2, <2>3, MoveToWeeklyDoes
<1>8. CASE Relink
  <2>1. CASE BreakLoop
    BY <1>3, <2>1 DEF BreakLoop, EndLoop, AfterRotation
  <2>2. CASE pc' = "daily" /\ UNCHANGED loop
    <3>1. kept
      BY <1>1, <1>8, RelinkDoes DEF KeptForLinks
    <3> QED
      BY <2>2, <3>1 DEF KeptForLinks
  <2> QED
    BY <1>1, <1>8, <2>1, <2>2, RelinkDoes
<1>9. CASE MoveToDaily
  <2>1. /\ pc = "daily" /\ pc' = "remove"
        /\ HasKeptLink(WeeklyLink)' = HasKeptLink(WeeklyLink) /\ HasKeptLink(DailyLink)' = HasKeptLink(DailyLink)
    BY <1>1, <1>2, <1>9, MoveToDailyDoes
  <2>2. CASE kept' = TRUE
    BY <2>1, <2>2 DEF KeptForLinks
  <2>3. CASE ~NeedsDailyMove /\ moved' = moved /\ kept' = kept
    BY <1>1, <2>1, <2>3 DEF KeptForLinks, NeedsDailyMove
  <2> QED
    BY <1>1, <1>9, <2>2, <2>3, MoveToDailyDoes
<1>10. CASE RemoveFile
  BY <1>1, <1>3, <1>10, RemoveFileDoes DEF KeptForLinks
<1>11. CASE Midnight \/ UNCHANGED vars
  <2>1. /\ pc' = pc /\ moved' = moved /\ kept' = kept /\ cur' = cur /\ files' = files /\ faults' = faults
        /\ HasKeptLink(WeeklyLink)' = HasKeptLink(WeeklyLink) /\ HasKeptLink(DailyLink)' = HasKeptLink(DailyLink)
    BY <1>2, <1>11 DEF Midnight, vars
  <2> QED
    BY <1>1, <2>1 DEF KeptForLinks
<1> QED
  BY <1>4, <1>5, <1>6, <1>7, <1>8, <1>9, <1>10, <1>11 DEF Next

LEMMA LinkInvInit == Init => LinkInv
<1> SUFFICES ASSUME Init
             PROVE  LinkInv
  OBVIOUS
<1>1. \A p \in Periods, r \in Runs : files[p][r].is = "none"
  BY NoCopyIs DEF Init
<1>2. linked = {} /\ pc = "idle" /\ ~moved
  BY DEF Init
<1>3. LinksAreKnown /\ LinksStayLinks /\ KeptForLinks
  BY <1>2 DEF LinksAreKnown, LinksStayLinks, KeptForLinks, InLoop
<1>4. LinksLeadToFiles
  BY <1>1, <1>2 DEF LinksLeadToFiles, Periods
<1> QED
  BY <1>3, <1>4, BaseInit DEF LinkInv

LEMMA LinkInvNext == LinkInv /\ [Next]_vars /\ FewFaults => LinkInv'
BY BaseNext, LinksAreKnownNext, LinksStayLinksNext, LinksLeadToFilesNext, KeptForLinksNext DEF LinkInv

\* A file is moved only into the place of its link: no other archive is lost.
LEMMA MovingLosesNone ==
    ASSUME NEW p \in Periods, NEW r \in Runs, files[p][cur[2]].is \in {"link", "none"},
           cur[1] \in Periods, Moved(p) \/ NotMoved(p), HasArchive(r)
    PROVE  HasArchive(r)'
<1>1. PICK q \in Periods : files[q][r].is = "archive"
  BY DEF HasArchive
<1>2. q # p \/ r # cur[2]
  BY <1>1
<1>3. CASE files'[q][r] = files[q][r]
  BY <1>1, <1>3 DEF HasArchive
<1>4. CASE Moved(p) /\ q = cur[1] /\ r = cur[2]
  BY <1>1, <1>4 DEF Moved, HasArchive
<1> QED
  BY <1>2, <1>3, <1>4 DEF Moved, NotMoved

\* Archives go only when the loop removes a file that no link is to keep.
LEMMA ArchivesGoByRemoval ==
    ASSUME LinkInv, [Next]_vars, NEW r \in Runs, HasArchive(r), ~HasArchive(r)'
    PROVE  RemoveFile
<1>1. TypeOK /\ Course /\ LinksLeadBack
  BY DEF LinkInv, Base
<1>2. PICK q \in Periods : files[q][r].is = "archive" /\ files'[q][r].is # "archive"
  BY DEF HasArchive
<1>3. ~Deliver
  <2>1. ASSUME Deliver PROVE FALSE
    <3>1. Unmade(runs) /\ runs \in Runs
      BY <1>1, <2>1, DeliverMakes DEF Deliver, Unmade
    <3>2. r # runs
      BY <1>1, <1>2, <3>1 DEF Course
    <3>3. files'[q][r] = files[q][r]
      BY <1>1, <2>1, <3>2, DeliverMakes
    <3> QED
      BY <1>2, <3>3
  <2> QED
    BY <2>1
<1>4. ~MoveToWeekly
  <2>1. ASSUME MoveToWeekly PROVE FALSE
    <3>1. HasKeptLink(WeeklyLink) /\ pc = "weekly" /\ (Moved("weekly") \/ NotMoved("weekly"))
      BY <1>1, <1>2, <2>1, MoveToWeeklyDoes
    <3>2. files["weekly"][cur[2]].is \in {"link", "none"} /\ cur[1] \in Periods
      BY <1>1, <3>1, LinkOrNothing, CurIsName DEF HasKeptLink, AtFile
    <3> QED
      BY <3>1, <3>2, MovingLosesNone DEF Periods
  <2> QED
    BY <2>1
<1>5. ~MoveToDaily
  <2>1. ASSUME MoveToDaily PROVE FALSE
    <3>1. HasKeptLink(DailyLink) /\ pc = "daily" /\ (Moved("daily") \/ NotMoved("daily"))
      BY <1>1, <1>2, <2>1, MoveToDailyDoes
    <3>2. files["daily"][cur[2]].is \in {"link", "none"} /\ cur[1] \in Periods
      BY <1>1, <3>1, LinkOrNothing, CurIsName DEF HasKeptLink, AtFile
    <3> QED
      BY <3>1, <3>2, MovingLosesNone DEF Periods
  <2> QED
    BY <2>1
<1>6. ~Relink
  <2>1. ASSUME Relink PROVE FALSE
    <3>1. HasKeptLink(DailyLink) /\ pc = "relink" /\ q = "daily" /\ r = cur[2]
      BY <1>1, <1>2, <2>1, RelinkDoes DEF BreakLoop
    <3> QED
      BY <1>2, <3>1, LinkOrNothing DEF HasKeptLink
  <2> QED
    BY <2>1
<1>7. files' # files
  BY <1>2
<1> QED
  BY <1>3, <1>4, <1>5, <1>6, <1>7
     DEF Next, vars, StartRun, Dump, DumpFails, ListFiles, ListingFails, NextFile, RotationDone, Killed, Midnight

\* Those that could read the backup through it were to be deleted.
LEMMA RemovedWithItsLinks ==
    ASSUME LinkInv, RemoveFile, NEW r \in Runs, HasArchive(r), ~HasArchive(r)',
           NEW p \in Periods, p \in listed, Readable(p, r)
    PROVE  <<p, r>> \in doomed \cup unread
<1>1. TypeOK /\ Course /\ LinksLeadBack
  BY DEF LinkInv, Base
<1>2. /\ cur[1] \in Periods /\ cur[2] \in Runs /\ cur = <<cur[1], cur[2]>> /\ cur \in doomed /\ pc = "remove"
  BY <1>1, CurIsName DEF RemoveFile, AtFile, Course
<1>3. ASSUME NEW q \in Periods, files[q][r].is = "archive"
      PROVE  cur = <<q, r>> /\ ~kept
  <2>1. files'[q][r] # files[q][r]
    BY <1>3 DEF HasArchive
  <2> QED
    BY <1>1, <1>2, <2>1, RemoveFileDoes
<1>4. CASE files[p][r].is = "archive"
  BY <1>2, <1>3, <1>4
<1>5. CASE files[p][r].is = "link" /\ files[files[p][r].to][r].is = "archive"
  <2>1. files[p][r].to \in Periods
    BY <1>1, <1>5 DEF LinksLeadBack, Before, Periods
  <2>2. cur = <<files[p][r].to, r>> /\ ~kept
    BY <1>3, <1>5, <2>1
  <2>3. <<cur[1], cur[2], p>> \in linked \/ <<p, r>> \in unread
    BY <1>2, <1>5, <2>2 DEF LinkInv, LinksAreKnown, InLoop, Ahead, AtFile
  <2>4. CASE HasLink(<<p, cur[2]>>)
    <3>1. p \in {"weekly", "daily"}
      BY <1>1, <2>4 DEF HasLink, TypeOK
    <3>2. <<p, cur[2]>> \in doomed
      BY <1>2, <2>2, <2>4, <3>1 DEF LinkInv, KeptForLinks, HasKeptLink, WeeklyLink, DailyLink
    <3> QED
      BY <2>2, <3>2
  <2> QED
    BY <2>3, <2>4 DEF HasLink
<1> QED
  BY <1>4, <1>5 DEF Readable

\* A backup's last file goes only when all that is read from it is to be
\* deleted, wherever a system call fails or the process is killed: for every
\* rule and number of days and runs, while there is one such accident.
THEOREM LastFileIsLast == ASSUME MaxFaults <= 1 PROVE Spec => LastFileGoesLast
<1> DEFINE Goes == \A r \in Runs : HasArchive(r) /\ ~HasArchive(r)' =>
                      \A p \in listed : Readable(p, r) => <<p, r>> \in doomed \cup unread
<1>1. LinkInv /\ [Next]_vars => [Goes]_vars
  BY ArchivesGoByRemoval, RemovedWithItsLinks DEF LinkInv, Base, TypeOK
<1>2. LinkInv /\ [Next]_vars => LinkInv'
  BY LinkInvNext DEF FewFaults
<1> QED
  BY LinkInvInit, <1>1, <1>2, PTL DEF Spec, LastFileGoesLast

-----------------------------------------------------------------------------
(***************************************************************************)
(* What the rule wants is there, as long as nothing has failed.            *)
(***************************************************************************)
\* Rotation before the backup makes room for the copy to come; after a midnight
\* that has fallen into a run the room may never have been filled.
Room(p) == IF ~safe /\ (late \/ (pc # "idle" /\ InEffect(rule, p, today))) THEN 1 ELSE 0
Later(p, r) == {q \in Runs : q > r /\ p \in made[q].periods}

\* No rotation of this run may take the copy of run r from period p.
Needed(p, r) ==
    /\ p \in made[r].periods
    /\ IF rule.useCount THEN Cardinality(Later(p, r)) + Room(p) < RetentionCount(rule, p)
                        ELSE TermRuns(p, Born(p, r))

Present(p, r) == files[p][r].is # "none"

\* There are only complete copies; a link that is made anew is younger than
\* its backup.
CopiesAreMade ==
    \A p \in Periods, r \in Runs : Present(p, r) =>
        /\ files[p][r].is \in {"archive", "link"} /\ p \in made[r].periods
        /\ made[r].archived <= files[p][r].day /\ files[p][r].at <= clock

\* Rules by count make no links anew: the times of the copies order the runs.
CopiesInOrder ==
    rule.useCount => \A p, q \in Periods, r, s \in Runs :
        r < s /\ Present(p, r) /\ Present(q, s) => files[p][r].at < files[q][s].at

MadeInOrder ==
    /\ \A r \in Runs : /\ made[r].day <= today
                       /\ made[r].periods # {} =>
                             /\ made[r].day > 0 /\ made[r].periods = DstList(rule, made[r].day)
                             /\ 0 < made[r].archived /\ made[r].archived <= made[r].day
                             /\ made[r].day - made[r].archived <= MaxAge
    /\ \A r, s \in Runs : r < s /\ made[s].periods # {} => made[r].day <= made[s].day

DoomedAreDone == \A n \in doomed : n[1] \in made[n[2]].periods /\ ~Needed(n[1], n[2])

\* A link in a directory that was not listed, to a file that is to go, need not
\* be read any more.
UnlistedAreDone ==
    \A n \in doomed, p \in Periods : p \notin listed /\ Before(n[1], p) => ~Needed(p, n[2])

\* Between the move of a file over its weekly link and the making of the new
\* daily link, the old one leads nowhere.
NeededAreReadable ==
    \A p \in Periods, r \in Runs : Needed(p, r) =>
        \/ Readable(p, r)
        \/ /\ pc = "relink" /\ cur = <<"monthly", r>> /\ p = "daily"
           /\ HasKeptLink(DailyLink) /\ files["weekly"][r].is = "archive"

\* Until the loop deals with a link that is to stay, the link and its file are
\* there.
LinksWait ==
    \A x \in linked : Awaited(x) =>
        /\ <<x[3], x[2]>> \notin doomed => files[x[3]][x[2]].is = "link"
        /\ files[x[1]][x[2]].is = "archive" \/ (AtFile /\ moved /\ cur = <<x[1], x[2]>>)

\* By count a weekly link goes together with its monthly file.
WeeklyGoesToo ==
    rule.useCount => \A r \in Runs :
        <<"monthly", r, "weekly">> \in linked /\ <<"monthly", r>> \in doomed => <<"weekly", r>> \in doomed

FileIsMoved ==
    /\ pc \in {"relink", "daily"} /\ HasKeptLink(WeeklyLink) => moved
    /\ AtFile /\ moved => ~Present(cur[1], cur[2])

WantedInv ==
    /\ LinkInv /\ unread = {}
    /\ CopiesAreMade /\ CopiesInOrder /\ MadeInOrder
    /\ DoomedAreDone /\ UnlistedAreDone /\ NeededAreReadable
    /\ LinksWait /\ WeeklyGoesToo /\ FileIsMoved

\* A rule with weekly and monthly copies: on a first of month that is no Sunday
\* the weekly directory is not listed, and a link in it is not seen.  By date, no
\* backup's monthly term may end on such a day before its weekly one; by count,
\* there may be no such day after a backup of both.  When midnight may pass
\* between the two directories every first of month is such a day.
Unmatched == IF LateRuns THEN FirstDays ELSE FirstDays \ Sundays
WeeksFit ==
    \A r \in RuleChoices : r.weeks > 0 /\ r.months > 0 =>
        IF r.useCount
        THEN r.weeks <= r.months /\ \A f \in FirstDays \cap Sundays, g \in Unmatched : f < g => LastDay < g
        ELSE \A f \in FirstDays \cap Sundays, g \in Unmatched :
                 /\ f < g /\ g <= LastDay
                 /\ Cardinality({d \in FirstDays : f < d /\ d <= g}) >= r.months
                 => Cardinality({d \in Sundays : f < d /\ d <= g}) >= r.weeks

LEMMA StateIs ==
    ASSUME TypeOK
    PROVE  /\ rule \in RuleChoices /\ rule \in Rules /\ rule.useCount \in BOOLEAN
           /\ rule.days \in Nat /\ rule.weeks \in Nat /\ rule.months \in Nat
           /\ today \in Nat \ {0} /\ today <= LastDay /\ clock \in Nat /\ runs \in Nat /\ faults \in Nat
           /\ \A p \in Periods : RetentionCount(rule, p) \in Nat
           /\ \A r \in Runs : /\ made[r].day \in Nat /\ made[r].archived \in Nat
                              /\ made[r].periods \in SUBSET Periods /\ r \in Nat \ {0}
           /\ \A p \in Periods, r \in Runs : Born(p, r) \in Nat
           /\ \A p \in Periods, r \in Runs : files[p][r].at \in Nat /\ files[p][r].day \in Nat
<1>1. /\ rule \in RuleChoices /\ rule \in Rules
      /\ today \in Nat \ {0} /\ today <= LastDay /\ clock \in Nat /\ runs \in Nat /\ faults \in Nat
  BY LocalAssumption DEF TypeOK
<1>2. rule.useCount \in BOOLEAN /\ rule.days \in Nat /\ rule.weeks \in Nat /\ rule.months \in Nat
  BY <1>1 DEF Rules
<1>3. \A p \in Periods : RetentionCount(rule, p) \in Nat
  BY <1>2 DEF RetentionCount, Periods
<1>4. \A r \in Runs : /\ made[r].day \in Nat /\ made[r].archived \in Nat
                      /\ made[r].periods \in SUBSET Periods /\ r \in Nat \ {0}
  BY LocalAssumption DEF TypeOK, Runs
<1>6. \A p \in Periods, r \in Runs : Born(p, r) \in Nat
  BY <1>4 DEF Born
<1>5. \A p \in Periods, r \in Runs : files[p][r].at \in Nat /\ files[p][r].day \in Nat
  BY DEF TypeOK, Copies
<1> QED
  BY <1>1, <1>2, <1>3, <1>4, <1>5, <1>6

LEMMA RunsAreFinite ==
    ASSUME NEW S \in SUBSET Runs
    PROVE  IsFiniteSet(S) /\ Cardinality(S) \in Nat
<1>1. IsFiniteSet(Runs)
  BY FS_Interval, LocalAssumption DEF Runs
<1> QED
  BY <1>1, FS_Subset, FS_CardinalityType

\* Every step is a failure or is none.
LEMMA FaultOrNot == Base /\ [Next]_vars => Fault \/ NoFault
<1> SUFFICES ASSUME Base, [Next]_vars
             PROVE  Fault \/ NoFault
  OBVIOUS
<1>1. TypeOK /\ Course /\ LinksLeadBack
  BY DEF Base
<1>2. Deliver => Fault \/ NoFault
  BY <1>1, DeliverMakes
<1>3. ListFiles => Fault \/ NoFault
  BY ListFilesNotes
<1>4. MoveToWeekly => Fault \/ NoFault
  BY <1>1, MoveToWeeklyDoes DEF Moved, NotMoved, NoFault
<1>5. MoveToDaily => Fault \/ NoFault
  BY <1>1, MoveToDailyDoes DEF Moved, NotMoved, NoFault
<1>6. Relink => Fault \/ NoFault
  BY <1>1, RelinkDoes
<1>7. RemoveFile => Fault \/ NoFault
  BY <1>1, RemoveFileDoes
<1>8. UNCHANGED vars => NoFault
  BY DEF vars, NoFault
<1> QED
  BY <1>2, <1>3, <1>4, <1>5, <1>6, <1>7, <1>8
     DEF Next, StartRun, Dump, DumpFails, ListingFails, NextFile, RotationDone, Killed, Midnight, NoFault

\* The days of a set after one day: the later the other, the more.
LEMMA MoreDaysPass ==
    ASSUME NEW D \in SUBSET Nat, NEW on, NEW e \in Nat, NEW f \in Nat, e <= f
    PROVE  LET Passed(day) == Cardinality({x \in D : on < x /\ x <= day})
           IN Passed(e) \in Nat /\ Passed(f) \in Nat /\ Passed(e) <= Passed(f)
<1> DEFINE S == {x \in D : on < x /\ x <= e}
           T == {x \in D : on < x /\ x <= f}
<1>0. \A x \in D : x \in Nat
  OBVIOUS
<1>1. S \in SUBSET Nat /\ T \in SUBSET Nat /\ (\A x \in S : x <= e) /\ (\A x \in T : x <= f)
  BY <1>0
<1>a. S \subseteq T
  <2>1. \A x \in D : x <= e => x <= f
    BY <1>0
  <2> QED
    BY <2>1
<1> HIDE DEF S, T
<1>2. IsFiniteSet(S) /\ Cardinality(S) \in Nat /\ IsFiniteSet(T) /\ Cardinality(T) \in Nat
  BY <1>1, DaysAreFinite
<1>3. Cardinality(S) <= Cardinality(T)
  BY <1>a, <1>2, FS_Subset
<1> QED
  BY <1>2, <1>3 DEF S, T

\* A term that still runs later runs today.
LEMMA TermRan ==
    ASSUME TypeOK, NEW p \in Periods, NEW on \in Nat, rule' = rule, today' \in {today, today + 1}, TermRuns(p, on)'
    PROVE  TermRuns(p, on)
<1>1. /\ today \in Nat /\ rule.days \in Nat /\ rule.weeks \in Nat /\ rule.months \in Nat
      /\ Sundays \in SUBSET Nat /\ FirstDays \in SUBSET Nat
  BY StateIs, CalendarAssumption
<1>2. PICK e \in Nat, f \in Nat : e = today /\ f = today' /\ e <= f
  BY <1>1
<1>3. ASSUME NEW D \in SUBSET Nat, NEW n \in Nat, Cardinality({x \in D : on < x /\ x <= today'}) < n
      PROVE  Cardinality({x \in D : on < x /\ x <= today}) < n
  <2>1. Cardinality({x \in D : on < x /\ x <= f}) < n
    BY <1>2, <1>3
  <2>2. /\ Cardinality({x \in D : on < x /\ x <= e}) \in Nat /\ Cardinality({x \in D : on < x /\ x <= f}) \in Nat
        /\ Cardinality({x \in D : on < x /\ x <= e}) <= Cardinality({x \in D : on < x /\ x <= f})
    BY <1>2, MoreDaysPass
  <2>3. Cardinality({x \in D : on < x /\ x <= e}) < n
    BY <2>1, <2>2
  <2> QED
    BY <1>2, <2>3
<1>4. CASE p = "daily"
  <2>1. today' - on < rule'.days
    BY <1>4 DEF TermRuns
  <2> QED
    BY <1>1, <1>4, <2>1 DEF TermRuns
<1>5. CASE p = "weekly"
  <2>1. Cardinality({x \in Sundays : on < x /\ x <= today'}) < rule.weeks
    BY <1>5 DEF TermRuns
  <2> QED
    BY <1>1, <1>3, <1>5, <2>1 DEF TermRuns
<1>6. CASE p = "monthly"
  <2>1. Cardinality({x \in FirstDays : on < x /\ x <= today'}) < rule.months
    BY <1>6 DEF TermRuns
  <2> QED
    BY <1>1, <1>3, <1>6, <2>1 DEF TermRuns
<1> QED
  BY <1>4, <1>5, <1>6 DEF Periods

\* Without failures, only the delivery changes what has been made and when; the
\* others leave the room that they found, and a midnight makes more.
LEMMA OtherStepsWantTheSame ==
    ASSUME Base, [Next]_vars, ~Fault, ~Deliver
    PROVE  /\ UNCHANGED <<rule, safe, made>>
           /\ today' \in {today, today + 1}
           /\ late \in BOOLEAN /\ late' \in BOOLEAN /\ (late => late')
           /\ today' = today \/ late' \/ pc = "idle"
           /\ ~safe /\ pc # "idle" => pc' # "idle"
<1> USE DEF setup, calendar
<1>1. TypeOK /\ Course /\ LinksLeadBack /\ TypeOK' /\ late \in BOOLEAN /\ late' \in BOOLEAN
  BY TypeNext DEF Base, TypeOK
<1>2. CASE MoveToWeekly
  <2>1. UNCHANGED <<setup, calendar, made>>
    BY <1>2 DEF MoveToWeekly
  <2> QED
    BY <1>1, <1>2, <2>1, MoveToWeeklyDoes
<1>3. CASE MoveToDaily
  BY <1>1, <1>3 DEF MoveToDaily
<1>4. CASE Relink
  <2>1. UNCHANGED <<setup, calendar, made>>
    BY <1>4 DEF Relink
  <2> QED
    BY <1>1, <1>4, <2>1, RelinkDoes DEF BreakLoop, AfterRotation
<1>5. CASE RemoveFile
  BY <1>1, <1>5 DEF RemoveFile
<1>6. CASE UNCHANGED vars
  BY <1>1, <1>6 DEF vars
<1>7. CASE StartRun \/ Dump \/ NextFile \/ RotationDone
  BY <1>1, <1>7 DEF StartRun, Dump, NextFile, RotationDone, AfterRotation
<1>8. CASE ListFiles
  <2>1. UNCHANGED <<setup, made>> /\ pc' = "next"
    BY <1>8 DEF ListFiles
  <2>2. today' \in {today, today + 1} /\ late' = (late \/ today' # today)
    BY <1>8, ListFilesNotes
  <2> QED
    BY <1>1, <2>1, <2>2
<1>9. CASE Midnight
  <2>1. UNCHANGED <<setup, made, pc>> /\ today' = today + 1 /\ late' = (late \/ pc # "idle")
    BY <1>9 DEF Midnight
  <2> QED
    BY <1>1, <2>1
<1> QED
  BY <1>2, <1>3, <1>4, <1>5, <1>6, <1>7, <1>8, <1>9 DEF Next, DumpFails, ListingFails, Killed

\* As long as nothing fails, what is needed after a step was needed before it,
\* but for the backup that the step makes: the room that was made for it is
\* taken by it.
LEMMA NeededWas ==
    ASSUME Base, [Next]_vars, ~Fault, NEW p \in Periods, NEW r \in Runs, Needed(p, r)', ~Deliver \/ r # runs
    PROVE  Needed(p, r)
<1>1. TypeOK /\ Course /\ rule.useCount \in BOOLEAN
  BY StateIs DEF Base
<1>2. Room(p) \in {0, 1} /\ Room(p)' \in {0, 1}
  BY DEF Room
<1>3. Cardinality(Later(p, r)) \in Nat
  BY RunsAreFinite DEF Later
<1>4. CASE Deliver
  <2>1. /\ rule' = rule /\ today' = today /\ safe' = safe /\ late' = late /\ pc = "deliver" /\ pc' = AfterBackup
    BY <1>4 DEF Deliver, setup, calendar
  <2>2. /\ runs \in Runs
        /\ made' = [made EXCEPT ![runs] = [periods |-> Due, day |-> today, archived |-> archived]]
    BY <1>1, <1>4, DeliverMakes
  <2>3. r \in Nat /\ runs \in Nat /\ RetentionCount(rule, p) \in Nat
    BY <1>1, <2>2, StateIs
  <2>4. \A q \in Runs \ {runs} : made'[q] = made[q]
    BY <2>2
  <2>5. made'[r] = made[r] /\ p \in made[r].periods
    BY <1>4, <2>4 DEF Needed
  <2>6. CASE ~rule.useCount
    <3>1. TermRuns(p, Born(p, r))'
      BY <2>1, <2>6 DEF Needed
    <3>2. TermRuns(p, Born(p, r))
      BY <2>1, <2>5, <3>1 DEF TermRuns, Born
    <3> QED
      BY <2>5, <2>6, <3>2 DEF Needed
  <2>7. CASE rule.useCount
    <3>1. Cardinality(Later(p, r)') + Room(p)' < RetentionCount(rule, p)
      BY <2>1, <2>7 DEF Needed
    <3>2. ~Unmade(r) /\ Unmade(runs) /\ made[runs] = NotMade
      BY <1>1, <2>1, <2>2, <2>5 DEF Course, Unmade, NotMade
    <3>3. r < runs
      BY <1>4, <2>3, <3>2 DEF Unmade
    <3>4. Later(p, r) = {q \in Runs : q > r /\ p \in made[q].periods} /\ runs \notin Later(p, r)
      BY <3>2 DEF Later, NotMade
    <3>5. made'[runs].periods = Due
      BY <1>1, <2>2 DEF TypeOK
    <3>6. Later(p, r)' = IF InEffect(rule, p, today) THEN Later(p, r) \cup {runs} ELSE Later(p, r)
      <4>1. Later(p, r)' = {q \in Runs : q > r /\ p \in made'[q].periods}
        BY DEF Later
      <4>2. p \in made'[runs].periods <=> InEffect(rule, p, today)
        BY <3>5 DEF Due, DstList
      <4>3. \A q \in Runs : q # runs => made'[q].periods = made[q].periods
        BY <2>4
      <4>4. runs \in Runs /\ runs > r
        BY <2>2, <2>3, <3>3
      <4>5. \A q \in Runs : q \in Later(p, r)' <=> IF q = runs THEN InEffect(rule, p, today) ELSE q \in Later(p, r)
        BY <3>4, <4>1, <4>2, <4>3, <4>4
      <4> QED
        BY <3>4, <4>1, <4>4, <4>5
    <3>7. IsFiniteSet(Later(p, r)) /\ Cardinality(Later(p, r) \cup {runs}) = Cardinality(Later(p, r)) + 1
      BY <3>4, RunsAreFinite, FS_AddElement DEF Later
    <3>8. Room(p) = 1 => Room(p)' = 1 \/ InEffect(rule, p, today)
      BY <2>1 DEF Room
    <3>9. Cardinality(Later(p, r)) + Room(p) <= Cardinality(Later(p, r)') + Room(p)'
      BY <1>2, <1>3, <3>6, <3>7, <3>8
    <3>10. Cardinality(Later(p, r)') \in Nat
      BY <1>3, <3>6, <3>7
    <3>11. Cardinality(Later(p, r)) + Room(p) < RetentionCount(rule, p)
      BY <1>2, <1>3, <2>3, <3>1, <3>9, <3>10
    <3> QED
      BY <2>5, <2>7, <3>11 DEF Needed
  <2> QED
    BY <1>1, <2>6, <2>7
<1>5. CASE ~Deliver
  <2>1. /\ rule' = rule /\ safe' = safe /\ made' = made /\ today' \in {today, today + 1}
        /\ late \in BOOLEAN /\ late' \in BOOLEAN /\ (late => late')
        /\ today' = today \/ late' \/ pc = "idle"
        /\ ~safe /\ pc # "idle" => pc' # "idle"
    BY <1>5, OtherStepsWantTheSame
  <2>2. p \in made[r].periods /\ Born(p, r) \in Nat /\ RetentionCount(rule, p) \in Nat
    BY <1>1, <2>1, StateIs DEF Needed
  <2>3. CASE ~rule.useCount
    <3>1. TermRuns(p, Born(p, r))'
      BY <2>1, <2>3 DEF Needed
    <3>2. PICK on \in Nat : on = Born(p, r) /\ TermRuns(p, on)'
      BY <2>1, <2>2, <3>1 DEF TermRuns, Born
    <3>3. TermRuns(p, on)
      BY <1>1, <2>1, <3>2, TermRan
    <3> QED
      BY <2>2, <2>3, <3>2, <3>3 DEF Needed
  <2>4. CASE rule.useCount
    <3>1. Cardinality(Later(p, r)') + Room(p)' < RetentionCount(rule, p) /\ Later(p, r)' = Later(p, r)
      BY <2>1, <2>4 DEF Needed, Later
    <3>2. Room(p) <= Room(p)'
      BY <1>2, <2>1 DEF Room
    <3>3. Cardinality(Later(p, r)) + Room(p) < RetentionCount(rule, p)
      BY <1>2, <1>3, <2>2, <3>1, <3>2
    <3> QED
      BY <2>2, <2>4, <3>3 DEF Needed
  <2> QED
    BY <1>1, <2>3, <2>4
<1> QED
  BY <1>4, <1>5

LEMMA MadeInOrderNext ==
    ASSUME Base, MadeInOrder, [Next]_vars, ~Fault
    PROVE  MadeInOrder'
<1>1. TypeOK /\ Course
  BY DEF Base
<1>2. \A r \in Runs : made[r].day \in Nat /\ r \in Nat
  BY <1>1, StateIs
<1>3. CASE Deliver
  <2>1. rule' = rule /\ today' = today /\ pc = "deliver"
    BY <1>3 DEF Deliver, setup, calendar
  <2>2. /\ runs \in Runs
        /\ made' = [made EXCEPT ![runs] = [periods |-> Due, day |-> today, archived |-> archived]]
    BY <1>1, <1>3, DeliverMakes
  <2>3. /\ made'[runs].periods = DstList(rule, today) /\ made'[runs].day = today /\ made'[runs].archived = archived
        /\ \A q \in Runs \ {runs} : made'[q] = made[q]
    BY <1>1, <2>2 DEF TypeOK, Due
  <2>4. \A q \in Runs : q > runs => made[q].periods = {}
    BY <1>1 DEF Course, Unmade, NotMade
  <2>5. today \in Nat \ {0} /\ 0 < archived /\ archived <= today /\ today - archived <= MaxAge
    BY <1>1, <2>1, StateIs DEF Course
  <2>6. \A r \in Runs : /\ made'[r].day <= today
                        /\ made'[r].periods # {} =>
                              /\ made'[r].day > 0 /\ made'[r].periods = DstList(rule, made'[r].day)
                              /\ 0 < made'[r].archived /\ made'[r].archived <= made'[r].day
                              /\ made'[r].day - made'[r].archived <= MaxAge
    BY <2>2, <2>3, <2>5 DEF MadeInOrder
  <2>7. \A r, s \in Runs : r < s /\ made'[s].periods # {} => made'[r].day <= made'[s].day
    <3>1. ASSUME NEW r \in Runs, NEW s \in Runs, r < s, made'[s].periods # {}
          PROVE  made'[r].day <= made'[s].day
      <4>1. CASE s = runs
        BY <1>2, <2>2, <2>3, <2>6, <4>1
      <4>2. CASE s # runs
        <5>1. s < runs
          BY <1>2, <2>2, <2>3, <2>4, <3>1, <4>2
        <5>2. r # runs
          BY <1>2, <2>2, <3>1, <5>1
        <5> QED
          BY <2>3, <3>1, <4>2, <5>2 DEF MadeInOrder
      <4> QED
        BY <4>1, <4>2
    <3> QED
      BY <3>1
  <2> QED
    BY <2>1, <2>6, <2>7 DEF MadeInOrder
<1>4. CASE ~Deliver
  <2>1. rule' = rule /\ made' = made /\ today' \in {today, today + 1} /\ today \in Nat
    BY <1>1, <1>4, OtherStepsWantTheSame, StateIs
  <2>2. \A r \in Runs : made[r].day <= today'
    BY <1>2, <2>1 DEF MadeInOrder
  <2> QED
    BY <2>1, <2>2 DEF MadeInOrder
<1> QED
  BY <1>3, <1>4

-----------------------------------------------------------------------------
(***************************************************************************)
(* The loop, while nothing fails.                                          *)
(***************************************************************************)
\* A link that the loop deals with next, and its file, are where they were.
LEMMA LinkIsThere ==
    ASSUME WantedInv, AtFile, NEW p \in {"weekly", "daily"}, HasLink(<<p, cur[2]>>),
           pc = "weekly" \/ (p = "daily" /\ pc \in {"relink", "daily"})
    PROVE  /\ <<p, cur[2]>> \notin doomed => files[p][cur[2]].is = "link"
           /\ files[cur[1]][cur[2]].is = "archive" \/ moved
<1>1. cur = <<cur[1], cur[2]>>
  BY CurIsName DEF WantedInv, LinkInv, Base
<1>2. PICK x \in linked : x = <<cur[1], cur[2], p>>
  BY DEF HasLink
<1>3. Awaited(x)
  BY <1>1, <1>2 DEF Awaited
<1> QED
  BY <1>2, <1>3 DEF WantedInv, LinksWait

\* A link that is needed, to the file at which the loop is, is known to it and
\* is to stay: if its directory was not listed, its term is over.
LEMMA NeededLinkIsKept ==
    ASSUME WantedInv, AtFile, NEW p \in Periods, Needed(p, cur[2]),
           files[p][cur[2]].is = "link", files[p][cur[2]].to = cur[1]
    PROVE  HasKeptLink(<<p, cur[2]>>)
<1>1. /\ TypeOK /\ Course /\ LinksLeadBack /\ LinksAreKnown /\ DoomedAreDone /\ UnlistedAreDone /\ unread = {}
      /\ cur[1] \in Periods /\ cur[2] \in Runs /\ cur = <<cur[1], cur[2]>> /\ cur \in doomed
  BY CurIsName DEF WantedInv, LinkInv, Base, Course
<1>2. PICK r \in Runs, top \in Periods : r = cur[2] /\ top = cur[1] /\ cur = <<top, r>>
  BY <1>1
<1>3. Before(top, p) /\ Needed(p, r)
  BY <1>1, <1>2 DEF LinksLeadBack
<1>4. <<p, r>> \notin doomed
  BY <1>1, <1>3 DEF DoomedAreDone
<1>5. p \in listed
  BY <1>1, <1>2, <1>3 DEF UnlistedAreDone
<1>6. InLoop /\ Ahead(<<top, r>>)
  BY <1>2 DEF AtFile, InLoop, Ahead
<1>7. <<top, r, p>> \in linked
  BY <1>1, <1>2, <1>5, <1>6 DEF LinksAreKnown
<1> QED
  BY <1>2, <1>4, <1>7 DEF HasKeptLink, HasLink

\* Without a failure the file of a link that is to stay gets into its place.
LEMMA MovesToWeekly ==
    ASSUME WantedInv, MoveToWeekly, ~Fault, HasKeptLink(WeeklyLink)
    PROVE  /\ Moved("weekly") /\ cur[1] = "monthly" /\ ~rule.useCount /\ pc' = "relink"
           /\ files["monthly"][cur[2]].is = "archive" /\ files["weekly"][cur[2]].is = "link"
<1>1. TypeOK /\ Course /\ LinksLeadBack /\ KeptForLinks
  BY DEF WantedInv, LinkInv, Base
<1>2. pc = "weekly" /\ cur[1] = "monthly" /\ pc' = "relink" /\ (Moved("weekly") \/ NotMoved("weekly"))
  BY <1>1, MoveToWeeklyDoes
<1>3. AtFile /\ ~moved /\ HasLink(<<"weekly", cur[2]>>) /\ <<"weekly", cur[2]>> \notin doomed
  BY <1>1, <1>2 DEF AtFile, KeptForLinks, HasKeptLink, WeeklyLink
<1>4. files["monthly"][cur[2]].is = "archive" /\ files["weekly"][cur[2]].is = "link"
  BY <1>2, <1>3, LinkIsThere
<1>5. Moved("weekly")
  BY <1>2, <1>4 DEF NotMoved
<1>6. ~rule.useCount
  <2>1. cur = <<"monthly", cur[2]>> /\ cur \in doomed /\ cur[2] \in Runs
    BY <1>1, <1>2, <1>3, CurIsName DEF Course
  <2>2. <<"monthly", cur[2], "weekly">> \in linked
    BY <1>2, <1>3 DEF HasLink
  <2> QED
    BY <1>3, <2>1, <2>2 DEF WantedInv, WeeklyGoesToo
<1> QED
  BY <1>2, <1>4, <1>5, <1>6

LEMMA MovesToDaily ==
    ASSUME WantedInv, MoveToDaily, ~Fault
    PROVE  \/ UNCHANGED <<files, moved, kept>>
           \/ /\ Moved("daily") /\ cur[1] # "daily" /\ HasKeptLink(DailyLink) /\ ~HasKeptLink(WeeklyLink)
              /\ files[cur[1]][cur[2]].is = "archive" /\ files["daily"][cur[2]].is = "link"
<1>1. TypeOK /\ Course /\ LinksLeadBack
  BY DEF WantedInv, LinkInv, Base
<1>2. pc = "daily" /\ AtFile
  BY <1>1, MoveToDailyDoes DEF AtFile
<1>3. ASSUME HasKeptLink(DailyLink), ~moved, cur[1] # "daily", Moved("daily") \/ NotMoved("daily")
      PROVE  /\ Moved("daily") /\ ~HasKeptLink(WeeklyLink)
             /\ files[cur[1]][cur[2]].is = "archive" /\ files["daily"][cur[2]].is = "link"
  <2>1. HasLink(<<"daily", cur[2]>>) /\ <<"daily", cur[2]>> \notin doomed
    BY <1>3 DEF HasKeptLink, DailyLink
  <2>2. files[cur[1]][cur[2]].is = "archive" /\ files["daily"][cur[2]].is = "link"
    BY <1>2, <1>3, <2>1, LinkIsThere
  <2>3. Moved("daily")
    BY <1>3, <2>2 DEF NotMoved
  <2>4. ~HasKeptLink(WeeklyLink)
    BY <1>2, <1>3 DEF WantedInv, FileIsMoved
  <2> QED
    BY <2>2, <2>3, <2>4
<1> QED
  BY <1>1, <1>3, MoveToDailyDoes

LEMMA RelinksDaily ==
    ASSUME WantedInv, Relink, ~Fault
    PROVE  /\ pc = "relink" /\ cur[1] = "monthly" /\ ~rule.useCount
           /\ moved /\ ~Present("monthly", cur[2])
           /\ \/ ~HasKeptLink(DailyLink) /\ UNCHANGED <<files, clock>>
              \/ /\ HasKeptLink(DailyLink) /\ files["daily"][cur[2]].is = "link" /\ clock' = clock + 1
                 /\ files'["daily"][cur[2]] = [is |-> "link", to |-> "weekly", at |-> clock', day |-> today]
<1>1. TypeOK /\ Course /\ LinksLeadBack /\ KeptForLinks /\ FileIsMoved
  BY DEF WantedInv, LinkInv, Base
<1>2. pc = "relink" /\ HasKeptLink(WeeklyLink) /\ moved /\ AtFile
  BY <1>1, RelinkDoes DEF KeptForLinks, FileIsMoved, AtFile
<1>3. cur[1] = "monthly"
  BY <1>1, <1>2, KnownLink DEF HasKeptLink, WeeklyLink, Before
<1>4. ~Present("monthly", cur[2])
  BY <1>1, <1>2, <1>3 DEF FileIsMoved
<1>5. ~rule.useCount
  <2>1. cur = <<"monthly", cur[2]>> /\ cur \in doomed /\ cur[2] \in Runs
    BY <1>1, <1>2, <1>3, CurIsName DEF Course
  <2>2. <<"monthly", cur[2], "weekly">> \in linked /\ <<"weekly", cur[2]>> \notin doomed
    BY <1>2, <1>3 DEF HasLink, HasKeptLink, WeeklyLink
  <2> QED
    BY <2>1, <2>2 DEF WantedInv, WeeklyGoesToo
<1>6. HasKeptLink(DailyLink) => files["daily"][cur[2]].is = "link"
  BY <1>2, LinkIsThere DEF HasKeptLink, DailyLink
<1>7. BreakLoop => ~HasKeptLink(DailyLink) /\ UNCHANGED <<files, clock>>
  <2>1. ASSUME BreakLoop PROVE ~HasKeptLink(DailyLink)
    BY <1>2, <2>1 DEF Relink, BreakLoop, AfterRotation, HasKeptLink
  <2> QED
    BY <2>1 DEF BreakLoop
<1> QED
  BY <1>1, <1>2, <1>3, <1>4, <1>5, <1>6, <1>7, RelinkDoes

\* Apart from the delivery and from links made anew, what a name holds after a
\* step is what it, or a name of the same backup, held before.
LEMMA CopiesComeFrom ==
    ASSUME WantedInv, [Next]_vars, ~Fault, ~Deliver, ~Relink,
           NEW p \in Periods, NEW r \in Runs, files'[p][r].is # "none"
    PROVE  Present(p, r) /\ \E q \in Periods : Present(q, r) /\ files'[p][r] = files[q][r]
<1>1. TypeOK /\ Course /\ LinksLeadBack
  BY DEF WantedInv, LinkInv, Base
<1>2. files'[p][r] # NoCopy
  BY NoCopyIs
<1>3. CASE files'[p][r] = files[p][r]
  BY <1>3 DEF Present
<1>4. CASE MoveToWeekly
  <2>1. CASE HasKeptLink(WeeklyLink)
    <3>1. /\ Moved("weekly") /\ cur[1] = "monthly"
          /\ files["monthly"][cur[2]].is = "archive" /\ files["weekly"][cur[2]].is = "link"
      BY <1>4, <2>1, MovesToWeekly
    <3>2. CASE r = cur[2] /\ p = "weekly"
      BY <3>1, <3>2 DEF Moved, Present, Periods
    <3> QED
      BY <1>2, <1>3, <3>1, <3>2 DEF Moved
  <2>2. CASE ~HasKeptLink(WeeklyLink)
    BY <1>1, <1>3, <1>4, <2>2, MoveToWeeklyDoes
  <2> QED
    BY <2>1, <2>2
<1>5. CASE MoveToDaily
  <2>1. CASE UNCHANGED <<files, moved, kept>>
    BY <1>3, <2>1
  <2>2. CASE /\ Moved("daily") /\ cur[1] # "daily"
             /\ files[cur[1]][cur[2]].is = "archive" /\ files["daily"][cur[2]].is = "link"
    <3>1. cur[1] \in Periods
      BY <1>1, <1>5, CurIsName, MoveToDailyDoes DEF AtFile
    <3>2. CASE r = cur[2] /\ p = "daily"
      BY <2>2, <3>1, <3>2 DEF Moved, Present
    <3> QED
      BY <1>2, <1>3, <2>2, <3>2 DEF Moved
  <2> QED
    BY <1>5, <2>1, <2>2, MovesToDaily
<1>6. CASE RemoveFile
  <2>1. files'[p][r] = files[p][r] \/ files'[p][r] = NoCopy
    BY <1>1, <1>6, RemoveFileDoes
  <2> QED
    BY <1>2, <1>3, <2>1
<1>7. CASE UNCHANGED files
  BY <1>3, <1>7
<1> QED
  BY <1>4, <1>5, <1>6, <1>7
     DEF Next, vars, StartRun, Dump, DumpFails, ListFiles, ListingFails, NextFile, RotationDone, Killed, Midnight

\* The loop takes nothing but what is doomed.
LEMMA OnlyDoomedGo ==
    ASSUME WantedInv, [Next]_vars, ~Fault, NEW p \in Periods, NEW r \in Runs,
           Present(p, r), files'[p][r].is = "none"
    PROVE  AtFile /\ <<p, r>> = cur /\ cur \in doomed
<1>1. TypeOK /\ Course /\ LinksLeadBack
  BY DEF WantedInv, LinkInv, Base
<1>2. files'[p][r] # files[p][r]
  BY DEF Present
<1>3. ASSUME AtFile, p = cur[1], r = cur[2]
      PROVE  AtFile /\ <<p, r>> = cur /\ cur \in doomed
  BY <1>1, <1>3, CurIsName DEF Course
<1>4. ~Deliver
  <2>1. ASSUME Deliver PROVE FALSE
    <3>1. runs \in Runs /\ (r # runs => files'[p][r] = files[p][r])
      BY <1>1, <2>1, DeliverMakes
    <3>2. Unmade(runs)
      BY <2>1 DEF Deliver, Unmade
    <3> QED
      BY <1>1, <1>2, <3>1, <3>2 DEF Course, Present
  <2> QED
    BY <2>1
<1>5. ~Relink
  <2>1. ASSUME Relink PROVE FALSE
    <3>1. p = "daily" /\ r = cur[2]
      BY <1>1, <1>2, <2>1, RelinkDoes
    <3> QED
      BY <1>2, <2>1, <3>1, RelinksDaily
  <2> QED
    BY <2>1
<1>6. CASE MoveToWeekly
  <2>1. HasKeptLink(WeeklyLink) /\ AtFile
    BY <1>1, <1>2, <1>6, MoveToWeeklyDoes DEF AtFile
  <2>2. Moved("weekly") /\ cur[1] = "monthly" /\ files["monthly"][cur[2]].is = "archive"
    BY <1>6, <2>1, MovesToWeekly
  <2>3. p = cur[1] /\ r = cur[2]
    BY <1>2, <2>2 DEF Moved
  <2> QED
    BY <1>3, <2>1, <2>3
<1>7. CASE MoveToDaily
  <2>1. AtFile /\ Moved("daily") /\ cur[1] # "daily" /\ files[cur[1]][cur[2]].is = "archive"
    BY <1>1, <1>2, <1>7, MovesToDaily, MoveToDailyDoes DEF AtFile
  <2>2. p = cur[1] /\ r = cur[2]
    BY <1>2, <2>1 DEF Moved
  <2> QED
    BY <1>3, <2>1, <2>2
<1>8. CASE RemoveFile
  BY <1>1, <1>2, <1>3, <1>8, RemoveFileDoes DEF AtFile
<1> QED
  BY <1>2, <1>4, <1>5, <1>6, <1>7, <1>8
     DEF Next, vars, StartRun, Dump, DumpFails, ListFiles, ListingFails, NextFile, RotationDone, Killed, Midnight

LEMMA CopiesAreMadeNext ==
    ASSUME WantedInv, [Next]_vars, ~Fault
    PROVE  CopiesAreMade'
<1>1. TypeOK /\ Course /\ LinksLeadBack /\ CopiesAreMade /\ MadeInOrder
  BY DEF WantedInv, LinkInv, Base
<1>2. clock \in Nat /\ today \in Nat /\ \A s \in Runs : made[s].archived \in Nat /\ made[s].day \in Nat
  BY <1>1, StateIs
<1> SUFFICES ASSUME NEW p \in Periods, NEW r \in Runs, files'[p][r].is # "none"
             PROVE  /\ files'[p][r].is \in {"archive", "link"} /\ p \in made'[r].periods
                    /\ made'[r].archived <= files'[p][r].day /\ files'[p][r].at <= clock'
  BY DEF CopiesAreMade, Present
<1>3. \A q \in Periods, s \in Runs : files[q][s].at \in Nat /\ files[q][s].day \in Nat
  BY <1>1, StateIs
<1>4. CASE Deliver
  <2>1. /\ runs \in Runs /\ clock' = clock + 1
        /\ \A q \in Periods, s \in Runs \ {runs} : files'[q][s] = files[q][s]
        /\ \A q \in Periods : files'[q][runs].is # "none" =>
              q \in Due /\ files'[q][runs].at = clock' /\ archived <= files'[q][runs].day
        /\ made' = [made EXCEPT ![runs] = [periods |-> Due, day |-> today, archived |-> archived]]
        /\ \A q \in Due : files'[q][runs].is = IF q = First(Due) THEN "archive" ELSE "link"
    BY <1>1, <1>4, DeliverMakes
  <2>2. CASE r = runs
    <3>1. made'[r].periods = Due /\ made'[r].archived = archived
      BY <1>1, <2>1, <2>2 DEF TypeOK
    <3> QED
      BY <1>2, <2>1, <2>2, <3>1
  <2>3. CASE r # runs
    <3>1. made'[r] = made[r] /\ files'[p][r] = files[p][r]
      BY <2>1, <2>3
    <3> QED
      BY <1>1, <1>2, <1>3, <2>1, <3>1 DEF CopiesAreMade, Present
  <2> QED
    BY <2>2, <2>3
<1>5. CASE ~Deliver
  <2>1. made' = made
    BY <1>5, OtherStepsWantTheSame DEF WantedInv, LinkInv
  <2>2. clock <= clock' /\ clock' \in Nat
    <3>1. CASE Relink
      BY <1>2, <3>1, RelinksDaily
    <3>2. CASE ~Relink
      <4>1. clock' = clock
        BY <1>1, <1>5, <3>2, MoveToWeeklyDoes, MoveToDailyDoes, RemoveFileDoes
           DEF Next, vars, StartRun, Dump, DumpFails, ListFiles, ListingFails, NextFile, RotationDone, Killed, Midnight
      <4> QED
        BY <1>2, <4>1
    <3> QED
      BY <3>1, <3>2
  <2>3. ASSUME NEW q \in Periods, Present(q, r), files'[p][r] = files[q][r], Present(p, r)
        PROVE  /\ files'[p][r].is \in {"archive", "link"} /\ p \in made'[r].periods
               /\ made'[r].archived <= files'[p][r].day /\ files'[p][r].at <= clock'
    <3>1. /\ files[q][r].is \in {"archive", "link"} /\ p \in made[r].periods
          /\ made[r].archived <= files[q][r].day /\ files[q][r].at <= clock
      BY <1>1, <2>3 DEF CopiesAreMade
    <3> QED
      BY <1>2, <1>3, <2>1, <2>2, <2>3, <3>1
  <2>4. CASE Relink
    <3>1. CASE files'[p][r] = files[p][r]
      BY <2>3, <3>1 DEF Present
    <3>2. CASE files'[p][r] # files[p][r]
      <4>1. /\ p = "daily" /\ r = cur[2] /\ files[p][r].is = "link" /\ clock' = clock + 1
            /\ files'[p][r] = [is |-> "link", to |-> "weekly", at |-> clock', day |-> today]
        BY <1>1, <2>4, <3>2, RelinkDoes, RelinksDaily
      <4>2. p \in made[r].periods /\ made[r].archived <= today
        <5>1. p \in made[r].periods
          BY <1>1, <4>1 DEF CopiesAreMade, Present
        <5>2. made[r].archived <= made[r].day /\ made[r].day <= today
          BY <1>1, <5>1 DEF MadeInOrder
        <5> QED
          BY <1>2, <5>1, <5>2
      <4> QED
        BY <1>2, <2>1, <2>2, <4>1, <4>2
    <3> QED
      BY <3>1, <3>2
  <2>5. CASE ~Relink
    BY <1>5, <2>3, <2>5, CopiesComeFrom
  <2> QED
    BY <2>4, <2>5
<1> QED
  BY <1>4, <1>5

LEMMA CopiesInOrderNext ==
    ASSUME WantedInv, [Next]_vars, ~Fault
    PROVE  CopiesInOrder'
<1>1. TypeOK /\ Course /\ LinksLeadBack /\ CopiesAreMade /\ CopiesInOrder
  BY DEF WantedInv, LinkInv, Base
<1>2. clock \in Nat /\ runs \in Nat /\ \A r \in Runs : r \in Nat
  BY <1>1, StateIs
<1>3. \A q \in Periods, s \in Runs : files[q][s].at \in Nat
  BY <1>1, StateIs
<1>4. rule' = rule
  <2>1. Deliver => rule' = rule
    BY DEF Deliver, setup
  <2> QED
    BY <2>1, OtherStepsWantTheSame DEF WantedInv, LinkInv
<1> SUFFICES ASSUME rule.useCount, NEW p \in Periods, NEW q \in Periods, NEW r \in Runs, NEW s \in Runs,
                    r < s, files'[p][r].is # "none", files'[q][s].is # "none"
             PROVE  files'[p][r].at < files'[q][s].at
  BY <1>4 DEF CopiesInOrder, Present
<1>5. CASE Deliver
  <2>1. /\ runs \in Runs /\ clock' = clock + 1
        /\ \A t \in Periods, u \in Runs \ {runs} : files'[t][u] = files[t][u]
        /\ \A t \in Periods : files'[t][runs].is # "none" => t \in Due /\ files'[t][runs].at = clock'
    BY <1>1, <1>5, DeliverMakes
  <2>2. \A u \in Runs : u > runs => files'[q][u].is = "none"
    <3>1. ASSUME NEW u \in Runs, u > runs
          PROVE  files'[q][u].is = "none"
      <4>1. Unmade(u) /\ u # runs
        BY <1>2, <2>1, <3>1 DEF Unmade
      <4>2. files[q][u].is = "none"
        BY <1>1, <4>1 DEF Course
      <4> QED
        BY <2>1, <4>1, <4>2
    <3> QED
      BY <3>1
  <2>3. r < runs /\ files'[p][r] = files[p][r]
    BY <1>2, <2>1, <2>2
  <2>4. CASE s = runs
    <3>1. files[p][r].at <= clock
      BY <1>1, <2>3 DEF CopiesAreMade, Present
    <3> QED
      BY <1>2, <1>3, <2>1, <2>3, <2>4, <3>1
  <2>5. CASE s # runs
    <3>1. files'[q][s] = files[q][s]
      BY <2>1, <2>5
    <3> QED
      BY <1>1, <2>3, <3>1 DEF CopiesInOrder, Present
  <2> QED
    BY <2>4, <2>5
<1>6. CASE ~Deliver
  <2>1. ~Relink
    BY RelinksDaily
  <2>2. PICK t \in Periods : Present(t, r) /\ files'[p][r] = files[t][r]
    BY <1>6, <2>1, CopiesComeFrom
  <2>3. PICK u \in Periods : Present(u, s) /\ files'[q][s] = files[u][s]
    BY <1>6, <2>1, CopiesComeFrom
  <2> QED
    BY <1>1, <2>2, <2>3 DEF CopiesInOrder
<1> QED
  BY <1>5, <1>6

-----------------------------------------------------------------------------
(***************************************************************************)
(* What the listing dooms.                                                 *)
(***************************************************************************)
ObjectOf(p, r) == [run |-> r, at |-> files[p][r].at, day |-> files[p][r].day]
NewerObjects(p, r, on) == {g \in Objects(p, on) : g.at > files[p][r].at}

\* Unsafe rotation leaves room for one copy more.
Spare == IF safe THEN 0 ELSE 1

LEMMA ObjectsAre ==
    ASSUME NEW on, NEW p \in Periods
    PROVE  /\ \A r \in Runs : <<p, r>> \in Listed(on) => ObjectOf(p, r) \in Objects(p, on)
           /\ \A g \in Objects(p, on) : g.run \in Runs /\ <<p, g.run>> \in Listed(on) /\ g = ObjectOf(p, g.run)
<1>1. \A g : g \in Objects(p, on) <=> \E r \in Runs : <<p, r>> \in Listed(on) /\ g = ObjectOf(p, r)
  BY DEF Objects, ObjectOf
<1>2. ASSUME NEW g \in Objects(p, on)
      PROVE  g.run \in Runs /\ <<p, g.run>> \in Listed(on) /\ g = ObjectOf(p, g.run)
  <2>1. PICK r \in Runs : <<p, r>> \in Listed(on) /\ g = ObjectOf(p, r)
    BY <1>1
  <2>2. g.run = r
    BY <2>1 DEF ObjectOf
  <2> QED
    BY <2>1, <2>2
<1> QED
  BY <1>1, <1>2

LEMMA ListedIs ==
    ASSUME NEW on, NEW p \in Periods, NEW r \in Runs
    PROVE  <<p, r>> \in Listed(on) <=> InEffect(rule, p, on[p]) /\ Present(p, r)
BY DEF Listed, IsListed, Names, There, Present

\* Rotation by count: the newer objects of a directory are the copies of later
\* backups that are there.
LEMMA NewerAreLater ==
    ASSUME TypeOK, CopiesAreMade, CopiesInOrder, rule.useCount,
           NEW on, NEW p \in Periods, NEW r \in Runs, InEffect(rule, p, on[p]), Present(p, r)
    PROVE  /\ Cardinality(NewerObjects(p, r, on)) \in Nat
           /\ Cardinality(NewerObjects(p, r, on)) <= Cardinality(Later(p, r))
           /\ \A S \in SUBSET Later(p, r) : (\A q \in S : Present(p, q)) =>
                 Cardinality(S) <= Cardinality(NewerObjects(p, r, on))
<1> DEFINE run == [g \in NewerObjects(p, r, on) |-> g.run]
<1>1. /\ \A q \in Runs : q \in Nat
      /\ \A q \in Periods, s \in Runs : files[q][s].at \in Nat
  BY StateIs
<1>2. ASSUME NEW g \in NewerObjects(p, r, on)
      PROVE  g.run \in Later(p, r) /\ g = ObjectOf(p, g.run)
  <2>1. PICK s \in Runs : <<p, s>> \in Listed(on) /\ g = ObjectOf(p, s)
    BY <1>2, ObjectsAre DEF NewerObjects
  <2>2. g.run = s /\ g.at = files[p][s].at /\ Present(p, s) /\ files[p][s].at > files[p][r].at
    BY <1>2, <2>1, ListedIs DEF ObjectOf, NewerObjects
  <2>3. s # r
    BY <1>1, <2>2
  <2>4. ~(s < r)
    BY <1>1, <2>2 DEF CopiesInOrder
  <2>5. s > r /\ p \in made[s].periods
    BY <1>1, <2>2, <2>3, <2>4 DEF CopiesAreMade
  <2> QED
    BY <2>1, <2>2, <2>5 DEF Later
<1>3. IsFiniteSet(Later(p, r)) /\ Cardinality(Later(p, r)) \in Nat
  BY RunsAreFinite DEF Later
<1>4. run \in Injection(NewerObjects(p, r, on), Later(p, r))
  <2>1. run \in [NewerObjects(p, r, on) -> Later(p, r)]
    BY <1>2
  <2>2. ASSUME NEW g \in NewerObjects(p, r, on), NEW h \in NewerObjects(p, r, on), run[g] = run[h]
        PROVE  g = h
    BY <1>2, <2>2
  <2> QED
    BY <2>1, <2>2 DEF Injection, IsInjective
<1> HIDE DEF run
<1>5. /\ IsFiniteSet(NewerObjects(p, r, on)) /\ Cardinality(NewerObjects(p, r, on)) \in Nat
      /\ Cardinality(NewerObjects(p, r, on)) <= Cardinality(Later(p, r))
  BY <1>3, <1>4, FS_Injection, FS_CardinalityType
<1>6. ASSUME NEW S \in SUBSET Later(p, r), \A q \in S : Present(p, q)
      PROVE  Cardinality(S) <= Cardinality(NewerObjects(p, r, on))
  <2> DEFINE object == [q \in S |-> ObjectOf(p, q)]
  <2>1. ASSUME NEW q \in S
        PROVE  ObjectOf(p, q) \in NewerObjects(p, r, on) /\ ObjectOf(p, q).run = q
    <3>1. q \in Runs /\ q > r /\ Present(p, q)
      BY <1>6 DEF Later
    <3>2. <<p, q>> \in Listed(on)
      BY <3>1, ListedIs
    <3>3. ObjectOf(p, q) \in Objects(p, on)
      BY <3>1, <3>2, ObjectsAre
    <3>4. files[p][q].at > files[p][r].at
      BY <1>1, <3>1 DEF CopiesInOrder
    <3> QED
      BY <3>3, <3>4 DEF NewerObjects, ObjectOf
  <2>2. object \in Injection(S, NewerObjects(p, r, on))
    <3>1. object \in [S -> NewerObjects(p, r, on)]
      BY <2>1
    <3>2. ASSUME NEW q \in S, NEW s \in S, object[q] = object[s]
          PROVE  q = s
      <4>1. ObjectOf(p, q) = ObjectOf(p, s)
        BY <3>2
      <4> QED
        BY <2>1, <4>1
    <3> QED
      BY <3>1, <3>2 DEF Injection, IsInjective
  <2> HIDE DEF object
  <2> QED
    BY <1>5, <2>2, FS_Injection
<1> QED
  BY <1>5, <1>6

\* By count, a listed copy is doomed when there are too many newer ones.
LEMMA DoomedByCount ==
    ASSUME TypeOK, rule.useCount, NEW on, NEW p \in Periods, NEW r \in Runs, <<p, r>> \in Listed(on),
           Cardinality(NewerObjects(p, r, on)) \in Nat
    PROVE  <<p, r>> \in ToDelete(on)
              <=> tar /\ ~(Cardinality(NewerObjects(p, r, on)) + Spare < RetentionCount(rule, p))
<1>1. /\ InEffect(rule, p, on[p]) /\ safe \in BOOLEAN /\ tar \in BOOLEAN
      /\ RetentionCount(rule, p) \in Nat /\ <<p, r>> \in Names
  BY ListedIs, StateIs DEF TypeOK, Names
<1>2. PICK keep \in Int : keep = IF safe THEN RetentionCount(rule, p) ELSE RetentionCount(rule, p) - 1
  BY <1>1
<1>3. RotatedObjects(rule, p, on[p], safe, tar, Objects(p, on))
         = IF tar THEN {f \in Objects(p, on) : Cardinality({g \in Objects(p, on) : g.at > f.at}) >= keep} ELSE {}
  BY <1>1, <1>2 DEF RotatedObjects, Surplus
<1>4. \A o \in Objects(p, on) : o.run = r => o = ObjectOf(p, r)
  BY ObjectsAre
<1>5. ObjectOf(p, r) \in Objects(p, on) /\ ObjectOf(p, r).run = r /\ ObjectOf(p, r).at = files[p][r].at
  BY ObjectsAre DEF ObjectOf
<1>6. <<p, r>> \in ToDelete(on) <=> \E o \in RotatedObjects(rule, p, on[p], safe, tar, Objects(p, on)) : o.run = r
  BY DEF ToDelete
<1>7. <<p, r>> \in ToDelete(on) <=> tar /\ Cardinality(NewerObjects(p, r, on)) >= keep
  BY <1>1, <1>3, <1>4, <1>5, <1>6 DEF NewerObjects
<1>8. keep + Spare = RetentionCount(rule, p) /\ Spare \in {0, 1}
  BY <1>1, <1>2 DEF Spare
<1> QED
  BY <1>1, <1>2, <1>7, <1>8

\* The term of a copy that was born on day b is over on day e.
IsOver(p, b, e) ==
    /\ p = "daily"   => e - b >= rule.days
    /\ p = "weekly"  => Cardinality({d \in Sundays : b < d /\ d <= e}) >= rule.weeks
    /\ p = "monthly" => Cardinality({d \in FirstDays : b < d /\ d <= e}) >= rule.months

\* It stays so.
LEMMA OverStaysOver ==
    ASSUME TypeOK, NEW p \in Periods, NEW b \in Nat, NEW e \in Nat, NEW f \in Nat, e <= f, IsOver(p, b, e)
    PROVE  IsOver(p, b, f)
<1>1. rule.days \in Nat /\ rule.weeks \in Nat /\ rule.months \in Nat
  BY StateIs
<1>2. ASSUME NEW D \in SUBSET Nat, NEW n \in Nat, Cardinality({x \in D : b < x /\ x <= e}) >= n
      PROVE  Cardinality({x \in D : b < x /\ x <= f}) >= n
  <2>1. /\ Cardinality({x \in D : b < x /\ x <= e}) \in Nat /\ Cardinality({x \in D : b < x /\ x <= f}) \in Nat
        /\ Cardinality({x \in D : b < x /\ x <= e}) <= Cardinality({x \in D : b < x /\ x <= f})
    BY MoreDaysPass
  <2> QED
    BY <1>2, <2>1
<1>3. Sundays \in SUBSET Nat /\ FirstDays \in SUBSET Nat
  BY CalendarAssumption
<1>4. CASE p = "daily"
  BY <1>1, <1>4 DEF IsOver
<1>5. CASE p = "weekly"
  BY <1>1, <1>2, <1>3, <1>5 DEF IsOver
<1>6. CASE p = "monthly"
  BY <1>1, <1>2, <1>3, <1>6 DEF IsOver
<1> QED
  BY <1>4, <1>5, <1>6 DEF Periods

LEMMA OverIsNotRunning ==
    ASSUME TypeOK, NEW p \in Periods, NEW b \in Nat, NEW f \in Nat, IsOver(p, b, f), f = today', rule' = rule
    PROVE  ~TermRuns(p, b)'
<1>1. rule.days \in Nat /\ rule.weeks \in Nat /\ rule.months \in Nat
  BY StateIs
<1>2. /\ Cardinality({d \in Sundays : b < d /\ d <= f}) \in Nat
      /\ Cardinality({d \in FirstDays : b < d /\ d <= f}) \in Nat
  <2>1. f <= f /\ Sundays \in SUBSET Nat /\ FirstDays \in SUBSET Nat
    BY CalendarAssumption
  <2> QED
    BY <2>1, MoreDaysPass
<1>3. CASE p = "daily"
  <2>1. ~(f - b < rule.days)
    BY <1>1, <1>3 DEF IsOver
  <2>2. TermRuns(p, b)' = (today' - b < rule'.days)
    BY <1>3 DEF TermRuns
  <2> QED
    BY <2>1, <2>2
<1>4. CASE p = "weekly"
  <2>1. ~(Cardinality({d \in Sundays : b < d /\ d <= f}) < rule.weeks)
    BY <1>1, <1>2, <1>4 DEF IsOver
  <2>2. TermRuns(p, b)' = (Cardinality({d \in Sundays : b < d /\ d <= today'}) < rule'.weeks)
    BY <1>4 DEF TermRuns
  <2> QED
    BY <2>1, <2>2
<1>5. CASE p = "monthly"
  <2>1. ~(Cardinality({d \in FirstDays : b < d /\ d <= f}) < rule.months)
    BY <1>1, <1>2, <1>5 DEF IsOver
  <2>2. TermRuns(p, b)' = (Cardinality({d \in FirstDays : b < d /\ d <= today'}) < rule'.months)
    BY <1>5 DEF TermRuns
  <2> QED
    BY <2>1, <2>2
<1> QED
  BY <1>3, <1>4, <1>5 DEF Periods

\* A file that is outdated was born before the retention date too: a delivery
\* is at most MaxAge days after the end of the dump, and Sundays and firsts of
\* month are farther apart.
LEMMA BornBefore ==
    ASSUME TypeOK, MadeInOrder, NEW p \in Periods, NEW r \in Runs, p \in made[r].periods,
           NEW d \in Nat, made[r].archived <= d,
           NEW e \in Nat \ {0}, InEffect(rule, p, e), d < RetentionDate(rule, p, e)
    PROVE  Born(p, r) \in Nat \ {0} /\ Born(p, r) < RetentionDate(rule, p, e)
<1>1. /\ rule.days \in Nat /\ rule.weeks \in Nat /\ rule.months \in Nat
      /\ made[r].day \in Nat \ {0} /\ made[r].archived \in Nat \ {0}
      /\ made[r].archived <= made[r].day /\ made[r].day - made[r].archived <= 6
      /\ InEffect(rule, p, made[r].day)
  BY StateIs DEF MadeInOrder, DstList, MaxAge
<1>2. PICK a \in Nat \ {0}, b \in Nat \ {0} : a = made[r].archived /\ b = made[r].day /\ a <= b /\ b - a <= 6 /\ a <= d
  BY <1>1
<1>3. CASE p = "daily"
  <2>1. d < e - rule.days + 1 /\ Born(p, r) = a
    BY <1>2, <1>3 DEF RetentionDate, Born
  <2>2. RetentionDate(rule, p, e) = e - rule.days + 1
    BY <1>3 DEF RetentionDate
  <2> QED
    BY <1>1, <1>2, <2>1, <2>2
<1>4. CASE p = "weekly"
  <2>1. RetentionDate(rule, p, e) = e - 7 * rule.weeks + 1 /\ Born(p, r) = b
    BY <1>2, <1>4 DEF RetentionDate, Born
  <2>2. b \in Sundays /\ e \in Sundays /\ rule.weeks > 0
    BY <1>1, <1>2, <1>4 DEF InEffect, RetentionCount
  <2>3. b \in 1 .. e
    BY <1>1, <1>2, <2>1, <2>2
  <2>4. (e - b) % 7 = 0
    BY <2>2, <2>3, SundayAssumption
  <2>5. e - b >= 7 * rule.weeks - 6
    BY <1>1, <1>2, <2>1
  <2>6. e - b >= 7 * rule.weeks
    BY <1>1, <2>3, <2>4, <2>5
  <2> QED
    BY <1>1, <2>1, <2>6
<1>5. CASE p = "monthly"
  <2>1. RetentionDate(rule, p, e) = MonthsBack(e, rule.months) + 1 /\ Born(p, r) = b
    BY <1>2, <1>5 DEF RetentionDate, Born
  <2>2. PICK m \in Nat : m = MonthsBack(e, rule.months) /\ (m = 0 \/ m \in FirstDays)
    BY <1>1, MonthsBackIs, CalendarAssumption
  <2>3. d <= m /\ m \in FirstDays
    BY <1>2, <2>1, <2>2
  <2>4. b \in FirstDays
    BY <1>1, <1>2, <1>5 DEF InEffect
  <2>5. m < b => b - m > 6
    BY <2>3, <2>4, MonthAssumption DEF MaxAge
  <2> QED
    BY <1>2, <2>1, <2>2, <2>3, <2>5
<1> QED
  BY <1>3, <1>4, <1>5 DEF Periods

\* What the listing dooms is surplus, or its term is over.
LEMMA ListingIsRight ==
    ASSUME WantedInv, NEW on, NEW p \in Periods, NEW r \in Runs, on[p] \in Nat \ {0}, <<p, r>> \in ToDelete(on)
    PROVE  /\ tar /\ p \in made[r].periods /\ InEffect(rule, p, on[p]) /\ Present(p, r) /\ Born(p, r) \in Nat
           /\ rule.useCount => ~(Cardinality(Later(p, r)) + Spare < RetentionCount(rule, p))
           /\ ~rule.useCount => IsOver(p, Born(p, r), on[p])
<1>1. TypeOK /\ CopiesAreMade /\ CopiesInOrder /\ MadeInOrder /\ rule \in Rules
  BY StateIs DEF WantedInv, LinkInv, Base
<1>2. <<p, r>> \in Listed(on) /\ InEffect(rule, p, on[p]) /\ Present(p, r)
  BY ListedIs DEF ToDelete
<1>3. p \in made[r].periods /\ made[r].archived <= files[p][r].day
  BY <1>1, <1>2 DEF CopiesAreMade
<1>4. PICK o \in RotatedObjects(rule, p, on[p], safe, tar, Objects(p, on)) : o.run = r
  BY DEF ToDelete
<1>5. tar
  BY <1>4 DEF RotatedObjects
<1>6. ASSUME rule.useCount
      PROVE  ~(Cardinality(Later(p, r)) + Spare < RetentionCount(rule, p))
  <2>1. /\ Cardinality(NewerObjects(p, r, on)) \in Nat
        /\ Cardinality(NewerObjects(p, r, on)) <= Cardinality(Later(p, r))
    BY <1>1, <1>2, <1>6, NewerAreLater
  <2>2. ~(Cardinality(NewerObjects(p, r, on)) + Spare < RetentionCount(rule, p))
    BY <1>1, <1>2, <1>6, <2>1, DoomedByCount
  <2>3. Cardinality(Later(p, r)) \in Nat /\ Spare \in {0, 1} /\ RetentionCount(rule, p) \in Nat
    BY <1>1, RunsAreFinite, StateIs DEF Later, Spare
  <2> QED
    BY <2>1, <2>2, <2>3
<1>7. ASSUME ~rule.useCount
      PROVE  IsOver(p, Born(p, r), on[p])
  <2>1. o \in Objects(p, on) /\ Outdated(rule, p, on[p], o.day)
    BY <1>2, <1>4, <1>5, <1>7 DEF RotatedObjects
  <2>2. o = ObjectOf(p, r)
    BY <1>4, <2>1, ObjectsAre
  <2>3. files[p][r].day < RetentionDate(rule, p, on[p]) /\ files[p][r].day \in Nat
    BY <1>1, <2>1, <2>2, StateIs DEF Outdated, ObjectOf
  <2>4. PICK e \in Nat \ {0} : e = on[p]
    OBVIOUS
  <2>5. PICK b \in Nat \ {0} : b = Born(p, r) /\ b < RetentionDate(rule, p, e)
    BY <1>1, <1>2, <1>3, <2>3, <2>4, BornBefore
  <2>6. /\ p = "daily"   => e - b >= rule.days
        /\ p = "weekly"  => Cardinality({d \in Sundays : b < d /\ d <= e}) >= rule.weeks
        /\ p = "monthly" => Cardinality({d \in FirstDays : b < d /\ d <= e}) >= rule.months
    <3>1. (p = "weekly" => e \in Sundays) /\ (p = "monthly" => e \in FirstDays)
      BY <1>2, <2>4 DEF InEffect
    <3> QED
      BY <1>1, <2>5, <3>1, TermIsOver
  <2> QED
    BY <2>4, <2>5, <2>6 DEF IsOver
<1>8. Born(p, r) \in Nat
  BY <1>1, StateIs
<1> QED
  BY <1>2, <1>3, <1>5, <1>6, <1>7, <1>8

\* The rotation's room is the room that is left by the end of the listing.
LEMMA RoomIsSpare ==
    ASSUME Base, ListFiles, NEW on \in Readings, today' = on["daily"], NEW p \in Periods, InEffect(rule, p, on[p])
    PROVE  Room(p)' = Spare
<1>1. /\ rule' = rule /\ safe' = safe /\ safe \in BOOLEAN /\ pc' = "next"
      /\ late' = (late \/ today' # today) /\ late \in BOOLEAN
  BY ListFilesNotes DEF ListFiles, setup, Base, TypeOK
<1>2. today <= on[p] /\ on[p] <= today' /\ today \in Nat /\ on[p] \in Nat
  BY ReadingsAre, LocalAssumption DEF Base, TypeOK
<1>3. Room(p)' = IF ~safe /\ (late' \/ InEffect(rule, p, today')) THEN 1 ELSE 0
  BY <1>1 DEF Room
<1>4. CASE today' = today
  <2>1. on[p] = today'
    BY <1>2, <1>4
  <2> QED
    BY <1>1, <1>3, <2>1 DEF Spare
<1>5. CASE today' # today
  BY <1>1, <1>3, <1>5 DEF Spare
<1> QED
  BY <1>4, <1>5

\* What the listing dooms is not needed, not even when it is over.
LEMMA DoomedIsDone ==
    ASSUME WantedInv, ListFiles, NEW p \in Periods, NEW r \in Runs, <<p, r>> \in doomed'
    PROVE  p \in made[r].periods /\ ~Needed(p, r)'
<1>1. TypeOK /\ Base
  BY DEF WantedInv, LinkInv, Base
<1>2. PICK on \in Readings : doomed' = ToDelete(on) /\ today' = on["daily"]
  BY ListFilesReads
<1>3. /\ on[p] \in Nat \ {0} /\ today' \in Nat /\ on[p] <= today'
  BY <1>1, <1>2, ReadingsAre, LocalAssumption DEF Periods
<1>4. /\ p \in made[r].periods /\ InEffect(rule, p, on[p]) /\ Born(p, r) \in Nat
      /\ rule.useCount => ~(Cardinality(Later(p, r)) + Spare < RetentionCount(rule, p))
      /\ ~rule.useCount => IsOver(p, Born(p, r), on[p])
  BY <1>2, <1>3, ListingIsRight
<1>5. rule' = rule /\ made' = made /\ rule.useCount \in BOOLEAN
  BY <1>1, StateIs DEF ListFiles, setup
<1>6. CASE rule.useCount
  <2>1. Later(p, r)' = Later(p, r) /\ Room(p)' = Spare
    BY <1>1, <1>2, <1>4, <1>5, RoomIsSpare DEF Later
  <2> QED
    BY <1>4, <1>5, <1>6, <2>1 DEF Needed
<1>7. CASE ~rule.useCount
  <2>1. PICK b \in Nat, e \in Nat, f \in Nat : b = Born(p, r) /\ e = on[p] /\ f = today' /\ e <= f
    BY <1>3, <1>4
  <2>2. IsOver(p, b, f)
    BY <1>1, <1>4, <1>7, <2>1, OverStaysOver
  <2>3. ~TermRuns(p, b)'
    BY <1>1, <1>5, <2>1, <2>2, OverIsNotRunning
  <2>4. Born(p, r)' = b
    BY <1>5, <2>1 DEF Born
  <2> QED
    BY <1>4, <1>5, <1>7, <2>3, <2>4 DEF Needed, TermRuns
<1> QED
  BY <1>5, <1>6, <1>7, <1>4

\* By count, after a backup of both a later monthly copy has a weekly one.
LEMMA LaterWeeklies ==
    ASSUME WeeksFit, TypeOK, MadeInOrder, rule.useCount, NEW r \in Runs,
           "monthly" \in made[r].periods, "weekly" \in made[r].periods
    PROVE  /\ rule.weeks <= rule.months
           /\ Cardinality(Later("monthly", r)) \in Nat /\ Cardinality(Later("weekly", r)) \in Nat
           /\ Cardinality(Later("monthly", r)) <= Cardinality(Later("weekly", r))
           /\ \A g \in Unmatched : made[r].day < g => LastDay < g
<1>1. /\ rule \in RuleChoices /\ today <= LastDay /\ today \in Nat /\ LastDay \in Nat
      /\ \A q \in Runs : q \in Nat /\ made[q].day \in Nat
  BY StateIs, LocalAssumption
<1>2. /\ made[r].periods = DstList(rule, made[r].day)
      /\ InEffect(rule, "monthly", made[r].day) /\ InEffect(rule, "weekly", made[r].day)
  BY DEF MadeInOrder, DstList
<1>3. rule.weeks > 0 /\ rule.months > 0 /\ made[r].day \in FirstDays \cap Sundays
  BY <1>2 DEF InEffect, RetentionCount
<1>4. /\ rule.weeks <= rule.months
      /\ \A g \in Unmatched : made[r].day < g => LastDay < g
  BY <1>1, <1>3 DEF WeeksFit
<1>5. ASSUME NEW q \in Later("monthly", r)
      PROVE  q \in Later("weekly", r)
  <2>1. q \in Runs /\ q > r /\ "monthly" \in made[q].periods
    BY DEF Later
  <2>2. /\ made[q].periods = DstList(rule, made[q].day)
        /\ made[r].day <= made[q].day /\ made[q].day <= today
    BY <1>1, <2>1 DEF MadeInOrder
  <2>3. made[q].day \in FirstDays
    BY <2>1, <2>2 DEF DstList, InEffect
  <2>4. CASE made[q].day = made[r].day
    BY <1>2, <2>1, <2>2, <2>4 DEF Later
  <2>5. CASE made[q].day # made[r].day
    <3>1. made[r].day < made[q].day /\ ~(LastDay < made[q].day)
      BY <1>1, <2>1, <2>2, <2>5
    <3>2. made[q].day \in Sundays
      BY <1>4, <2>3, <3>1 DEF Unmatched
    <3>3. "weekly" \in DstList(rule, made[q].day)
      BY <1>3, <3>2 DEF DstList, InEffect, RetentionCount, Periods
    <3> QED
      BY <2>1, <2>2, <3>3 DEF Later
  <2> QED
    BY <2>4, <2>5
<1>6. Later("monthly", r) \in SUBSET Runs /\ Later("weekly", r) \in SUBSET Runs
  BY DEF Later
<1>7. /\ IsFiniteSet(Later("weekly", r)) /\ Cardinality(Later("weekly", r)) \in Nat
      /\ Cardinality(Later("monthly", r)) \in Nat
  BY <1>6, RunsAreFinite
<1>8. Cardinality(Later("monthly", r)) <= Cardinality(Later("weekly", r))
  BY <1>5, <1>7, FS_Subset
<1> QED
  BY <1>4, <1>7, <1>8

\* By count, when a backup's monthly file is doomed there are enough later
\* weekly copies.
LEMMA WeeklyIsDoomedToo ==
    ASSUME WeeksFit, WantedInv, rule.useCount, NEW r \in Runs, NEW on, on["monthly"] \in Nat \ {0},
           <<"monthly", r>> \in ToDelete(on), <<"weekly", r>> \in Listed(on)
    PROVE  <<"weekly", r>> \in ToDelete(on)
<1>1. TypeOK /\ CopiesAreMade /\ CopiesInOrder /\ MadeInOrder /\ NeededAreReadable
  BY DEF WantedInv, LinkInv, Base
<1>2. "monthly" \in Periods /\ "weekly" \in Periods
  BY DEF Periods
<1>3. InEffect(rule, "weekly", on["weekly"]) /\ Present("weekly", r)
  BY <1>2, ListedIs
<1>4. /\ tar /\ "monthly" \in made[r].periods /\ "weekly" \in made[r].periods
      /\ ~(Cardinality(Later("monthly", r)) + Spare < rule.months)
  BY <1>1, <1>2, <1>3, ListingIsRight DEF CopiesAreMade, RetentionCount
<1>5. /\ rule.weeks \in Nat /\ rule.months \in Nat
      /\ \A q \in Runs : q \in Nat
  BY <1>1, StateIs
<1>7. Spare \in {0, 1} /\ Room("weekly") \in {0, 1} /\ Room("weekly") <= Spare
  BY DEF Spare, Room
<1>8. \A p \in Periods, q \in Runs : Later(p, q) \in SUBSET Runs /\ Cardinality(Later(p, q)) \in Nat
  BY RunsAreFinite DEF Later
<1>11. ~(Cardinality(Later("weekly", r)) + Spare < rule.weeks)
  <2>1. /\ rule.weeks <= rule.months /\ Cardinality(Later("monthly", r)) <= Cardinality(Later("weekly", r))
        /\ Cardinality(Later("monthly", r)) \in Nat /\ Cardinality(Later("weekly", r)) \in Nat
    BY <1>1, <1>4, LaterWeeklies
  <2> QED
    BY <1>4, <1>5, <1>7, <2>1
<1>12. /\ Cardinality(NewerObjects("weekly", r, on)) \in Nat
       /\ \A S \in SUBSET Later("weekly", r) : (\A q \in S : Present("weekly", q)) =>
              Cardinality(S) <= Cardinality(NewerObjects("weekly", r, on))
  BY <1>1, <1>2, <1>3, NewerAreLater
<1>13. ASSUME Cardinality(NewerObjects("weekly", r, on)) + Spare < rule.weeks
       PROVE  FALSE
  <2> DEFINE gone == {q \in Later("weekly", r) : ~Present("weekly", q)}
  <2>1. CASE gone = {}
    <3>1. \A q \in Later("weekly", r) : Present("weekly", q)
      BY <2>1
    <3>2. Cardinality(Later("weekly", r)) <= Cardinality(NewerObjects("weekly", r, on))
      BY <1>12, <3>1
    <3> QED
      BY <1>2, <1>5, <1>7, <1>8, <1>11, <1>12, <1>13, <3>2
  <2>2. CASE gone # {}
    <3>1. gone \in SUBSET Nat /\ MaxRuns \in Nat /\ \A q \in gone : q <= MaxRuns
      BY LocalAssumption DEF Later, Runs
    <3>2. PICK q \in gone : \A s \in gone : s <= q
      BY <2>2, <3>1, GreatestExists
    <3>3. q \in Runs /\ q > r /\ "weekly" \in made[q].periods /\ ~Present("weekly", q)
      BY <3>2 DEF Later
    <3>4. ASSUME NEW s \in Later("weekly", q)
          PROVE  s \in Later("weekly", r) /\ Present("weekly", s)
      <4>1. s \in Runs /\ s > q /\ "weekly" \in made[s].periods
        BY <3>4 DEF Later
      <4>2. s > r /\ ~(s <= q)
        BY <1>5, <3>3, <4>1
      <4>3. s \in Later("weekly", r)
        BY <4>1, <4>2 DEF Later
      <4> QED
        BY <3>2, <4>2, <4>3
    <3>5. Cardinality(Later("weekly", q)) <= Cardinality(NewerObjects("weekly", r, on))
      BY <1>12, <3>4
    <3>6. Cardinality(Later("weekly", q)) + Spare < rule.weeks
      BY <1>2, <1>5, <1>7, <1>8, <1>12, <1>13, <3>3, <3>5
    <3>7. Needed("weekly", q)
      <4>1. Cardinality(Later("weekly", q)) + Room("weekly") < rule.weeks
        BY <1>2, <1>5, <1>7, <1>8, <3>3, <3>6
      <4>2. RetentionCount(rule, "weekly") = rule.weeks
        BY DEF RetentionCount
      <4> QED
        BY <3>3, <4>1, <4>2 DEF Needed
    <3>8. Readable("weekly", q)
      BY <1>1, <1>2, <3>3, <3>7 DEF NeededAreReadable
    <3> QED
      BY <3>3, <3>8 DEF Readable, Present
  <2> QED
    BY <2>1, <2>2
<1> QED
  BY <1>1, <1>2, <1>4, <1>12, <1>13, DoomedByCount DEF RetentionCount

\* When a file is doomed while a later directory is not listed, its link there
\* need not be read any more.
LEMMA UnlistedIsDone ==
    ASSUME WeeksFit, WantedInv, ListFiles, NEW top \in Periods, NEW r \in Runs, <<top, r>> \in doomed',
           NEW p \in Periods, p \notin listed', Before(top, p)
    PROVE  ~Needed(p, r)'
<1>1. TypeOK /\ Base /\ MadeInOrder
  BY DEF WantedInv, LinkInv, Base
<1>2. PICK on \in Readings :
         /\ doomed' = ToDelete(on) /\ listed' = {q \in Periods : InEffect(rule, q, on[q])} /\ today' = on["daily"]
  BY ListFilesReads
<1>3. \A q \in Periods : on[q] \in Nat \ {0} /\ today <= on[q] /\ on[q] <= today' /\ (on[q] # today => LateRuns)
  BY <1>1, <1>2, ReadingsAre, LocalAssumption
<1>4. /\ top \in made[r].periods /\ InEffect(rule, top, on[top]) /\ Born(top, r) \in Nat
      /\ rule.useCount => ~(Cardinality(Later(top, r)) + Spare < RetentionCount(rule, top))
      /\ ~rule.useCount => IsOver(top, Born(top, r), on[top])
  BY <1>2, <1>3, ListingIsRight
<1>5. rule' = rule /\ made' = made /\ rule.useCount \in BOOLEAN
  BY <1>1, StateIs DEF ListFiles, setup
<1> SUFFICES ASSUME p \in made[r].periods
             PROVE  ~Needed(p, r)'
  BY <1>5 DEF Needed
<1>6. PICK day \in Nat \ {0} : /\ day = made[r].day /\ day <= today
                               /\ InEffect(rule, p, day) /\ InEffect(rule, top, day)
  <2>1. made[r].day \in Nat \ {0} /\ made[r].day <= today /\ made[r].periods = DstList(rule, made[r].day)
    BY <1>1, StateIs DEF MadeInOrder
  <2> QED
    BY <1>4, <2>1 DEF DstList
<1>7. ~InEffect(rule, p, on[p])
  BY <1>2
<1>8. p = "weekly" /\ top = "monthly"
  BY <1>6, <1>7 DEF InEffect, Before, Periods
<1>9. PICK g \in Nat \ {0}, e \in Nat \ {0}, f \in Nat :
         /\ g = on["monthly"] /\ e = on["weekly"] /\ f = today' /\ g <= f /\ f <= LastDay /\ day <= g
         /\ g = e \/ LateRuns
  <2>1. today' <= LastDay /\ today' \in Nat /\ today \in Nat
    BY <1>1, ListFilesNotes, LocalAssumption DEF TypeOK
  <2>2. on["monthly"] \in Nat \ {0} /\ on["weekly"] \in Nat \ {0} /\ today <= on["monthly"] /\ on["monthly"] <= today'
    BY <1>3 DEF Periods
  <2>3. on["monthly"] = on["weekly"] \/ LateRuns
    BY <1>3 DEF Periods
  <2> QED
    BY <1>6, <2>1, <2>2, <2>3
<1>10. /\ rule.weeks > 0 /\ rule.months > 0 /\ rule.weeks \in Nat /\ rule.months \in Nat
       /\ day \in FirstDays \cap Sundays /\ g \in FirstDays /\ e \notin Sundays /\ rule \in RuleChoices
  BY <1>1, <1>4, <1>6, <1>7, <1>8, <1>9, StateIs DEF InEffect, RetentionCount
<1>11. g \in Unmatched
  BY <1>9, <1>10 DEF Unmatched
<1>12. CASE rule.useCount
  <2>1. /\ rule.weeks <= rule.months /\ Cardinality(Later("monthly", r)) <= Cardinality(Later("weekly", r))
        /\ Cardinality(Later("monthly", r)) \in Nat /\ Cardinality(Later("weekly", r)) \in Nat
        /\ \A h \in Unmatched : made[r].day < h => LastDay < h
    BY <1>1, <1>4, <1>8, <1>12, LaterWeeklies
  <2>2. LastDay \in Nat
    BY LocalAssumption
  <2>3. day = g
    BY <1>6, <1>9, <1>11, <2>1, <2>2
  <2>4. today' # today
    <3>1. g # e
      BY <1>10, <2>3
    <3> QED
      BY <1>3, <1>9, <3>1 DEF Periods
  <2>5. Room("weekly")' = Spare
    <3>1. safe' = safe /\ late'
      BY <1>1, <2>4, ListFilesNotes DEF ListFiles, setup
    <3> QED
      BY <3>1 DEF Room, Spare
  <2>6. ~(Cardinality(Later("weekly", r)) + Spare < rule.weeks)
    BY <1>4, <1>8, <1>10, <1>12, <2>1 DEF Spare, RetentionCount
  <2>7. Later("weekly", r)' = Later("weekly", r)
    BY <1>5 DEF Later
  <2> QED
    BY <1>5, <1>8, <1>12, <2>5, <2>6, <2>7 DEF Needed, RetentionCount
<1>13. CASE ~rule.useCount
  <2>1. Born("monthly", r) = day /\ Born("weekly", r) = day
    BY <1>6 DEF Born
  <2>2. Cardinality({d \in FirstDays : day < d /\ d <= g}) >= rule.months
    BY <1>4, <1>8, <1>9, <1>13, <2>1 DEF IsOver
  <2>3. day < g
    <3>1. ASSUME day = g
          PROVE  FALSE
      <4>1. \A d \in FirstDays : ~(day < d /\ d <= g)
        BY <3>1, CalendarAssumption
      <4>2. {d \in FirstDays : day < d /\ d <= g} = {}
        BY <4>1
      <4> QED
        BY <1>10, <2>2, <4>2, FS_EmptySet
    <3> QED
      BY <1>9, <3>1
  <2>4. Cardinality({d \in Sundays : day < d /\ d <= g}) >= rule.weeks
    <3>1. g <= LastDay
      BY <1>9, LocalAssumption
    <3> QED
      BY <1>10, <1>11, <1>13, <2>2, <2>3, <3>1 DEF WeeksFit
  <2>5. IsOver("weekly", day, g)
    BY <2>4 DEF IsOver
  <2>6. IsOver("weekly", day, f)
    BY <1>1, <1>9, <2>5, OverStaysOver DEF Periods
  <2>7. ~TermRuns("weekly", day)'
    BY <1>1, <1>5, <1>9, <2>6, OverIsNotRunning DEF Periods
  <2>8. Born("weekly", r)' = day
    BY <1>5, <2>1 DEF Born
  <2> QED
    BY <1>5, <1>8, <1>13, <2>7, <2>8 DEF Needed, TermRuns
<1> QED
  BY <1>5, <1>12, <1>13

-----------------------------------------------------------------------------
(***************************************************************************)
(* Every step keeps it.                                                    *)
(***************************************************************************)
LEMMA NothingUnread ==
    ASSUME WantedInv, [Next]_vars, ~Fault
    PROVE  unread' = {}
<1>1. CASE ListFiles
  BY <1>1, ListFilesNotes DEF WantedInv, LinkInv
<1>2. CASE ~ListFiles
  <2>1. InLoop' => unread' = unread
    BY <1>2, LoopGoesOn DEF WantedInv, LinkInv
  <2>2. ~InLoop' => unread' = {}
    BY CourseNext DEF WantedInv, LinkInv, Course
  <2> QED
    BY <2>1, <2>2 DEF WantedInv
<1> QED
  BY <1>1, <1>2

LEMMA DoomedAreDoneNext ==
    ASSUME WantedInv, [Next]_vars, ~Fault
    PROVE  DoomedAreDone'
<1>1. TypeOK /\ Course /\ Base /\ DoomedAreDone /\ Base'
  BY BaseNext DEF WantedInv, LinkInv, Base
<1> SUFFICES ASSUME NEW p \in Periods, NEW r \in Runs, <<p, r>> \in doomed'
             PROVE  p \in made'[r].periods /\ ~Needed(p, r)'
  <2>1. \A n \in doomed' : \E p \in Periods, r \in Runs : n = <<p, r>>
    BY <1>1 DEF Base, TypeOK, Names
  <2>2. \A p \in Periods, r \in Runs : <<p, r>> \in doomed' => p \in made'[r].periods /\ ~Needed(p, r)'
    OBVIOUS
  <2>3. ASSUME NEW n \in doomed'
        PROVE  n[1] \in made'[n[2]].periods /\ ~Needed(n[1], n[2])'
    <3>1. PICK p \in Periods, r \in Runs : n = <<p, r>>
      BY <2>1, <2>3
    <3> QED
      BY <2>2, <2>3, <3>1
  <2> QED
    BY <2>3 DEF DoomedAreDone
<1>2. InLoop' /\ ~Deliver
  <2>1. InLoop'
    BY <1>1 DEF Base, Course
  <2> QED
    BY <2>1 DEF InLoop, Deliver, AfterBackup
<1>3. made' = made
  BY <1>1, <1>2, OtherStepsWantTheSame
<1>4. CASE ListFiles
  BY <1>3, <1>4, DoomedIsDone
<1>5. CASE ~ListFiles
  <2>1. <<p, r>> \in doomed
    BY <1>1, <1>2, <1>5, LoopGoesOn
  <2>2. p \in made[r].periods /\ ~Needed(p, r)
    BY <1>1, <2>1 DEF DoomedAreDone
  <2>3. ~Needed(p, r)'
    BY <1>1, <1>2, <2>2, NeededWas
  <2> QED
    BY <1>3, <2>2, <2>3
<1> QED
  BY <1>4, <1>5

LEMMA UnlistedAreDoneNext ==
    ASSUME WeeksFit, WantedInv, [Next]_vars, ~Fault
    PROVE  UnlistedAreDone'
<1>1. TypeOK /\ Course /\ Base /\ UnlistedAreDone /\ Base'
  BY BaseNext DEF WantedInv, LinkInv, Base
<1>2. ASSUME NEW top \in Periods, NEW r \in Runs, <<top, r>> \in doomed',
             NEW p \in Periods, p \notin listed', Before(top, p)
      PROVE  ~Needed(p, r)'
  <2>1. InLoop' /\ ~Deliver
    <3>1. InLoop'
      BY <1>1, <1>2 DEF Base, Course
    <3> QED
      BY <3>1 DEF InLoop, Deliver, AfterBackup
  <2>2. CASE ListFiles
    BY <1>2, <2>2, UnlistedIsDone
  <2>3. CASE ~ListFiles
    <3>1. <<top, r>> \in doomed /\ p \notin listed
      BY <1>1, <1>2, <2>1, <2>3, LoopGoesOn
    <3>2. ~Needed(p, r)
      BY <1>1, <1>2, <3>1 DEF UnlistedAreDone
    <3> QED
      BY <1>1, <2>1, <3>2, NeededWas
  <2> QED
    BY <2>2, <2>3
<1>3. ASSUME NEW n \in doomed', NEW p \in Periods, p \notin listed', Before(n[1], p)
      PROVE  ~Needed(p, n[2])'
  <2>1. PICK top \in Periods, r \in Runs : n = <<top, r>>
    BY <1>1, <1>3 DEF Base, TypeOK, Names
  <2>2. ~Needed(p, r)'
    BY <1>2, <1>3, <2>1
  <2>3. Needed(p, n[2])' <=> Needed(p, r)'
    BY <2>1
  <2> QED
    BY <2>2, <2>3
<1> QED
  BY <1>3 DEF UnlistedAreDone

LEMMA LinksWaitNext ==
    ASSUME WantedInv, [Next]_vars, ~Fault, LinkInv'
    PROVE  LinksWait'
<1> USE DEF loop
<1>1. TypeOK /\ Course /\ LinksLeadBack /\ Base /\ LinksWait /\ KeptForLinks
  BY DEF WantedInv, LinkInv, Base
<1>2. CopiesAreMade'
  BY CopiesAreMadeNext
<1> SUFFICES ASSUME NEW x \in linked', Awaited(x)'
             PROVE  /\ <<x[3], x[2]>> \notin doomed' => files'[x[3]][x[2]].is = "link"
                    /\ \/ files'[x[1]][x[2]].is = "archive"
                       \/ AtFile' /\ moved' /\ cur' = <<x[1], x[2]>>
  BY DEF LinksWait
<1>3. PICK q \in Periods, r \in Runs, p \in Periods : x = <<q, r, p>> /\ q # "daily"
  <2>1. linked' \subseteq Periods \X Runs \X {"weekly", "daily"}
    BY DEF LinkInv, Base, TypeOK
  <2>2. Before(x[1], x[3])
    BY DEF LinkInv, Base, LinksLeadBack
  <2> QED
    BY <2>1, <2>2 DEF Periods, Before
<1>4. /\ files'[q][r].is # "link"
      /\ files'[p][r].is \in {"link", "none"}
      /\ files'[q][r].is # "none" => files'[q][r].is = "archive"
  <2>1. files'[q][r].is # "link"
    BY <1>3 DEF LinkInv, LinksLeadToFiles
  <2>2. files'[p][r].is \in {"link", "none"}
    BY <1>3 DEF LinkInv, LinksStayLinks
  <2>3. files'[q][r].is # "none" => files'[q][r].is \in {"archive", "link"}
    BY <1>2 DEF CopiesAreMade, Present
  <2> QED
    BY <2>1, <2>2, <2>3
<1>5. CASE ListFiles
  <2>1. <<p, r>> \in SeenLinks /\ <<q, r>> \in Seen /\ files' = files
    BY <1>1, <1>3, <1>5, ListFilesNotes DEF ListFiles
  <2>2. files'[p][r].is = "link" /\ files'[q][r].is # "none"
    BY <2>1 DEF SeenLinks, Seen, There
  <2> QED
    BY <1>3, <1>4, <2>2
<1>6. CASE ~ListFiles
  <2>1. InLoop'
    <3>1. linked' # {}
      OBVIOUS
    <3> QED
      BY <3>1 DEF LinkInv, Base, Course
  <2>2. InLoop /\ doomed' = doomed /\ x \in linked /\ Awaited(x)
    BY <1>1, <1>6, <2>1, LoopGoesOn
  <2>3. /\ <<p, r>> \notin doomed => files[p][r].is = "link"
        /\ files[q][r].is = "archive" \/ (AtFile /\ moved /\ cur = <<q, r>>)
    BY <1>1, <1>3, <2>2 DEF LinksWait
  <2>4. <<p, r>> \notin doomed => files'[p][r].is = "link"
    <3>1. ASSUME <<p, r>> \notin doomed, files'[p][r].is = "none"
          PROVE  FALSE
      BY <2>3, <3>1, OnlyDoomedGo DEF Present
    <3> QED
      BY <1>4, <3>1
  <2>5. ASSUME AtFile, cur = <<q, r>>, moved \/ files'[q][r].is # files[q][r].is
        PROVE  AtFile' /\ moved' /\ cur' = <<q, r>>
    <3>1. <<q, r>> \notin left
      BY <1>1, <2>5 DEF Course
    <3>2. CASE Midnight \/ UNCHANGED vars
      <4>1. files' = files /\ pc' = pc /\ moved' = moved /\ cur' = cur
        BY <3>2 DEF Midnight, vars
      <4> QED
        BY <2>5, <4>1 DEF AtFile
    <3>3. CASE MoveToWeekly
      <4>1. ~moved
        BY <1>1, <3>3, MoveToWeeklyDoes DEF KeptForLinks
      <4>2. HasKeptLink(WeeklyLink) /\ cur' = cur
        BY <1>1, <2>5, <3>3, <4>1, MoveToWeeklyDoes
      <4>3. Moved("weekly") /\ pc' = "relink"
        BY <3>3, <4>2, MovesToWeekly
      <4> QED
        BY <2>5, <4>2, <4>3 DEF Moved, AtFile
    <3>4. CASE Relink
      <4>1. pc' = "daily" /\ UNCHANGED loop
        BY <1>1, <2>1, <3>4, RelinkDoes DEF BreakLoop, AfterRotation, InLoop
      <4>2. moved
        BY <3>4, RelinksDaily
      <4> QED
        BY <2>5, <4>1, <4>2 DEF AtFile
    <3>5. CASE MoveToDaily
      <4>1. pc' = "remove" /\ left' = left
        BY <1>1, <3>5, MoveToDailyDoes
      <4> QED
        BY <1>3, <3>1, <4>1 DEF Awaited
    <3>6. CASE RemoveFile
      <4>1. pc' = "next" /\ left' = left
        BY <1>1, <3>6, RemoveFileDoes
      <4> QED
        BY <1>3, <3>1, <4>1 DEF Awaited
    <3>7. ~(StartRun \/ Dump \/ Deliver \/ DumpFails \/ ListingFails \/ NextFile \/ RotationDone \/ Killed)
      BY <2>1, <2>5 DEF StartRun, Dump, Deliver, DumpFails, ListingFails, NextFile, RotationDone, Killed,
                        AtFile, InLoop
    <3> QED
      BY <1>6, <3>2, <3>3, <3>4, <3>5, <3>6, <3>7 DEF Next
  <2>6. ASSUME files'[q][r].is = "none"
        PROVE  AtFile' /\ moved' /\ cur' = <<q, r>>
    <3>1. CASE files[q][r].is = "archive"
      <4>1. AtFile /\ cur = <<q, r>>
        BY <2>6, <3>1, OnlyDoomedGo DEF Present
      <4> QED
        BY <2>5, <2>6, <3>1, <4>1
    <3> QED
      BY <2>3, <2>5, <3>1
  <2> QED
    BY <1>3, <1>4, <2>2, <2>4, <2>6
<1> QED
  BY <1>5, <1>6

LEMMA WeeklyGoesTooNext ==
    ASSUME WeeksFit, WantedInv, [Next]_vars, ~Fault
    PROVE  WeeklyGoesToo'
<1>1. CASE ListFiles
  <2>1. PICK on \in Readings : Listed(on) = Seen /\ doomed' = ToDelete(on)
    BY <1>1, ListFilesReads
  <2>2. rule' = rule /\ on["monthly"] \in Nat \ {0}
    BY <1>1, ReadingsAre, LocalAssumption DEF ListFiles, setup, WantedInv, LinkInv, Base, Periods
  <2>3. \A r \in Runs : <<"monthly", r, "weekly">> \in linked' => <<"weekly", r>> \in Listed(on)
    BY <1>1, <2>1, ListFilesNotes DEF WantedInv, LinkInv, Periods, SeenLinks
  <2> QED
    BY <2>1, <2>2, <2>3, WeeklyIsDoomedToo DEF WeeklyGoesToo
<1>2. CASE ~ListFiles
  <2>1. CASE InLoop'
    <3>1. UNCHANGED <<rule, linked, doomed>>
      BY <1>2, <2>1, LoopGoesOn DEF WantedInv, LinkInv
    <3> QED
      BY <3>1 DEF WantedInv, WeeklyGoesToo
  <2>2. CASE ~InLoop'
    <3>1. linked' = {}
      BY <2>2, CourseNext DEF WantedInv, LinkInv, Course
    <3> QED
      BY <3>1 DEF WeeklyGoesToo
  <2> QED
    BY <2>1, <2>2
<1> QED
  BY <1>1, <1>2

LEMMA FileIsMovedNext ==
    ASSUME WantedInv, [Next]_vars, ~Fault
    PROVE  FileIsMoved'
<1> USE DEF loop
<1>1. TypeOK /\ Course /\ LinksLeadBack /\ KeptForLinks /\ FileIsMoved
  BY DEF WantedInv, LinkInv, Base
<1>2. UNCHANGED <<cur, linked, doomed>> => HasKeptLink(WeeklyLink)' = HasKeptLink(WeeklyLink)
  BY DEF HasKeptLink, HasLink, WeeklyLink
<1>3. CASE MoveToWeekly
  <2>1. /\ HasKeptLink(WeeklyLink)' = HasKeptLink(WeeklyLink) /\ cur' = cur /\ ~moved /\ cur[2] \in Runs
    BY <1>1, <1>2, <1>3, CurIsName, MoveToWeeklyDoes DEF KeptForLinks, AtFile
  <2>2. CASE HasKeptLink(WeeklyLink)
    <3>1. Moved("weekly")
      BY <1>3, <2>2, MovesToWeekly
    <3>2. moved' /\ files'[cur'[1]][cur'[2]].is = "none"
      BY <2>1, <3>1, NoCopyIs DEF Moved
    <3> QED
      BY <3>2 DEF FileIsMoved, Present
  <2>3. CASE ~HasKeptLink(WeeklyLink)
    <3>1. ~moved'
      BY <1>1, <1>3, <2>1, <2>3, MoveToWeeklyDoes
    <3> QED
      BY <2>1, <2>3, <3>1 DEF FileIsMoved
  <2> QED
    BY <2>2, <2>3
<1>4. CASE Relink
  <2>1. moved /\ cur[1] = "monthly" /\ ~Present("monthly", cur[2])
    BY <1>4, RelinksDaily
  <2>2. CASE BreakLoop
    BY <2>2 DEF BreakLoop, AfterRotation, FileIsMoved, AtFile
  <2>3. CASE pc' = "daily" /\ UNCHANGED loop
    <3>1. cur[2] \in Runs
      BY <1>1, <1>4, CurIsName, RelinkDoes DEF AtFile
    <3>2. files'["monthly"][cur[2]] = files["monthly"][cur[2]]
      BY <1>1, <1>4, <3>1, RelinkDoes DEF Periods
    <3>3. moved' /\ files'[cur'[1]][cur'[2]].is = "none"
      BY <2>1, <2>3, <3>2 DEF Present
    <3> QED
      BY <3>3 DEF FileIsMoved, Present
  <2> QED
    BY <1>1, <1>4, <2>2, <2>3, RelinkDoes
<1>5. CASE MoveToDaily
  <2>1. pc = "daily" /\ pc' = "remove" /\ cur' = cur
    BY <1>1, <1>5, MoveToDailyDoes
  <2>2. CASE UNCHANGED <<files, moved, kept>>
    BY <1>1, <2>1, <2>2 DEF FileIsMoved, AtFile, Present
  <2>3. CASE Moved("daily")
    <3>1. files'[cur'[1]][cur'[2]].is = "none"
      BY <2>1, <2>3, NoCopyIs DEF Moved
    <3> QED
      BY <2>1, <3>1 DEF FileIsMoved, Present
  <2> QED
    BY <1>5, <2>2, <2>3, MovesToDaily
<1>6. CASE NextFile
  <2>1. ~moved' /\ pc' = "weekly"
    BY <1>6 DEF NextFile
  <2> QED
    BY <2>1 DEF FileIsMoved
<1>7. CASE Midnight \/ UNCHANGED vars
  <2>1. /\ pc' = pc /\ moved' = moved /\ cur' = cur /\ files' = files
        /\ HasKeptLink(WeeklyLink)' = HasKeptLink(WeeklyLink)
    BY <1>2, <1>7 DEF Midnight, vars
  <2> QED
    BY <1>1, <2>1 DEF FileIsMoved, AtFile, Present
<1>8. CASE RemoveFile \/ StartRun \/ Dump \/ Deliver \/ ListFiles \/ RotationDone
  <2>1. pc' \notin {"weekly", "relink", "daily", "remove"}
    BY <1>1, <1>8, RemoveFileDoes
       DEF StartRun, Dump, Deliver, ListFiles, RotationDone, AfterRotation, AfterBackup
  <2> QED
    BY <2>1 DEF FileIsMoved, AtFile
<1> QED
  BY <1>3, <1>4, <1>5, <1>6, <1>7, <1>8 DEF Next, DumpFails, ListingFails, Killed

\* A copy is read as before when its name, and the file it leads to, are as
\* before.
LEMMA ReadAsBefore ==
    ASSUME NEW p \in Periods, NEW r \in Runs, Readable(p, r), files'[p][r] = files[p][r],
           files[p][r].is = "link" => files'[files[p][r].to][r] = files[files[p][r].to][r]
    PROVE  Readable(p, r)'
BY DEF Readable

LEMMA NeededAfterMoveToWeekly ==
    ASSUME WantedInv, MoveToWeekly, ~Fault, NEW p \in Periods, NEW r \in Runs, Needed(p, r)
    PROVE  \/ Readable(p, r)'
           \/ /\ pc' = "relink" /\ cur' = <<"monthly", r>> /\ p = "daily"
              /\ HasKeptLink(DailyLink)' /\ files'["weekly"][r].is = "archive"
<1>1. TypeOK /\ Course /\ LinksLeadBack /\ DoomedAreDone /\ NeededAreReadable
  BY DEF WantedInv, LinkInv, Base
<1>2. pc = "weekly" /\ AtFile /\ UNCHANGED <<cur, linked, doomed>>
  BY <1>1, MoveToWeeklyDoes DEF AtFile
<1>3. Readable(p, r)
  BY <1>1, <1>2 DEF NeededAreReadable
<1>4. files[p][r].is = "link" => files[p][r].to \in Periods /\ Before(files[p][r].to, p)
  BY <1>1 DEF LinksLeadBack, Before, Periods
<1>5. CASE ~HasKeptLink(WeeklyLink)
  <2>1. files' = files
    BY <1>1, <1>5, MoveToWeeklyDoes
  <2> QED
    BY <1>3, <2>1, ReadAsBefore
<1>6. CASE HasKeptLink(WeeklyLink)
  <2>1. /\ Moved("weekly") /\ cur[1] = "monthly" /\ pc' = "relink" /\ cur \in doomed /\ cur = <<cur[1], cur[2]>>
        /\ files["monthly"][cur[2]].is = "archive" /\ files["weekly"][cur[2]].is = "link"
    BY <1>1, <1>2, <1>6, MovesToWeekly, CurIsName DEF Course
  <2>2. CASE r # cur[2]
    <3>1. \A q \in Periods : files'[q][r] = files[q][r]
      BY <2>1, <2>2 DEF Moved
    <3> QED
      BY <1>3, <1>4, <3>1, ReadAsBefore
  <2>3. CASE r = cur[2]
    <3>1. files'["weekly"][r] = files["monthly"][r] /\ files'["daily"][r] = files["daily"][r]
      BY <2>1, <2>3 DEF Moved, Periods
    <3>2. p # "monthly"
      BY <1>1, <2>1, <2>3 DEF DoomedAreDone
    <3>3. CASE p = "weekly"
      BY <2>1, <2>3, <3>1, <3>3 DEF Readable
    <3>4. CASE p = "daily"
      <4>1. CASE files["daily"][r].is = "archive"
        BY <3>1, <3>4, <4>1 DEF Readable
      <4>2. CASE files["daily"][r].is # "archive"
        <5>1. files["daily"][r].is = "link" /\ files[files["daily"][r].to][r].is = "archive"
          BY <1>3, <3>4, <4>2 DEF Readable
        <5>2. files["daily"][r].to = "monthly"
          BY <1>4, <2>1, <2>3, <3>4, <5>1 DEF Before, Periods
        <5>3. HasKeptLink(<<p, cur[2]>>)
          BY <1>2, <2>1, <2>3, <3>4, <5>1, <5>2, NeededLinkIsKept
        <5>4. HasKeptLink(DailyLink)'
          BY <1>2, <3>4, <5>3 DEF HasKeptLink, HasLink, DailyLink
        <5> QED
          BY <1>2, <2>1, <2>3, <3>1, <3>4, <5>4
      <4> QED
        BY <4>1, <4>2
    <3> QED
      BY <3>2, <3>3, <3>4 DEF Periods
  <2> QED
    BY <2>2, <2>3
<1> QED
  BY <1>5, <1>6

LEMMA NeededAfterRelink ==
    ASSUME WantedInv, Relink, ~Fault, NEW p \in Periods, NEW r \in Runs, Needed(p, r)
    PROVE  Readable(p, r)'
<1>1. TypeOK /\ Course /\ LinksLeadBack /\ NeededAreReadable
  BY DEF WantedInv, LinkInv, Base
<1>2. pc = "relink" /\ cur[1] = "monthly" /\ ~Present("monthly", cur[2]) /\ cur = <<cur[1], cur[2]>> /\ cur[2] \in Runs
  BY <1>1, RelinksDaily, CurIsName DEF AtFile
<1>3. files[p][r].is = "link" => files[p][r].to \in Periods /\ Before(files[p][r].to, p)
  BY <1>1 DEF LinksLeadBack, Before, Periods
<1>4. \A q \in Periods, s \in Runs : s # cur[2] \/ q # "daily" => files'[q][s] = files[q][s]
  BY <1>1, RelinkDoes
<1>5. CASE ~(p = "daily" /\ r = cur[2])
  <2>1. Readable(p, r)
    BY <1>1, <1>2, <1>5 DEF NeededAreReadable
  <2>2. files'[p][r] = files[p][r] /\ (files[p][r].is = "link" => files[p][r].to # "daily")
    BY <1>3, <1>4, <1>5 DEF Before
  <2> QED
    BY <1>3, <1>4, <2>1, <2>2, ReadAsBefore
<1>6. CASE p = "daily" /\ r = cur[2]
  <2>1. CASE ~HasKeptLink(DailyLink) /\ UNCHANGED files
    <3>1. Readable(p, r)
      BY <1>1, <2>1 DEF NeededAreReadable
    <3> QED
      BY <2>1, <3>1, ReadAsBefore
  <2>2. CASE /\ HasKeptLink(DailyLink) /\ files["daily"][cur[2]].is = "link"
             /\ files'["daily"][cur[2]] = [is |-> "link", to |-> "weekly", at |-> clock', day |-> today]
    <3>1. files["weekly"][r].is = "archive"
      <4>1. CASE Readable(p, r)
        <5>1. files[files["daily"][r].to][r].is = "archive"
          BY <1>6, <2>2, <4>1 DEF Readable
        <5>2. files["daily"][r].to = "weekly"
          BY <1>2, <1>3, <1>6, <2>2, <5>1 DEF Present, Before, Periods
        <5> QED
          BY <5>1, <5>2
      <4>2. CASE ~Readable(p, r)
        BY <1>1, <4>2 DEF NeededAreReadable
      <4> QED
        BY <4>1, <4>2
    <3>2. files'["weekly"][r] = files["weekly"][r]
      BY <1>4 DEF Periods
    <3> QED
      BY <1>6, <2>2, <3>1, <3>2 DEF Readable
  <2> QED
    BY <2>1, <2>2, RelinksDaily
<1> QED
  BY <1>5, <1>6

LEMMA NeededAfterMoveToDaily ==
    ASSUME WantedInv, MoveToDaily, ~Fault, NEW p \in Periods, NEW r \in Runs, Needed(p, r)
    PROVE  Readable(p, r)'
<1>1. TypeOK /\ Course /\ LinksLeadBack /\ DoomedAreDone /\ NeededAreReadable
  BY DEF WantedInv, LinkInv, Base
<1>2. pc = "daily" /\ AtFile
  BY <1>1, MoveToDailyDoes DEF AtFile
<1>3. Readable(p, r)
  BY <1>1, <1>2 DEF NeededAreReadable
<1>4. files[p][r].is = "link" => files[p][r].to \in Periods /\ Before(files[p][r].to, p)
  BY <1>1 DEF LinksLeadBack, Before, Periods
<1>5. CASE UNCHANGED files
  BY <1>3, <1>5, ReadAsBefore
<1>6. CASE /\ Moved("daily") /\ cur[1] # "daily" /\ HasKeptLink(DailyLink) /\ ~HasKeptLink(WeeklyLink)
           /\ files[cur[1]][cur[2]].is = "archive" /\ files["daily"][cur[2]].is = "link"
  <2>1. cur \in doomed /\ cur = <<cur[1], cur[2]>> /\ cur[1] \in Periods /\ cur[2] \in Runs
    BY <1>1, <1>2, CurIsName DEF Course
  <2>2. CASE r # cur[2]
    <3>1. \A q \in Periods : files'[q][r] = files[q][r]
      BY <1>6, <2>2 DEF Moved
    <3> QED
      BY <1>3, <1>4, <3>1, ReadAsBefore
  <2>3. CASE r = cur[2] /\ p = "daily"
    <3>1. files'["daily"][r] = files[cur[1]][cur[2]]
      BY <1>6, <2>3 DEF Moved
    <3> QED
      BY <1>6, <2>3, <3>1 DEF Readable
  <2>4. CASE r = cur[2] /\ p # "daily"
    <3>1. p # cur[1]
      BY <1>1, <2>1, <2>4 DEF DoomedAreDone
    <3>2. files'[p][r] = files[p][r]
      BY <1>6, <2>4, <3>1 DEF Moved
    <3>3. ASSUME files[p][r].is = "link", files[p][r].to = cur[1]
          PROVE  FALSE
      <4>1. p = "weekly"
        BY <1>4, <2>4, <3>3 DEF Before, Periods
      <4>2. HasKeptLink(<<p, cur[2]>>)
        BY <1>2, <2>4, <3>3, NeededLinkIsKept
      <4> QED
        BY <1>6, <4>1, <4>2 DEF WeeklyLink
    <3>4. files[p][r].is = "link" => files[p][r].to # "daily"
      BY <1>4 DEF Before
    <3>5. files[p][r].is = "link" => files'[files[p][r].to][r] = files[files[p][r].to][r]
      BY <1>4, <1>6, <2>4, <3>3, <3>4 DEF Moved
    <3> QED
      BY <1>3, <3>2, <3>5, ReadAsBefore
  <2> QED
    BY <2>2, <2>3, <2>4
<1> QED
  BY <1>5, <1>6, MovesToDaily

LEMMA NeededAfterRemoval ==
    ASSUME WantedInv, RemoveFile, ~Fault, NEW p \in Periods, NEW r \in Runs, Needed(p, r)
    PROVE  Readable(p, r)'
<1>1. TypeOK /\ Course /\ LinksLeadBack /\ DoomedAreDone /\ NeededAreReadable /\ KeptForLinks
  BY DEF WantedInv, LinkInv, Base
<1>2. pc = "remove" /\ AtFile
  BY <1>1, RemoveFileDoes DEF AtFile
<1>3. Readable(p, r)
  BY <1>1, <1>2 DEF NeededAreReadable
<1>4. files[p][r].is = "link" => files[p][r].to \in Periods /\ Before(files[p][r].to, p)
  BY <1>1 DEF LinksLeadBack, Before, Periods
<1>5. cur \in doomed /\ cur = <<cur[1], cur[2]>> /\ cur[1] \in Periods /\ cur[2] \in Runs
  BY <1>1, <1>2, CurIsName DEF Course
<1>6. CASE kept
  <2>1. UNCHANGED files
    BY <1>1, <1>6, RemoveFileDoes
  <2> QED
    BY <1>3, <2>1, ReadAsBefore
<1>7. CASE ~kept
  <2>1. \A q \in Periods, s \in Runs : q # cur[1] \/ s # cur[2] => files'[q][s] = files[q][s]
    BY <1>1, RemoveFileDoes
  <2>2. p # cur[1] \/ r # cur[2]
    BY <1>1, <1>5 DEF DoomedAreDone
  <2>3. ASSUME r = cur[2], files[p][r].is = "link", files[p][r].to = cur[1]
        PROVE  FALSE
    <3>1. HasKeptLink(<<p, cur[2]>>) /\ p \in {"weekly", "daily"}
      BY <1>2, <1>4, <2>3, NeededLinkIsKept DEF Before, Periods
    <3> QED
      BY <1>1, <1>2, <1>7, <3>1 DEF KeptForLinks, WeeklyLink, DailyLink
  <2>4. files[p][r].is = "link" => files'[files[p][r].to][r] = files[files[p][r].to][r]
    BY <1>4, <2>1, <2>3
  <2> QED
    BY <1>3, <2>1, <2>2, <2>4, ReadAsBefore
<1> QED
  BY <1>6, <1>7

\* What a delivery makes is read at once.
LEMMA NeededWhenMade ==
    ASSUME WantedInv, Deliver, ~Fault, NEW p \in Periods, Needed(p, runs)'
    PROVE  Readable(p, runs)'
<1>1. TypeOK /\ Course
  BY DEF WantedInv, LinkInv, Base
<1>2. /\ runs \in Runs /\ Due \in SUBSET Periods
      /\ made' = [made EXCEPT ![runs] = [periods |-> Due, day |-> today, archived |-> archived]]
      /\ \A q \in Due : files'[q][runs].is = IF q = First(Due) THEN "archive" ELSE "link"
      /\ \A q \in Periods : files'[q][runs].is = "link" => files'[q][runs].to = First(Due)
      /\ Due # {} => First(Due) \in Due
  BY <1>1, DeliverMakes
<1>3. made'[runs].periods = Due
  BY <1>1, <1>2 DEF TypeOK
<1>4. runs' = runs
  BY DEF Deliver
<1>5. p \in Due
  BY <1>3, <1>4 DEF Needed
<1> QED
  BY <1>2, <1>4, <1>5 DEF Readable

LEMMA NeededAreReadableNext ==
    ASSUME WantedInv, [Next]_vars, ~Fault
    PROVE  NeededAreReadable'
<1>1. TypeOK /\ Course /\ LinksLeadBack /\ Base /\ NeededAreReadable
  BY DEF WantedInv, LinkInv, Base
<1> SUFFICES ASSUME NEW p \in Periods, NEW r \in Runs, Needed(p, r)'
             PROVE  \/ Readable(p, r)'
                    \/ /\ pc' = "relink" /\ cur' = <<"monthly", r>> /\ p = "daily"
                       /\ HasKeptLink(DailyLink)' /\ files'["weekly"][r].is = "archive"
  BY DEF NeededAreReadable
<1>2. CASE Deliver /\ r = runs
  <2>1. runs' = runs
    BY <1>2 DEF Deliver
  <2> QED
    BY <1>2, <2>1, NeededWhenMade
<1>3. CASE ~Deliver \/ r # runs
  <2>1. Needed(p, r)
    BY <1>1, <1>3, NeededWas
  <2>2. files[p][r].is = "link" => files[p][r].to \in Periods
    BY <1>1 DEF LinksLeadBack, Before, Periods
  <2>3. CASE UNCHANGED files /\ pc # "relink"
    BY <1>1, <2>1, <2>3, ReadAsBefore DEF NeededAreReadable
  <2>4. CASE Deliver
    <3>1. pc # "relink" /\ \A q \in Periods : files'[q][r] = files[q][r]
      BY <1>1, <1>3, <2>4, DeliverMakes DEF Deliver
    <3>2. Readable(p, r)
      BY <1>1, <2>1, <3>1 DEF NeededAreReadable
    <3> QED
      BY <2>2, <3>1, <3>2, ReadAsBefore
  <2>5. CASE Midnight \/ UNCHANGED vars
    <3>1. files' = files /\ pc' = pc /\ cur' = cur /\ HasKeptLink(DailyLink)' = HasKeptLink(DailyLink)
      BY <2>5 DEF Midnight, vars, loop, HasKeptLink, HasLink, DailyLink
    <3>2. Readable(p, r) => Readable(p, r)'
      BY <3>1, ReadAsBefore
    <3> QED
      BY <1>1, <2>1, <3>1, <3>2 DEF NeededAreReadable
  <2>6. CASE StartRun \/ Dump \/ ListFiles \/ NextFile \/ RotationDone
    BY <2>3, <2>6 DEF StartRun, Dump, ListFiles, NextFile, RotationDone
  <2> QED
    BY <2>1, <2>4, <2>5, <2>6, NeededAfterMoveToWeekly, NeededAfterRelink, NeededAfterMoveToDaily, NeededAfterRemoval
       DEF Next, DumpFails, ListingFails, Killed
<1> QED
  BY <1>2, <1>3

LEMMA WantedInvInit == Init => WantedInv
<1> SUFFICES ASSUME Init
             PROVE  WantedInv
  OBVIOUS
<1>1. \A p \in Periods, r \in Runs : files[p][r].is = "none"
  BY NoCopyIs DEF Init
<1>2. \A r \in Runs : made[r].periods = {} /\ made[r].day = 0
  BY DEF Init, NotMade
<1>3. linked = {} /\ unread = {} /\ doomed = {} /\ pc = "idle" /\ today = 1
  BY DEF Init
<1>4. CopiesAreMade /\ CopiesInOrder
  BY <1>1 DEF CopiesAreMade, CopiesInOrder, Present
<1>5. MadeInOrder
  BY <1>2, <1>3 DEF MadeInOrder
<1>6. DoomedAreDone /\ UnlistedAreDone /\ NeededAreReadable
  BY <1>2, <1>3 DEF DoomedAreDone, UnlistedAreDone, NeededAreReadable, Needed
<1>7. LinksWait /\ WeeklyGoesToo /\ FileIsMoved
  BY <1>3 DEF LinksWait, WeeklyGoesToo, FileIsMoved, AtFile
<1> QED
  BY <1>3, <1>4, <1>5, <1>6, <1>7, LinkInvInit DEF WantedInv

LEMMA WantedInvNext ==
    ASSUME WeeksFit, WantedInv, [Next]_vars, ~Fault, faults' = 0
    PROVE  WantedInv'
<1>1. LinkInv /\ Base /\ MadeInOrder
  BY DEF WantedInv, LinkInv
<1>2. LinkInv'
  BY <1>1, LinkInvNext DEF FewFaults
<1> QED
  BY <1>1, <1>2, NothingUnread, CopiesAreMadeNext, CopiesInOrderNext, MadeInOrderNext, DoomedAreDoneNext,
     UnlistedAreDoneNext, NeededAreReadableNext, LinksWaitNext, WeeklyGoesTooNext, FileIsMovedNext
     DEF WantedInv

\* Without a fault before it, or in it, a step has been no fault.
LEMMA FaultsOnlyGrow ==
    ASSUME Base, [Next]_vars, faults' = 0
    PROVE  faults = 0 /\ ~Fault
<1>1. faults \in Nat
  BY StateIs DEF Base
<1> QED
  BY <1>1, FaultOrNot DEF Fault, NoFault

\* What is wanted between two runs is needed: the room is the allowance.
LEMMA WantedIsNeeded ==
    ASSUME WantedInv, faults = 0
    PROVE  WantedIsReadable
<1> SUFFICES ASSUME pc = "idle", NEW p \in Periods, NEW r \in Runs, IsWanted(p, r)
             PROVE  Readable(p, r)
  BY DEF WantedIsReadable
<1>1. Room(p) = IF late /\ ~safe THEN 1 ELSE 0
  BY DEF Room
<1>2. Later(p, r) = {q \in Runs : q > r /\ p \in made[q].periods}
  BY DEF Later
<1>3. Needed(p, r)
  <2>1. CASE rule.useCount
    <3>1. Cardinality(Later(p, r)) + Room(p) < RetentionCount(rule, p)
      BY <1>1, <1>2, <2>1 DEF IsWanted, IsRecent, Newer
    <3> QED
      BY <2>1, <3>1 DEF Needed, IsWanted
  <2>2. CASE ~rule.useCount
    BY <2>2 DEF Needed, IsWanted
  <2> QED
    BY <2>1, <2>2
<1> QED
  BY <1>3 DEF WantedInv, NeededAreReadable

\* As long as no system call has failed, every copy that the retention rule
\* still wants (but for the one less that IsRecent allows) can be read under its
\* own name between two runs, wherever Local.deleteDiscBackup has moved the file
\* behind its link and wherever midnights have fallen into the runs: for all
\* rules that WeeksFit allows and for every number of days, runs and (later)
\* accidents.
THEOREM WantedStaysReadable == ASSUME WeeksFit PROVE Spec => []WantedIsReadable
<1> DEFINE Inv == Base /\ (faults = 0 => WantedInv)
<1>1. Init => Inv
  BY WantedInvInit DEF WantedInv, LinkInv
<1>2. Inv /\ [Next]_vars => Inv'
  <2> SUFFICES ASSUME Inv, [Next]_vars
               PROVE  Inv'
    OBVIOUS
  <2>1. Base'
    BY BaseNext
  <2>2. ASSUME faults' = 0
        PROVE  WantedInv'
    BY <2>2, FaultsOnlyGrow, WantedInvNext
  <2> QED
    BY <2>1, <2>2
<1>3. Inv => WantedIsReadable
  BY WantedIsNeeded DEF WantedIsReadable
<1> QED
  BY <1>1, <1>2, <1>3, PTL DEF Spec
=============================================================================
