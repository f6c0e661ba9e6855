---------------------------- MODULE Nntp65Proofs ----------------------------
(***************************************************************************)
(* NNTP65.SYSTEM for any groups, numbers and articles, wherever a run is   *)
(* cut short: no subscription is lost, no article goes to the mailbox of   *)
(* another group or comes twice, and none is passed over.                  *)
(***************************************************************************)
EXTENDS Nntp65, FiniteSetTheorems, SequenceTheorems, TLAPS

Line == [group : Groups, num : 0..(Wrap - 1)]

\* The server has articles 1..MaxNum, low[g] = high[g] + 1 when it has none of g;
\* a number the program takes from a line or a reply, or computes, fits its width.
NewsTypes ==
  /\ low \in [Groups -> 1..(MaxNum + 1)] /\ high \in [Groups -> 0..MaxNum]
  /\ \A g \in Groups : low[g] <= high[g] + 1
  /\ at \in [group : Groups \cup {None}, num : 0..(MaxNum + 1)]
  /\ lownum \in 0..(MaxNum + 1) /\ highnum \in 0..MaxNum
  /\ msgnum \in 0..(Wrap - 1) /\ msg \in 0..(Wrap - 1)
  /\ line \in Nat /\ up \in BOOLEAN /\ cuts \in 0..MaxCuts
  /\ cfg # None => cfg \in Seq(Line)
  /\ new # None => new \in Seq(Line)

Distinct(lines) ==
  \A i, j \in DOMAIN lines : lines[i].group = lines[j].group => i = j

Complete(lines) ==
  /\ Names(Subscribed) \ gone \subseteq Names(lines)
  /\ Distinct(lines)

Selecting == {"stat", "next", "article", "save"}
Importing == {"import", "copy", "record", "unlink"}

\* The lines of NEWSGROUPS.CFG that have been dealt with: the last one read
\* only once its number is saved.
Done == IF pc \in Selecting THEN line - 1 ELSE line

\* While a run goes on NEWSGROUPS.NEW has the lines dealt with, but those of
\* groups the server has not, and no others.
Copied ==
  /\ new # None
  /\ line <= Len(cfg)
  /\ pc # "group" => line >= 1
  /\ \A i \in 1..Done : cfg[i].group \in gone \/ cfg[i].group \in Names(new)
  /\ \A k \in DOMAIN new : \E i \in 1..Done : cfg[i].group = new[k].group
  /\ Distinct(new)

\* The inductive invariant.  SubscriptionsKept says nothing of NEWSGROUPS.NEW
\* before NEWSGROUPS.CFG is removed; Copied is what makes it complete by then.
IInv ==
  /\ NewsTypes
  /\ pc \in {"off", "group", "rename"} \cup Selecting \cup Importing
  /\ cfg # None => Complete(cfg) /\ pc # "rename"
  /\ cfg = None => new # None /\ Complete(new) /\ pc \in {"off", "rename"}
  /\ pc \in {"group"} \cup Selecting \cup Importing => Copied

-----------------------------------------------------------------------------
LEMMA Bounds ==
  /\ FirstFetch \in Nat /\ MaxNum \in Nat /\ MaxCuts \in Nat
  /\ Wrap \in Nat /\ Wrap > MaxNum + FirstFetch + 1 /\ Wrap > MaxNum + 1 /\ EmailWrap \in Nat /\ EmailWrap > 0
BY NewsAssumption

\* An article at the server has a number of the GROUP reply.
LEMMA ThereIs ==
  ASSUME NewsTypes, NEW g \in Groups, NEW n \in There(g)
  PROVE  n \in low[g]..high[g] /\ n \in 1..MaxNum /\ n \notin cancelled[g]
<1>1. low[g] \in 1..(MaxNum + 1) /\ high[g] \in 0..MaxNum
  BY DEF NewsTypes
<1> QED
  BY <1>1, Bounds DEF There

(* Lines and their groups                                                  *)

LEMMA CountLines ==
  ASSUME NEW lines \in Seq(Line), Distinct(lines)
  PROVE  Cardinality(Names(lines)) = Len(lines)
<1> DEFINE f == [i \in 1..Len(lines) |-> lines[i].group]
<1>1. DOMAIN lines = 1..Len(lines) /\ Len(lines) \in Nat
  OBVIOUS
<1>2. f \in [1..Len(lines) -> Names(lines)]
  BY <1>1 DEF Names
<1>3. \A i, j \in 1..Len(lines) : f[i] = f[j] => i = j
  BY <1>1 DEF Distinct
<1>4. \A x \in Names(lines) : \E i \in 1..Len(lines) : f[i] = x
  BY <1>1 DEF Names
<1>5. f \in Bijection(1..Len(lines), Names(lines))
  BY <1>2, <1>3, <1>4 DEF Bijection, Injection, Surjection, IsInjective
<1>6. ExistsBijection(1..Len(lines), Names(lines))
  BY <1>5 DEF ExistsBijection
<1> QED
  BY <1>1, <1>6, FS_CountingElements

\* One more line for a group that has none
LEMMA AppendLine ==
  ASSUME NEW lines \in Seq(Line), NEW x \in Line, Distinct(lines),
         x.group \notin Names(lines)
  PROVE  /\ Append(lines, x) \in Seq(Line)
         /\ Distinct(Append(lines, x))
         /\ Names(Append(lines, x)) = Names(lines) \cup {x.group}
<1> DEFINE longer == Append(lines, x)
           n == Len(lines)
<1>1. /\ longer \in Seq(Line)
      /\ Len(lines) \in Nat /\ DOMAIN lines = 1..n /\ DOMAIN longer = 1..(n + 1)
      /\ \A i \in 1..n : longer[i] = lines[i]
      /\ longer[n + 1] = x
  OBVIOUS
<1>2. \A i \in 1..n : longer[i].group \in Names(lines)
  BY <1>1 DEF Names
<1>3. Distinct(longer)
  <2> SUFFICES ASSUME NEW i \in 1..(n + 1), NEW j \in 1..(n + 1),
                      longer[i].group = longer[j].group
               PROVE  i = j
    BY <1>1 DEF Distinct
  <2>1. CASE i \in 1..n /\ j \in 1..n
    BY <1>1, <2>1 DEF Distinct
  <2>2. CASE i = n + 1 \/ j = n + 1
    BY <1>1, <1>2, <2>2
  <2> QED
    BY <1>1, <2>1, <2>2
<1>4. Names(longer) = Names(lines) \cup {x.group}
  <2>1. ASSUME NEW y \in Names(longer) PROVE y \in Names(lines) \cup {x.group}
    <3>1. PICK i \in 1..(n + 1) : longer[i].group = y
      BY <1>1 DEF Names
    <3> QED
      BY <1>1, <1>2, <3>1
  <2>2. ASSUME NEW y \in Names(lines) PROVE y \in Names(longer)
    <3>1. PICK i \in 1..n : lines[i].group = y
      BY <1>1 DEF Names
    <3>2. i \in DOMAIN longer /\ longer[i].group = y
      BY <1>1, <3>1
    <3> QED
      BY <3>2 DEF Names
  <2>3. x.group \in Names(longer)
    <3>1. n + 1 \in DOMAIN longer
      BY <1>1
    <3> QED
      BY <1>1, <3>1 DEF Names
  <2> QED
    BY <2>1, <2>2, <2>3
<1> QED
  BY <1>1, <1>3, <1>4

\* When every line was dealt with NEWSGROUPS.NEW is as complete as NEWSGROUPS.CFG.
LEMMA CopiedIsComplete ==
  ASSUME NewsTypes, cfg # None, Complete(cfg), Copied, pc = "group", line = Len(cfg)
  PROVE  Complete(new)
<1>1. DOMAIN cfg = 1..Len(cfg)
  BY DEF NewsTypes
<1>2. ASSUME NEW g \in Names(Subscribed) \ gone PROVE g \in Names(new)
  <2>1. PICK i \in DOMAIN cfg : cfg[i].group = g
    BY <1>2 DEF Complete, Names
  <2>2. i \in 1..Done
    BY <1>1 DEF Done, Selecting
  <2> QED
    BY <1>2, <2>1, <2>2 DEF Copied
<1> QED
  BY <1>2 DEF Complete, Copied

-----------------------------------------------------------------------------
(* The steps                                                               *)

LEMMA InitSafe == Init => IInv
<1> SUFFICES ASSUME Init PROVE IInv
  OBVIOUS
<1>1. Subscribed \in Seq(Line) /\ Subscribed # None
  <2>1. Subscribed \in Seq(Line) /\ None \notin Seq(Line)
    BY NewsAssumption, Zenon DEF Line
  <2> QED
    BY <2>1
<1>2. low \in [Groups -> 1..(MaxNum + 1)] /\ high \in [Groups -> 0..MaxNum]
  <2>1. low \in [Groups -> Nat \ {0}] /\ high \in [Groups -> 0..MaxNum] /\ MaxNum \in Nat
        /\ \A g \in Groups : low[g] <= high[g] + 1
    BY NewsAssumption DEF Init
  <2>2. \A g \in Groups : low[g] \in 1..(MaxNum + 1)
    BY <2>1
  <2> QED
    BY <2>1, <2>2
<1>3. NewsTypes
  <2>1. \A g \in Groups : low[g] <= high[g] + 1
    BY NewsAssumption DEF Init
  <2>2. at \in [group : Groups \cup {None}, num : 0..(MaxNum + 1)]
    BY Bounds DEF Init, NoSession
  <2>3. {0} \subseteq 0..(MaxNum + 1) \cap 0..MaxNum \cap 0..(Wrap - 1) \cap 0..MaxCuts \cap Nat
    BY Bounds
  <2>4. /\ lownum = 0 /\ highnum = 0 /\ msgnum = 0 /\ msg = 0 /\ line = 0 /\ cuts = 0
        /\ up = FALSE /\ cfg = Subscribed /\ new = None
    BY DEF Init
  <2> QED
    BY <1>1, <1>2, <2>1, <2>2, <2>3, <2>4 DEF NewsTypes
<1> QED
  BY <1>1, <1>3, NewsAssumption DEF Init, IInv, Complete, Distinct, Selecting, Importing

\* What a program has in memory when it is loaded
LEMMA FreshNumbers ==
  ASSUME Fresh
  PROVE  /\ at' \in [group : Groups \cup {None}, num : 0..(MaxNum + 1)]
         /\ lownum' \in 0..(MaxNum + 1) /\ highnum' \in 0..MaxNum
         /\ msgnum' \in 0..(Wrap - 1) /\ msg' \in 0..(Wrap - 1) /\ line' \in Nat
  BY NewsAssumption DEF Fresh, NoSession

\* The steps that touch neither the two files nor the place in them
LEMMA ElsewhereSafe ==
  ASSUME IInv, NewsTypes', UNCHANGED <<cfg, new, line, gone>>,
         \/ pc' = pc
         \/ pc \in Selecting /\ pc' \in Selecting
         \/ pc \in Importing /\ pc' \in Importing \cup {"group"}
  PROVE  IInv'
<1>1. Done' = Done
  BY DEF Done, Selecting, Importing
<1>2. Complete(cfg)' <=> Complete(cfg)
  BY DEF Complete, Distinct, Names
<1>3. Complete(new)' <=> Complete(new)
  BY DEF Complete, Distinct, Names
<1>4. Names(new)' = Names(new) /\ Distinct(new)' = Distinct(new)
  BY DEF Names, Distinct
<1>5. Copied /\ (pc' # "group" => pc # "group" \/ line >= 1) => Copied'
  BY <1>1, <1>4 DEF Copied
<1>6. pc \in {"group"} \cup Selecting \cup Importing => Copied
  BY DEF IInv
<1>7. pc' \in {"group"} \cup Selecting \cup Importing => Copied'
  BY <1>5, <1>6 DEF Copied, Selecting, Importing
<1> QED
  BY <1>2, <1>3, <1>7 DEF IInv, Selecting, Importing

\* The server and the user.  A group can only be removed outside a run.
LEMMA EnvironmentSafe ==
  ASSUME IInv, Environment
  PROVE  IInv'
<1>1. ASSUME NEW g \in Groups, Post(g) PROVE IInv'
  <2>1. NewsTypes'
    <3>1. high' = [high EXCEPT ![g] = @ + 1] /\ high[g] < MaxNum /\ NewsTypes
      BY <1>1 DEF Post, IInv
    <3>2. high' \in [Groups -> 0..MaxNum] /\ \A h \in Groups : high[h] <= high'[h]
      BY <3>1, Bounds DEF NewsTypes
    <3>3. \A h \in Groups : low[h] <= high'[h] + 1
      BY <3>1, <3>2, Bounds DEF NewsTypes
    <3>4. UNCHANGED <<low, at, up, cuts, line, lownum, highnum, msgnum, msg, cfg, new>>
      BY <1>1 DEF Post, program, disk, history
    <3> QED
      BY <3>1, <3>2, <3>3, <3>4 DEF NewsTypes
  <2> QED
    BY <1>1, <2>1, ElsewhereSafe DEF Post, program, disk
<1>2. ASSUME NEW g \in Groups, Expire(g) PROVE IInv'
  <2>1. NewsTypes'
    <3>1. low' = [low EXCEPT ![g] = @ + 1] /\ low[g] <= high[g] /\ NewsTypes
      BY <1>2 DEF Expire, IInv
    <3>2. low' \in [Groups -> 1..(MaxNum + 1)] /\ \A h \in Groups : low'[h] <= high[h] + 1
      BY <3>1, Bounds DEF NewsTypes
    <3>3. UNCHANGED <<high, at, up, cuts, line, lownum, highnum, msgnum, msg, cfg, new>>
      BY <1>2 DEF Expire, program, disk, history
    <3> QED
      BY <3>1, <3>2, <3>3 DEF NewsTypes
  <2> QED
    BY <1>2, <2>1, ElsewhereSafe DEF Expire, program, disk
<1>3. ASSUME NEW g \in Groups, Cancel(g) PROVE IInv'
  <2>1. NewsTypes'
    BY <1>3 DEF IInv, NewsTypes, Cancel, program, disk, history
  <2> QED
    BY <1>3, <2>1, ElsewhereSafe DEF Cancel, program, disk
<1>7. ASSUME NEW g \in Groups, RemoveGroup(g) PROVE IInv'
  <2>1. NewsTypes'
    BY <1>7 DEF IInv, NewsTypes, RemoveGroup, program, disk, history
  <2>2. gone \subseteq gone' /\ UNCHANGED <<cfg, new>> /\ pc = "off" /\ pc' = "off"
    BY <1>7 DEF RemoveGroup, program, disk
  <2>3. /\ Complete(cfg) => Complete(cfg)'
        /\ Complete(new) => Complete(new)'
    BY <2>2 DEF Complete, Distinct, Names
  <2> QED
    BY <2>1, <2>2, <2>3 DEF IInv, Selecting, Importing
<1>4. ASSUME Drop PROVE IInv'
  <2>1. NewsTypes'
    BY <1>4 DEF IInv, NewsTypes, Drop, server, program, disk, history
  <2> QED
    BY <1>4, <2>1, ElsewhereSafe DEF Drop, server, program, disk
<1>5. ASSUME ClearSpool PROVE IInv'
  <2>1. NewsTypes'
    BY <1>5 DEF IInv, NewsTypes, ClearSpool, server, program, history
  <2> QED
    BY <1>5, <2>1, ElsewhereSafe DEF ClearSpool, server, program
<1>6. ASSUME RenameByHand PROVE IInv'
  <2>1. pc = "off" /\ pc' = "off" /\ cfg = None /\ cfg' = new /\ new # None
        /\ UNCHANGED gone
    BY <1>6 DEF RenameByHand, server, IInv
  <2>2. Complete(cfg)'
    BY <2>1 DEF IInv, Complete, Distinct, Names
  <2>3. NewsTypes'
    BY <1>6 DEF IInv, NewsTypes, RenameByHand, server, program, history
  <2> QED
    BY <2>1, <2>2, <2>3 DEF IInv, Selecting, Importing
<1> QED
  BY <1>1, <1>2, <1>3, <1>4, <1>5, <1>6, <1>7 DEF Environment

LEMMA StartSafe ==
  ASSUME IInv, Start
  PROVE  IInv'
<1>1. /\ pc' = "group" /\ line' = 0 /\ new' = << >> /\ cfg # None
      /\ UNCHANGED <<cfg, gone>>
  BY DEF Start, Fresh, server
<1>2. NewsTypes'
  <2>1. Fresh /\ UNCHANGED <<low, high, cuts>> /\ up' = TRUE /\ << >> \in Seq(Line)
    BY DEF Start, server, history
  <2> QED
    BY <1>1, <2>1, FreshNumbers DEF IInv, NewsTypes
<1>3. Complete(cfg)'
  BY <1>1 DEF IInv, Complete, Distinct, Names
<1>4. new' # None
  <2>1. << >> \in Seq(Line)
    OBVIOUS
  <2>2. None \notin Seq(Line)
    BY NewsAssumption, Zenon DEF Line
  <2> QED
    BY <1>1, <2>1, <2>2, Zenon
<1>5. Copied'
  BY <1>1, <1>2, <1>4 DEF Copied, Done, Selecting, Distinct, NewsTypes
<1> QED
  BY <1>1, <1>2, <1>3, <1>5 DEF IInv

\* The number a group is read from fits its width, wherever it comes from.
LEMMA FromRange ==
  ASSUME NEW num \in 0..(Wrap - 1), NEW first \in 0..(MaxNum + 1), NEW last \in 0..MaxNum
  PROVE  From(num, first, last) \in 0..(Wrap - 1)
<1>1. (last - FirstFetch) % Wrap \in 0..(Wrap - 1)
  BY Bounds
<1> QED
  BY <1>1, Bounds DEF From

LEMMA SelectGroupSafe ==
  ASSUME IInv, SelectGroup
  PROVE  IInv'
<1>1. /\ pc = "group" /\ pc' \in {"stat", "next"} /\ line < Len(cfg)
      /\ line' = line + 1 /\ UNCHANGED <<cfg, new, gone>>
  BY DEF SelectGroup, server, disk
<1>2. cfg # None /\ Copied /\ cfg \in Seq(Line) /\ line \in Nat
  BY <1>1 DEF IInv, NewsTypes
<1> DEFINE g == cfg[line + 1].group
<1>3. g \in Groups /\ cfg[line + 1].num \in 0..(Wrap - 1)
  <2>1. line + 1 \in 1..Len(cfg)
    BY <1>1, <1>2
  <2>2. cfg[line + 1] \in Line
    BY <1>2, <2>1, ElementOfSeq
  <2> QED
    BY <2>2 DEF Line
<1>4. /\ lownum' \in 0..(MaxNum + 1) /\ highnum' \in 0..MaxNum
      /\ at' \in [group : Groups \cup {None}, num : 0..(MaxNum + 1)]
  <2>1. CASE GroupFound(g)
    <3>1. low[g] \in 0..(MaxNum + 1) /\ high[g] \in 0..MaxNum /\ There(g) \subseteq 0..MaxNum
      <4>1. low \in [Groups -> 1..(MaxNum + 1)] /\ high \in [Groups -> 0..MaxNum]
        BY DEF IInv, NewsTypes
      <4>2. low[g] \in 1..(MaxNum + 1) /\ high[g] \in 0..MaxNum
        BY <1>3, <4>1
      <4> QED
        BY <4>2, Bounds DEF There
    <3>2. PICK n \in There(g) \cup {MaxNum + 1} : at' = [group |-> g, num |-> n]
      BY <2>1 DEF GroupFound, Least, NoArticle
    <3>3. n \in 0..(MaxNum + 1)
      BY <3>1, Bounds
    <3>4. lownum' \in 0..(MaxNum + 1) /\ highnum' \in 0..MaxNum
      BY <2>1, <3>1 DEF GroupFound
    <3> QED
      BY <1>3, <3>2, <3>3, <3>4
  <2>2. CASE GroupLost(g)
    BY <2>2 DEF GroupLost, IInv, NewsTypes
  <2> QED
    BY <2>1, <2>2 DEF SelectGroup
<1>5. msgnum' \in 0..(Wrap - 1) /\ msg' \in 0..(Wrap - 1)
  <2>1. msgnum' = From(cfg[line + 1].num, lownum', highnum') /\ msg' = msgnum'
    BY DEF SelectGroup
  <2> QED
    BY <1>3, <1>4, <2>1, FromRange
<1>6. NewsTypes'
  <2>1. UNCHANGED <<low, high, up, cuts>> /\ line' \in Nat
    BY <1>1, <1>2 DEF SelectGroup, server
  <2> QED
    BY <1>1, <1>4, <1>5, <2>1 DEF IInv, NewsTypes
<1>7. Done' = Done
  BY <1>1, <1>2 DEF Done, Selecting
<1>8. Copied'
  BY <1>1, <1>2, <1>7 DEF Copied, Names, Distinct
<1>9. Complete(cfg)'
  BY <1>1, <1>2 DEF IInv, Complete, Distinct, Names
<1> QED
  BY <1>1, <1>2, <1>6, <1>8, <1>9 DEF IInv, Selecting

LEMMA NoSuchGroupSafe ==
  ASSUME IInv, NoSuchGroup
  PROVE  IInv'
<1>1. /\ pc = "group" /\ pc' = "group" /\ line < Len(cfg)
      /\ line' = line + 1 /\ UNCHANGED <<cfg, new, gone>>
      /\ cfg[line + 1].group \in gone
  BY DEF NoSuchGroup, server, disk
<1>2. cfg # None /\ Copied /\ cfg \in Seq(Line) /\ line \in Nat /\ Len(cfg) \in Nat
  BY <1>1, LenProperties DEF IInv, NewsTypes
<1>3. NewsTypes'
  BY <1>1, <1>2 DEF IInv, NewsTypes, NoSuchGroup, server, disk, history
<1>4. Done = line /\ Done' = line + 1
  BY <1>1, <1>2 DEF Done, Selecting
<1>5. Copied'
  <2>1. ASSUME NEW i \in 1..(line + 1)
        PROVE  cfg[i].group \in gone \/ cfg[i].group \in Names(new)
    <3>1. CASE i = line + 1
      BY <1>1, <3>1
    <3>2. CASE i \in 1..line
      BY <1>2, <1>4, <3>2 DEF Copied
    <3> QED
      BY <1>2, <3>1, <3>2
  <2>2. \A k \in DOMAIN new : \E i \in 1..(line + 1) : cfg[i].group = new[k].group
    BY <1>2, <1>4 DEF Copied
  <2>3. Names(new)' = Names(new) /\ Distinct(new)' = Distinct(new)
    BY <1>1 DEF Names, Distinct
  <2> QED
    BY <1>1, <1>2, <1>4, <2>1, <2>2, <2>3 DEF Copied
<1>6. Complete(cfg)'
  BY <1>1, <1>2 DEF IInv, Complete, Distinct, Names
<1> QED
  BY <1>1, <1>2, <1>3, <1>5, <1>6 DEF IInv

\* From GROUP to the end of the import there is a line at hand.
LEMMA GroupAtHand ==
  ASSUME IInv, pc \in Selecting \cup Importing
  PROVE  /\ line \in 1..Len(cfg) /\ cfg # None /\ cfg \in Seq(Line)
         /\ cfg[line] \in Line /\ group \in Groups /\ Copied
<1>1. cfg # None /\ cfg \in Seq(Line) /\ Copied /\ pc # "group"
  BY DEF IInv, NewsTypes, Selecting, Importing
<1>2. line \in 1..Len(cfg)
  BY <1>1 DEF IInv, NewsTypes, Copied
<1>3. cfg[line] \in Line
  BY <1>1, <1>2, ElementOfSeq
<1> QED
  BY <1>1, <1>2, <1>3 DEF group, Line

\* The session within a group, and the import, which leave the files alone
LEMMA SessionSafe ==
  ASSUME IInv, Stat \/ NextArticle \/ NoMore \/ GetArticle
  PROVE  IInv'
<1>1. /\ UNCHANGED <<cfg, new, line, gone>>
      /\ pc \in Selecting /\ pc' \in Selecting
  BY DEF Stat, NextArticle, NoMore, GetArticle, server, program, disk, Selecting
<1>2. NewsTypes'
  <2>1. CASE Stat
    <3>1. UNCHANGED <<low, high, up, cuts, lownum, highnum, msgnum, msg, line, cfg, new>>
      BY <2>1 DEF Stat, server, program, disk, history
    <3>2. group \in Groups
      BY <2>1, GroupAtHand DEF Stat, Selecting
    <3>3. at' \in [group : Groups \cup {None}, num : 0..(MaxNum + 1)]
      <4>1. NewsTypes
        BY DEF IInv
      <4>2. CASE up /\ msgnum \in There(group)
        <5>1. msgnum \in 0..(MaxNum + 1)
          BY <3>2, <4>1, <4>2, ThereIs, Bounds
        <5>2. at' = [at EXCEPT !.num = msgnum]
          BY <2>1, <4>2 DEF Stat
        <5> QED
          BY <4>1, <5>1, <5>2 DEF NewsTypes
      <4>3. CASE ~(up /\ msgnum \in There(group))
        <5>1. at' = at
          BY <2>1, <4>3 DEF Stat
        <5> QED
          BY <4>1, <5>1 DEF NewsTypes
      <4> QED
        BY <4>2, <4>3
    <3> QED
      BY <3>1, <3>3 DEF IInv, NewsTypes
  <2>2. CASE NextArticle
    <3>1. PICK n \in There(group) : at' = [at EXCEPT !.num = n]
      BY <2>2 DEF NextArticle, Least, Later
    <3>2. /\ msg' = at'.num
          /\ UNCHANGED <<low, high, up, cuts, lownum, highnum, msgnum, line, cfg, new>>
      BY <2>2 DEF NextArticle, server, history
    <3>3. at \in [group : Groups \cup {None}, num : 0..(MaxNum + 1)]
      BY DEF IInv, NewsTypes
    <3>4. n \in 1..MaxNum
      <4>1. group \in Groups
        BY <2>2, GroupAtHand DEF NextArticle, Selecting
      <4> QED
        BY <3>1, <4>1, ThereIs DEF IInv
    <3>5. at' \in [group : Groups \cup {None}, num : 0..(MaxNum + 1)] /\ msg' \in 0..(Wrap - 1)
      BY <3>1, <3>2, <3>3, <3>4, Bounds
    <3> QED
      BY <3>2, <3>5 DEF IInv, NewsTypes
  <2>3. CASE NoMore
    BY <2>3 DEF NoMore, IInv, NewsTypes, server, program, disk
  <2>4. CASE GetArticle
    BY <2>4 DEF GetArticle, IInv, NewsTypes, server, program
  <2> QED
    BY <2>1, <2>2, <2>3, <2>4
<1> QED
  BY <1>1, <1>2, ElsewhereSafe

Import == ImportOpen \/ ImportCopy \/ ImportKill \/ ImportRecord \/ ImportUnlink
          \/ ImportDone

LEMMA ImportSafe ==
  ASSUME IInv, Import
  PROVE  IInv'
<1>1. /\ UNCHANGED <<cfg, new, line, gone, low, high, at, up, cuts, lownum, highnum, msgnum, msg>>
      /\ pc \in Importing /\ pc' \in Importing \cup {"group"}
  BY DEF Import, ImportOpen, ImportCopy, ImportKill, ImportRecord, ImportUnlink,
     ImportDone, server, program, disk, history, Importing
<1>2. NewsTypes'
  BY <1>1 DEF IInv, NewsTypes
<1> QED
  BY <1>1, <1>2, ElsewhereSafe

LEMMA SaveMarkSafe ==
  ASSUME IInv, SaveMark
  PROVE  IInv'
<1> DEFINE x == [group |-> group, num |-> msg]
<1>1. /\ pc = "save" /\ pc' = "import" /\ new' = Append(new, x)
      /\ UNCHANGED <<cfg, line, gone, low, high, at, up, cuts, lownum, highnum, msgnum, msg>>
  BY DEF SaveMark, server, program, history
<1>2. /\ cfg # None /\ Copied /\ cfg \in Seq(Line) /\ new \in Seq(Line)
      /\ line \in 1..Len(cfg) /\ Len(cfg) \in Nat /\ Complete(cfg)
  BY <1>1, LenProperties DEF IInv, NewsTypes, Copied, Selecting
<1>3. x \in Line
  <2>1. cfg[line] \in Line
    BY <1>2, ElementOfSeq
  <2> QED
    BY <2>1 DEF group, Line, IInv, NewsTypes
<1>4. Done = line - 1 /\ Done' = line
  BY <1>1 DEF Done, Selecting
<1>5. x.group \notin Names(new)
  <2>1. ASSUME NEW k \in DOMAIN new, new[k].group = group PROVE FALSE
    <3>1. PICK i \in 1..(line - 1) : cfg[i].group = cfg[line].group
      BY <1>2, <1>4, <2>1 DEF Copied, group
    <3>2. i \in DOMAIN cfg /\ line \in DOMAIN cfg /\ i # line
      BY <1>2, LenProperties
    <3> QED
      BY <1>2, <3>1, <3>2 DEF Complete, Distinct
  <2> QED
    BY <2>1 DEF Names
<1>6. /\ Append(new, x) \in Seq(Line) /\ Distinct(Append(new, x))
      /\ Names(Append(new, x)) = Names(new) \cup {group}
  BY <1>2, <1>3, <1>5, AppendLine DEF Copied
<1>7. NewsTypes'
  BY <1>1, <1>6 DEF IInv, NewsTypes
<1>8. new' # None
  BY <1>1, <1>6, NewsAssumption DEF Line
<1>9. Copied'
  <2>1. ASSUME NEW i \in 1..line
        PROVE  cfg[i].group \in gone \/ cfg[i].group \in Names(Append(new, x))
    <3>1. CASE i = line
      BY <1>6, <3>1 DEF group
    <3>2. CASE i \in 1..(line - 1)
      BY <1>2, <1>4, <1>6, <3>2 DEF Copied
    <3> QED
      BY <1>2, <3>1, <3>2
  <2>2. ASSUME NEW k \in DOMAIN Append(new, x)
        PROVE  \E i \in 1..line : cfg[i].group = Append(new, x)[k].group
    <3>1. Append(new, x)[k].group \in Names(new) \cup {group}
      BY <1>6 DEF Names
    <3>2. CASE Append(new, x)[k].group = group
      BY <1>2, <3>2 DEF group
    <3>3. CASE Append(new, x)[k].group \in Names(new)
      <4>1. PICK l \in DOMAIN new : new[l].group = Append(new, x)[k].group
        BY <3>3 DEF Names
      <4>2. PICK i \in 1..(line - 1) : cfg[i].group = new[l].group
        BY <1>2, <1>4 DEF Copied
      <4>3. i \in 1..line
        BY <1>2
      <4> QED
        BY <4>1, <4>2, <4>3
    <3> QED
      BY <3>1, <3>2, <3>3
  <2>3. Names(new)' = Names(Append(new, x)) /\ Distinct(new)' = Distinct(Append(new, x))
    BY <1>1 DEF Names, Distinct
  <2> QED
    BY <1>1, <1>2, <1>4, <1>6, <1>8, <2>1, <2>2, <2>3 DEF Copied
<1>10. Complete(cfg)'
  BY <1>1, <1>2 DEF Complete, Distinct, Names
<1> QED
  BY <1>1, <1>2, <1>7, <1>9, <1>10 DEF IInv, Importing, Selecting

\* The end of a run: with NEWSGROUPS.CFG gone, NEWSGROUPS.NEW is complete.
LEMMA ReplaceSafe ==
  ASSUME IInv, Replace
  PROVE  IInv'
<1>1. /\ pc = "group" /\ line = Len(cfg) /\ cfg' = None /\ pc' = "rename"
      /\ UNCHANGED <<new, line, gone, low, high, at, up, cuts, lownum, highnum, msgnum, msg>>
  BY DEF Replace, server, program, history
<1>2. cfg # None /\ Copied /\ NewsTypes /\ Complete(cfg)
  BY <1>1 DEF IInv
<1>3. Complete(new)
  BY <1>1, <1>2, CopiedIsComplete
<1>4. Complete(new)' /\ new' # None
  BY <1>1, <1>2, <1>3 DEF Complete, Distinct, Names, Copied
<1>5. NewsTypes'
  BY <1>1, <1>2 DEF NewsTypes
<1> QED
  BY <1>1, <1>4, <1>5 DEF IInv, Selecting, Importing

LEMMA FinishSafe ==
  ASSUME IInv, Finish
  PROVE  IInv'
<1>1. pc = "rename" /\ pc' = "off" /\ cfg' = new /\ new' = None /\ UNCHANGED gone
  BY DEF Finish, server
<1>2. new # None /\ Complete(new)
  BY <1>1 DEF IInv
<1>3. Complete(cfg)'
  BY <1>1, <1>2 DEF Complete, Distinct, Names
<1>4. NewsTypes'
  <2>1. Fresh /\ up' = FALSE /\ UNCHANGED <<low, high, cuts>>
    BY DEF Finish, server, history
  <2> QED
    BY <1>1, <2>1, FreshNumbers DEF IInv, NewsTypes
<1> QED
  BY <1>1, <1>2, <1>3, <1>4 DEF IInv, Selecting, Importing

LEMMA ErrorExitSafe ==
  ASSUME IInv, ErrorExit
  PROVE  IInv'
<1>1. pc \in {"group"} \cup Selecting /\ pc' = "off" /\ UNCHANGED <<cfg, new, gone>>
  BY DEF ErrorExit, server, disk, Selecting
<1>2. cfg # None /\ Complete(cfg)
  BY <1>1 DEF IInv, Selecting
<1>3. Complete(cfg)'
  BY <1>1, <1>2 DEF Complete, Distinct, Names
<1>4. NewsTypes'
  <2>1. Fresh /\ up' = FALSE /\ cuts' = cuts + 1 /\ cuts < MaxCuts /\ UNCHANGED <<low, high>>
    BY DEF ErrorExit, server
  <2>2. cuts' \in 0..MaxCuts
    BY <2>1, Bounds DEF IInv, NewsTypes
  <2> QED
    BY <1>1, <2>1, <2>2, FreshNumbers DEF IInv, NewsTypes
<1> QED
  BY <1>1, <1>2, <1>3, <1>4 DEF IInv, Selecting, Importing

\* A reset may cost lines of NEWSGROUPS.NEW, but only while NEWSGROUPS.CFG is there.
LEMMA CrashSafe ==
  ASSUME IInv, Crash
  PROVE  IInv'
<1>1. pc # "off" /\ pc' = "off" /\ UNCHANGED <<cfg, gone, low, high>> /\ Fresh
  BY DEF Crash, server
<1>2. up' = FALSE /\ cuts' \in 0..MaxCuts
  <2>1. up' = FALSE /\ cuts' = cuts + 1 /\ cuts < MaxCuts
    BY DEF Crash
  <2> QED
    BY <2>1, Bounds DEF IInv, NewsTypes
<1>3. CASE pc = "rename"
  <2>1. new' = new /\ cfg = None /\ new # None /\ Complete(new)
    BY <1>3 DEF Crash, IInv
  <2>2. Complete(new)'
    BY <1>1, <2>1 DEF Complete, Distinct, Names
  <2>3. NewsTypes'
    BY <1>1, <1>2, <2>1, FreshNumbers DEF IInv, NewsTypes
  <2> QED
    BY <1>1, <2>1, <2>2, <2>3 DEF IInv, Selecting, Importing
<1>4. CASE pc # "rename"
  <2>1. cfg # None /\ Complete(cfg) /\ new # None /\ new \in Seq(Line)
    BY <1>1, <1>4 DEF IInv, NewsTypes, Copied
  <2>2. new' \in Seq(Line)
    <3>1. PICK k \in 0..Len(new) : new' = SubSeq(new, 1, k)
      BY <1>4 DEF Crash
    <3>2. \A i \in 1..k : new[i] \in Line
      BY <2>1, <3>1, ElementOfSeq, LenProperties
    <3> QED
      BY <2>1, <3>1, <3>2
  <2>3. Complete(cfg)'
    BY <1>1, <2>1 DEF Complete, Distinct, Names
  <2>4. NewsTypes'
    BY <1>1, <1>2, <2>1, <2>2, FreshNumbers DEF IInv, NewsTypes
  <2> QED
    BY <1>1, <2>1, <2>3, <2>4 DEF IInv, Selecting, Importing
<1> QED
  BY <1>3, <1>4

-----------------------------------------------------------------------------
LEMMA StepSafe == IInv /\ [Next]_vars => IInv'
<1> SUFFICES ASSUME IInv, [Next]_vars PROVE IInv'
  OBVIOUS
<1>1. CASE Replied \/ Own
  BY <1>1, SelectGroupSafe, NoSuchGroupSafe, SessionSafe, SaveMarkSafe, ImportSafe,
     ReplaceSafe, FinishSafe DEF Replied, Own, Import
<1>2. CASE UNCHANGED vars
  <2>1. UNCHANGED <<cfg, new, line, gone, pc, low, high, at, up, cuts, lownum, highnum, msgnum, msg>>
    BY <1>2 DEF vars, server, program, disk, history
  <2>2. NewsTypes'
    BY <2>1 DEF IInv, NewsTypes
  <2> QED
    BY <2>1, <2>2, ElsewhereSafe
<1> QED
  BY <1>1, <1>2, EnvironmentSafe, StartSafe, ErrorExitSafe, CrashSafe DEF Next

LEMMA IInvKeepsSubscriptions == IInv => SubscriptionsKept
<1> SUFFICES ASSUME IInv PROVE SubscriptionsKept
  OBVIOUS
<1> DEFINE lines == IF cfg = None THEN new ELSE cfg
<1>1. lines # None /\ lines \in Seq(Line) /\ Complete(lines)
  BY DEF IInv, NewsTypes
<1>2. Cardinality(Names(lines)) = Len(lines)
  BY <1>1, CountLines DEF Complete
<1> QED
  BY <1>1, <1>2 DEF SubscriptionsKept, Complete

\* NEWSGROUPS.CFG names every group the reader subscribed to and the server
\* still has, each once, or NEWSGROUPS.NEW does while there is no
\* NEWSGROUPS.CFG: in every state, between any two steps of main()
\* (nntp65.c:681-769), whatever the server, the connection and the user do.
THEOREM SubscriptionsAlwaysKept == Spec => []SubscriptionsKept
<1>1. Init => IInv
  BY InitSafe
<1>2. IInv /\ [Next]_vars => IInv'
  BY StepSafe
<1>3. IInv => SubscriptionsKept
  BY IInvKeepsSubscriptions
<1> QED
  BY <1>1, <1>2, <1>3, PTL DEF Spec

-----------------------------------------------------------------------------
(* The types                                                               *)

\* A file of NEWS.SPOOL is named after the article in it, and the program
\* writes and imports files that are there.
SpoolTypes ==
  /\ DOMAIN spool \subseteq 1..MaxNum
  /\ \A n \in DOMAIN spool : spool[n] \in [group : Groups, num : {n}, whole : BOOLEAN]
  /\ pc = "article" => msg \in DOMAIN spool
  /\ pc \in {"copy", "record", "unlink"} => doing \in DOMAIN spool

LEMMA SpoolStill ==
  ASSUME SpoolTypes, UNCHANGED spool,
         pc' = "article" => pc = "article" /\ msg' = msg,
         pc' \in {"copy", "record", "unlink"} =>
           doing' \in DOMAIN spool \/ (pc \in {"copy", "record"} /\ doing' = doing)
  PROVE  SpoolTypes'
BY DEF SpoolTypes

LEMMA WithDomain ==
  ASSUME NEW f, NEW n, NEW x
  PROVE  /\ DOMAIN With(f, n, x) = DOMAIN f \cup {n}
         /\ With(f, n, x)[n] = x
         /\ \A m \in DOMAIN f : m # n => With(f, n, x)[m] = f[m]
BY DEF With

LEMMA WithoutDomain ==
  ASSUME NEW f, NEW n
  PROVE  /\ DOMAIN Without(f, n) = DOMAIN f \ {n}
         /\ \A m \in DOMAIN f : m # n => Without(f, n)[m] = f[m]
BY DEF Without

\* NEXT names the first article at the server behind the current one, and the
\* program makes the file for it.
LEMMA NextArticleFile ==
  ASSUME IInv, NextArticle
  PROVE  /\ msg' \in There(group) /\ msg' > at.num /\ msg' \in 1..MaxNum
         /\ \A n \in There(group) : n > at.num => msg' <= n
         /\ at' = [at EXCEPT !.num = msg']
         /\ group' = group /\ group \in Groups
         /\ spool' = With(spool, msg', Article(group, msg', FALSE))
<1>1. PICK n \in Least(Later) : at' = [at EXCEPT !.num = n]
  BY DEF NextArticle
<1>2. /\ msg' = at'.num /\ UNCHANGED <<cfg, line>> /\ pc \in Selecting
      /\ spool' = With(spool, msg', Article(group, msg', FALSE))
  BY DEF NextArticle, Selecting
<1>3. group \in Groups /\ group' = group
  BY <1>2, GroupAtHand DEF group
<1>4. n \in There(group) /\ n > at.num /\ \A m \in There(group) : m > at.num => n <= m
  BY <1>1 DEF Least, Later
<1>5. msg' = n
  BY <1>1, <1>2 DEF IInv, NewsTypes
<1>6. n \in 1..MaxNum
  BY <1>3, <1>4, ThereIs DEF IInv
<1> QED
  BY <1>1, <1>2, <1>3, <1>4, <1>5, <1>6

LEMMA SpoolStep ==
  ASSUME IInv, SpoolTypes, [Next]_vars
  PROVE  SpoolTypes'
<1>1. CASE Environment
  <2>1. CASE ClearSpool
    <3>1. DOMAIN spool' = {} /\ pc' = "off"
      BY <2>1 DEF ClearSpool
    <3> QED
      BY <3>1 DEF SpoolTypes
  <2>2. CASE ~ClearSpool
    <3>1. UNCHANGED <<spool, pc, msg, doing>>
      BY <1>1, <2>2 DEF Environment, Post, Expire, Cancel, RemoveGroup, Drop, RenameByHand, program, disk
    <3> QED
      BY <3>1 DEF SpoolTypes
  <2> QED
    BY <2>1, <2>2
<1>2. CASE Start \/ ErrorExit \/ Crash \/ Finish \/ Replace
  <2>1. UNCHANGED spool /\ pc' \in {"off", "group", "rename"}
    BY <1>2 DEF Start, ErrorExit, Crash, Finish, Replace, disk
  <2> QED
    BY <2>1, SpoolStill
<1>3. CASE SelectGroup \/ NoSuchGroup \/ Stat \/ NoMore \/ SaveMark \/ ImportDone
  <2>1. UNCHANGED spool /\ pc' \in {"group", "stat", "next", "save", "import"}
    BY <1>3 DEF SelectGroup, NoSuchGroup, Stat, NoMore, SaveMark, ImportDone, disk
  <2> QED
    BY <2>1, SpoolStill
<1>4. CASE NextArticle
  <2> DEFINE x == Article(group, msg', FALSE)
  <2>1. /\ pc' = "article" /\ msg' \in 1..MaxNum /\ group \in Groups
        /\ spool' = With(spool, msg', x)
    BY <1>4, NextArticleFile DEF NextArticle
  <2>2. x \in [group : Groups, num : {msg'}, whole : BOOLEAN]
    BY <2>1 DEF Article
  <2> HIDE DEF x
  <2>3. /\ DOMAIN spool' = DOMAIN spool \cup {msg'} /\ spool'[msg'] = x
        /\ \A n \in DOMAIN spool : n # msg' => spool'[n] = spool[n]
    BY <2>1 DEF With
  <2>4. ASSUME NEW n \in DOMAIN spool'
        PROVE  spool'[n] \in [group : Groups, num : {n}, whole : BOOLEAN]
    BY <2>2, <2>3, <2>4 DEF SpoolTypes
  <2>5. DOMAIN spool' \subseteq 1..MaxNum /\ msg' \in DOMAIN spool'
    BY <2>1, <2>3 DEF SpoolTypes
  <2> QED
    BY <2>1, <2>4, <2>5 DEF SpoolTypes
<1>5. CASE GetArticle
  <2>1. /\ pc = "article" /\ pc' = "next" /\ up \in BOOLEAN
        /\ spool' = [spool EXCEPT ![msg].whole = up]
    BY <1>5 DEF GetArticle, IInv, NewsTypes
  <2>2. DOMAIN spool' = DOMAIN spool
    BY <2>1
  <2>3. ASSUME NEW n \in DOMAIN spool
        PROVE  spool'[n] \in [group : Groups, num : {n}, whole : BOOLEAN]
    <3>1. spool'[n] = IF n = msg THEN [spool[n] EXCEPT !.whole = up] ELSE spool[n]
      BY <2>1, <2>3
    <3> QED
      BY <2>1, <2>3, <3>1 DEF SpoolTypes
  <2> QED
    BY <2>1, <2>2, <2>3 DEF SpoolTypes
<1>6. CASE ImportOpen
  <2>1. UNCHANGED spool /\ pc' = "copy" /\ doing' \in DOMAIN spool
    BY <1>6 DEF ImportOpen
  <2> QED
    BY <2>1 DEF SpoolTypes
<1>7. CASE ImportCopy \/ ImportKill \/ ImportRecord
  <2>1. UNCHANGED <<spool, doing>> /\ pc \in {"copy", "record"} /\ pc' \in {"record", "unlink"}
    BY <1>7 DEF ImportCopy, ImportKill, ImportRecord, program
  <2> QED
    BY <2>1, SpoolStill
<1>8. CASE ImportUnlink
  <2>1. spool' = Without(spool, doing) /\ pc' = "import"
    BY <1>8 DEF ImportUnlink
  <2>2. DOMAIN spool' \subseteq DOMAIN spool
        /\ \A n \in DOMAIN spool' : spool'[n] = spool[n]
    BY <2>1, WithoutDomain, ZenonT(40)
  <2> QED
    BY <2>1, <2>2 DEF SpoolTypes
<1>9. CASE UNCHANGED vars
  <2>1. UNCHANGED <<spool, pc, msg, doing>>
    BY <1>9 DEF vars, program, disk
  <2> QED
    BY <2>1 DEF SpoolTypes
<1> QED
  BY <1>1, <1>2, <1>3, <1>4, <1>5, <1>6, <1>7, <1>8, <1>9 DEF Next, Replied, Own

LEMMA SpoolInit == Init => SpoolTypes
<1> SUFFICES ASSUME Init PROVE DOMAIN spool = {} /\ pc = "off"
  BY DEF SpoolTypes
<1> QED
  BY DEF Init

\* Every number NNTP65.SYSTEM computes from a reply or from a line (uint32_t
\* nummsgs, lownum, highnum, msgnum, msg, nntp65.c:575) fits its width, so does
\* what it writes to NEWSGROUPS.NEW, and NEWS.n holds article n
\* (nntp65.c:728-730): for any groups, numbers and faults, FirstFetch more
\* than the last article of a group included.
THEOREM TypeCorrect == Spec => []TypeOK
<1>1. Init => IInv /\ SpoolTypes
  BY InitSafe, SpoolInit
<1>2. IInv /\ SpoolTypes /\ [Next]_vars => IInv' /\ SpoolTypes'
  BY StepSafe, SpoolStep
<1>3. IInv /\ SpoolTypes => TypeOK
  <2> SUFFICES ASSUME IInv, SpoolTypes PROVE TypeOK
    OBVIOUS
  <2>1. \A n \in DOMAIN spool : spool[n].num = n
    BY DEF SpoolTypes
  <2>2. /\ cfg # None => \A i \in DOMAIN cfg : cfg[i] \in Line
        /\ new # None => \A i \in DOMAIN new : new[i] \in Line
    BY ElementOfSeq DEF IInv, NewsTypes
  <2>3. msg \in 0..(Wrap - 1) /\ msgnum \in 0..(Wrap - 1) /\ cuts \in 0..MaxCuts
    BY DEF IInv, NewsTypes
  <2> QED
    BY <2>1, <2>2, <2>3 DEF TypeOK, IInv, Selecting, Importing, Line
<1> QED
  BY <1>1, <1>2, <1>3, PTL DEF Spec

-----------------------------------------------------------------------------
(* The mailboxes                                                           *)

\* No run was cut short, or the user empties NEWS.SPOOL after one that was.
Tidy == "clears" \in Habits \/ cuts = 0

DiskTypes ==
  /\ DOMAIN files = Groups
  /\ db \in [Groups -> Seq(Nat)]

\* NEWS.SPOOL has articles of the group at hand and of no other.
SpoolOwn ==
  /\ pc \in {"group", "rename"} => DOMAIN spool = {}
  /\ pc = "off" /\ "clears" \notin Habits => DOMAIN spool = {}
  /\ pc \in Selecting \cup Importing => \A n \in DOMAIN spool : spool[n].group = group

\* A record names a file that is there, and no article that is on the kill list:
\* such an article's file is removed again when it comes a second time.
FilesOwn ==
  /\ \A g \in Groups : \A n \in DOMAIN files[g] : files[g][n].group = g
  /\ \A g \in Groups : \A i \in DOMAIN db[g] :
       /\ db[g][i] \in DOMAIN files[g]
       /\ [group |-> g, num |-> db[g][i]] \notin Killed
  /\ pc \in {"copy", "record"} => doing \in DOMAIN files[group]
  /\ pc = "record" => [group |-> group, num |-> doing] \notin Killed

OwnInv == DiskTypes /\ (Tidy => SpoolOwn /\ FilesOwn)

\* An article is imported into the mailbox of the group at hand.
LEMMA ImportAtHand ==
  ASSUME IInv, SpoolTypes, pc \in {"copy", "record", "unlink"}
  PROVE  /\ group \in Groups /\ doing \in DOMAIN spool /\ doing \in 1..MaxNum
         /\ spool[doing].num = doing
         /\ spool[doing] \in [group : Groups, num : {doing}, whole : BOOLEAN]
<1>1. group \in Groups
  BY GroupAtHand DEF Importing
<1>2. doing \in DOMAIN spool
  BY DEF SpoolTypes
<1> QED
  BY <1>1, <1>2 DEF SpoolTypes

\* Below 2^16 the number of an article is that of its file.
LEMMA EmailNumIs ==
  ASSUME MaxNum < EmailWrap, NEW n \in 1..MaxNum
  PROVE  EmailNum(n) = n
BY Bounds DEF EmailNum

LEMMA TidyBefore ==
  ASSUME IInv, [Next]_vars, Tidy'
  PROVE  Tidy
<1>1. cuts' = cuts \/ cuts' = cuts + 1
  BY DEF Next, Environment, Replied, Own, Post, Expire, Cancel, RemoveGroup, Drop, ClearSpool, RenameByHand,
     Start, ErrorExit, Crash, SelectGroup, NoSuchGroup, Stat, NextArticle, NoMore, GetArticle,
     SaveMark, ImportOpen, ImportCopy, ImportKill, ImportRecord, ImportUnlink, ImportDone,
     Replace, Finish, vars, history
<1>2. cuts \in Nat
  BY Bounds DEF IInv, NewsTypes
<1> QED
  BY <1>1, <1>2 DEF Tidy

LEMMA SpoolOwnStep ==
  ASSUME IInv, SpoolTypes, Tidy, SpoolOwn, [Next]_vars, Tidy'
  PROVE  SpoolOwn'
<1>1. CASE Environment
  <2>1. CASE ClearSpool
    <3>1. DOMAIN spool' = {} /\ pc' = "off"
      BY <2>1 DEF ClearSpool
    <3> QED
      BY <3>1 DEF SpoolOwn, Selecting, Importing
  <2>2. CASE RenameByHand
    <3>1. UNCHANGED spool /\ pc = "off" /\ pc' = "off"
      BY <2>2 DEF RenameByHand
    <3> QED
      BY <3>1 DEF SpoolOwn, Selecting, Importing
  <2>3. CASE ~ClearSpool /\ ~RenameByHand
    <3>1. UNCHANGED <<spool, pc, cfg, line>>
      BY <1>1, <2>3 DEF Environment, Post, Expire, Cancel, RemoveGroup, Drop, program, disk
    <3> QED
      BY <3>1 DEF SpoolOwn, group
  <2> QED
    BY <2>1, <2>2, <2>3
<1>2. CASE Start
  <2>1. pc = "off" /\ pc' = "group" /\ UNCHANGED spool
        /\ ("clears" \in Habits => spool = << >>)
    BY <1>2 DEF Start
  <2> QED
    BY <2>1 DEF SpoolOwn, Selecting, Importing
<1>3. CASE ErrorExit \/ Crash
  <2>1. pc' = "off" /\ cuts' = cuts + 1
    BY <1>3 DEF ErrorExit, Crash
  <2>2. "clears" \in Habits
    BY <2>1, Bounds DEF Tidy, IInv, NewsTypes
  <2> QED
    BY <2>1, <2>2 DEF SpoolOwn, Selecting, Importing
<1>4. CASE SelectGroup \/ NoSuchGroup \/ Replace \/ Finish
  <2>1. UNCHANGED spool /\ pc \in {"group", "rename"}
    BY <1>4 DEF SelectGroup, NoSuchGroup, Replace, Finish, disk
  <2>2. DOMAIN spool' = {}
    BY <2>1 DEF SpoolOwn
  <2> QED
    BY <2>2 DEF SpoolOwn
<1>5. CASE Stat \/ NoMore \/ SaveMark \/ ImportOpen \/ ImportCopy \/ ImportKill \/ ImportRecord
  <2>1. /\ UNCHANGED <<spool, cfg, line>>
        /\ pc \in Selecting \cup Importing /\ pc' \in Selecting \cup Importing
    BY <1>5 DEF Stat, NoMore, SaveMark, ImportOpen, ImportCopy, ImportKill, ImportRecord,
       program, disk, Selecting, Importing
  <2> QED
    BY <2>1 DEF SpoolOwn, group, Selecting, Importing
<1>6. CASE NextArticle
  <2> DEFINE x == Article(group, msg', FALSE)
  <2>1. pc \in Selecting /\ pc' \in Selecting /\ spool' = With(spool, msg', x) /\ group' = group
    BY <1>6, NextArticleFile DEF NextArticle, Selecting
  <2>2. x.group = group
    BY DEF Article
  <2> HIDE DEF x
  <2>3. /\ DOMAIN spool' = DOMAIN spool \cup {msg'} /\ spool'[msg'] = x
        /\ \A n \in DOMAIN spool : n # msg' => spool'[n] = spool[n]
    BY <2>1 DEF With
  <2>4. \A n \in DOMAIN spool' : spool'[n].group = group
    BY <2>1, <2>2, <2>3 DEF SpoolOwn
  <2> QED
    BY <2>1, <2>4 DEF SpoolOwn, Selecting, Importing
<1>7. CASE GetArticle
  <2>1. /\ spool' = [spool EXCEPT ![msg].whole = up] /\ UNCHANGED <<cfg, line>>
        /\ pc \in Selecting /\ pc' \in Selecting
    BY <1>7 DEF GetArticle, program, Selecting
  <2>2. DOMAIN spool' = DOMAIN spool
    BY <2>1
  <2>3. ASSUME NEW n \in DOMAIN spool PROVE spool'[n].group = spool[n].group
    <3>1. spool'[n] = IF n = msg THEN [spool[n] EXCEPT !.whole = up] ELSE spool[n]
      BY <2>1, <2>3
    <3> QED
      BY <2>3, <3>1 DEF SpoolTypes
  <2> QED
    BY <2>1, <2>2, <2>3 DEF SpoolOwn, group, Selecting, Importing
<1>8. CASE ImportUnlink
  <2>1. /\ spool' = Without(spool, doing) /\ UNCHANGED <<cfg, line>>
        /\ pc \in Importing /\ pc' \in Importing
    BY <1>8 DEF ImportUnlink, program, Importing
  <2>2. DOMAIN spool' \subseteq DOMAIN spool
        /\ \A n \in DOMAIN spool' : spool'[n] = spool[n]
    BY <2>1, WithoutDomain, ZenonT(40)
  <2> QED
    BY <2>1, <2>2 DEF SpoolOwn, group, Selecting, Importing
<1>9. CASE ImportDone
  <2>1. DOMAIN spool' = {}
    BY <1>9 DEF ImportDone, disk
  <2> QED
    BY <2>1 DEF SpoolOwn
<1>10. CASE UNCHANGED vars
  <2>1. UNCHANGED <<spool, pc, cfg, line>>
    BY <1>10 DEF vars, program, disk
  <2> QED
    BY <2>1 DEF SpoolOwn, group
<1> QED
  BY <1>1, <1>2, <1>3, <1>4, <1>5, <1>6, <1>7, <1>8, <1>9, <1>10 DEF Next, Replied, Own

LEMMA AppendedOne ==
  ASSUME NEW s \in Seq(Nat), NEW x \in Nat
  PROVE  \A i \in DOMAIN Append(s, x) :
           \/ i = Len(s) + 1 /\ Append(s, x)[i] = x
           \/ i \in DOMAIN s /\ Append(s, x)[i] = s[i]
OBVIOUS

\* The steps that leave the mailboxes alone
LEMMA MailboxesStill ==
  ASSUME IInv, [Next]_vars, ~(ImportOpen \/ ImportCopy \/ ImportKill \/ ImportRecord)
  PROVE  /\ UNCHANGED <<files, db>>
         /\ pc' \in {"copy", "record"} => pc' = pc /\ UNCHANGED <<cfg, line, doing>>
<1>1. CASE Environment
  BY <1>1 DEF Environment, Post, Expire, Cancel, RemoveGroup, Drop, ClearSpool, RenameByHand,
     program, disk
<1>2. CASE Start \/ ErrorExit \/ Crash
  BY <1>2 DEF Start, ErrorExit, Crash, disk
<1>3. CASE Replied \/ Own
  BY <1>3 DEF Replied, Own, SelectGroup, NoSuchGroup, Stat, NextArticle, NoMore, GetArticle,
     SaveMark, ImportUnlink, ImportDone, Replace, Finish, disk
<1>4. CASE UNCHANGED vars
  BY <1>4 DEF vars, program, disk
<1> QED
  BY <1>1, <1>2, <1>3, <1>4 DEF Next

LEMMA OwnStep ==
  ASSUME IInv, SpoolTypes, OwnInv, [Next]_vars, MaxNum < EmailWrap
  PROVE  OwnInv'
<1>1. CASE ~(ImportOpen \/ ImportCopy \/ ImportKill \/ ImportRecord)
  <2>1. /\ UNCHANGED <<files, db>>
        /\ pc' \in {"copy", "record"} => pc' = pc /\ UNCHANGED <<cfg, line, doing>>
    BY <1>1, MailboxesStill
  <2>2. DiskTypes'
    BY <2>1 DEF OwnInv, DiskTypes
  <2>3. FilesOwn => FilesOwn'
    BY <2>1 DEF FilesOwn, group
  <2> QED
    BY <2>2, <2>3, SpoolOwnStep, TidyBefore DEF OwnInv
<1>2. CASE ImportOpen
  <2>1. PICK n \in DOMAIN spool :
          /\ doing' = n
          /\ files' = [files EXCEPT ![group] = With(@, EmailNum(n), [spool[n] EXCEPT !.whole = FALSE])]
    BY <1>2 DEF ImportOpen
  <2>2. group \in Groups /\ group' = group /\ pc \in Importing /\ pc' = "copy" /\ UNCHANGED db
    BY <1>2, GroupAtHand DEF ImportOpen, Importing, group
  <2>3. n \in 1..MaxNum /\ EmailNum(n) = n
    BY EmailNumIs DEF SpoolTypes
  <2> DEFINE x == [spool[n] EXCEPT !.whole = FALSE]
  <2>4. x.group = spool[n].group
    BY DEF SpoolTypes
  <2> HIDE DEF x
  <2>5. /\ DOMAIN files' = DOMAIN files
        /\ \A g \in DOMAIN files : g # group => files'[g] = files[g]
        /\ group \in DOMAIN files => files'[group] = With(files[group], n, x)
    BY <2>1, <2>3 DEF x
  <2>6. DiskTypes'
    BY <2>2, <2>5 DEF OwnInv, DiskTypes
  <2>7. /\ DOMAIN files'[group] = DOMAIN files[group] \cup {n} /\ files'[group][n] = x
        /\ \A m \in DOMAIN files[group] : m # n => files'[group][m] = files[group][m]
    BY <2>2, <2>5 DEF With, OwnInv, DiskTypes
  <2>8. ASSUME Tidy, SpoolOwn, FilesOwn PROVE FilesOwn'
    <3>1. x.group = group
      BY <2>2, <2>4, <2>8 DEF SpoolOwn
    <3>2. \A g \in Groups : \A m \in DOMAIN files'[g] : files'[g][m].group = g
      <4>1. ASSUME NEW m \in DOMAIN files'[group] PROVE files'[group][m].group = group
        BY <2>2, <2>7, <2>8, <3>1, <4>1 DEF FilesOwn
      <4>2. \A g \in Groups : g # group => files'[g] = files[g]
        BY <2>5 DEF OwnInv, DiskTypes
      <4> QED
        BY <2>8, <4>1, <4>2 DEF FilesOwn
    <3>3. \A g \in Groups : DOMAIN files[g] \subseteq DOMAIN files'[g]
      BY <2>5, <2>7 DEF OwnInv, DiskTypes
    <3>4. doing' \in DOMAIN files'[group'] /\ pc' # "record"
      BY <2>1, <2>2, <2>7
    <3> QED
      BY <2>2, <2>8, <3>2, <3>3, <3>4 DEF FilesOwn
  <2> QED
    BY <2>6, <2>8, SpoolOwnStep, TidyBefore DEF OwnInv
<1>3. CASE ImportCopy
  <2>1. /\ files' = [files EXCEPT ![group][EmailNum(doing)] = spool[doing]]
        /\ pc = "copy" /\ pc' = "record" /\ UNCHANGED <<db, doing, cfg, line>>
        /\ [group |-> spool[doing].group, num |-> spool[doing].num] \notin Killed
    BY <1>3 DEF ImportCopy, program
  <2>2. group \in Groups /\ group' = group /\ doing \in DOMAIN spool /\ spool[doing].num = doing
        /\ EmailNum(doing) = doing
    BY <2>1, ImportAtHand, EmailNumIs DEF group
  <2>3. /\ DOMAIN files' = DOMAIN files
        /\ \A g \in DOMAIN files : g # group => files'[g] = files[g]
        /\ group \in DOMAIN files => files'[group] = [files[group] EXCEPT ![doing] = spool[doing]]
    BY <2>1, <2>2
  <2>4. DiskTypes'
    BY <2>1, <2>3 DEF OwnInv, DiskTypes
  <2>5. /\ DOMAIN files'[group] = DOMAIN files[group]
        /\ \A m \in DOMAIN files[group] :
             files'[group][m] = IF m = doing THEN spool[doing] ELSE files[group][m]
    BY <2>2, <2>3 DEF OwnInv, DiskTypes
  <2>6. ASSUME Tidy, SpoolOwn, FilesOwn PROVE FilesOwn'
    <3>1. spool[doing].group = group
      BY <2>1, <2>2, <2>6 DEF SpoolOwn, Importing
    <3>2. \A g \in Groups : \A m \in DOMAIN files'[g] : files'[g][m].group = g
      BY <2>3, <2>5, <2>6, <3>1 DEF FilesOwn, OwnInv, DiskTypes
    <3>3. \A g \in Groups : DOMAIN files[g] = DOMAIN files'[g]
      BY <2>3, <2>5 DEF OwnInv, DiskTypes
    <3> QED
      BY <2>1, <2>2, <2>6, <3>1, <3>2, <3>3 DEF FilesOwn
  <2> QED
    BY <2>4, <2>6, SpoolOwnStep, TidyBefore DEF OwnInv
<1>4. CASE ImportKill
  <2>1. /\ files' = [files EXCEPT ![group] = Without(@, EmailNum(doing))]
        /\ pc = "copy" /\ pc' = "unlink" /\ UNCHANGED <<db, doing, cfg, line>>
        /\ [group |-> spool[doing].group, num |-> spool[doing].num] \in Killed
    BY <1>4 DEF ImportKill, program
  <2>2. group \in Groups /\ group' = group /\ doing \in DOMAIN spool /\ spool[doing].num = doing
        /\ EmailNum(doing) = doing
    BY <2>1, ImportAtHand, EmailNumIs DEF group
  <2>3. /\ DOMAIN files' = DOMAIN files
        /\ \A g \in DOMAIN files : g # group => files'[g] = files[g]
        /\ group \in DOMAIN files => files'[group] = Without(files[group], doing)
    BY <2>1, <2>2
  <2>4. DiskTypes'
    BY <2>1, <2>3 DEF OwnInv, DiskTypes
  <2>5. /\ DOMAIN files'[group] = DOMAIN files[group] \ {doing}
        /\ \A m \in DOMAIN files[group] \ {doing} : files'[group][m] = files[group][m]
    BY <2>2, <2>3 DEF Without, OwnInv, DiskTypes
  <2>6. ASSUME Tidy, SpoolOwn, FilesOwn PROVE FilesOwn'
    <3>1. [group |-> group, num |-> doing] \in Killed
      BY <2>1, <2>2, <2>6 DEF SpoolOwn, Importing
    <3>2. \A g \in Groups : \A m \in DOMAIN files'[g] : files'[g][m].group = g
      BY <2>3, <2>5, <2>6 DEF FilesOwn, OwnInv, DiskTypes
    <3>3. ASSUME NEW g \in Groups, NEW i \in DOMAIN db[g] PROVE db[g][i] \in DOMAIN files'[g]
      BY <2>3, <2>5, <2>6, <3>1, <3>3 DEF FilesOwn, OwnInv, DiskTypes
    <3> QED
      BY <2>1, <2>2, <2>6, <3>2, <3>3 DEF FilesOwn
  <2> QED
    BY <2>4, <2>6, SpoolOwnStep, TidyBefore DEF OwnInv
<1>5. CASE ImportRecord
  <2>1. /\ db' = [db EXCEPT ![group] = Append(@, EmailNum(doing))]
        /\ pc = "record" /\ pc' = "unlink" /\ UNCHANGED <<files, doing, cfg, line>>
    BY <1>5 DEF ImportRecord, program
  <2>2. group \in Groups /\ group' = group /\ doing \in 1..MaxNum /\ EmailNum(doing) = doing
    BY <2>1, ImportAtHand, EmailNumIs DEF group
  <2>3. /\ db' \in [Groups -> Seq(Nat)]
        /\ \A g \in Groups : g # group => db'[g] = db[g]
        /\ db'[group] = Append(db[group], doing)
    BY <2>1, <2>2 DEF OwnInv, DiskTypes
  <2>4. DiskTypes'
    BY <2>1, <2>3 DEF OwnInv, DiskTypes
  <2>5. ASSUME NEW g \in Groups, NEW i \in DOMAIN db'[g]
        PROVE  \/ g = group /\ db'[g][i] = doing
               \/ i \in DOMAIN db[g] /\ db'[g][i] = db[g][i]
    <3>1. db[g] \in Seq(Nat)
      BY DEF OwnInv, DiskTypes
    <3>2. CASE g = group
      <4>1. db'[g] = Append(db[g], doing) /\ doing \in Nat /\ i \in DOMAIN Append(db[g], doing)
        BY <2>2, <2>3, <2>5, <3>2, Bounds
      <4>2. \/ i = Len(db[g]) + 1 /\ Append(db[g], doing)[i] = doing
            \/ i \in DOMAIN db[g] /\ Append(db[g], doing)[i] = db[g][i]
        BY <3>1, <4>1, AppendedOne
      <4> QED
        BY <3>2, <4>1, <4>2
    <3>3. CASE g # group
      BY <2>3, <2>5, <3>3
    <3> QED
      BY <3>2, <3>3
  <2>6. ASSUME Tidy, SpoolOwn, FilesOwn PROVE FilesOwn'
    BY <2>1, <2>2, <2>5, <2>6 DEF FilesOwn
  <2> QED
    BY <2>4, <2>6, SpoolOwnStep, TidyBefore DEF OwnInv
<1> QED
  BY <1>1, <1>2, <1>3, <1>4, <1>5

LEMMA OwnInit == Init => OwnInv
<1> SUFFICES ASSUME Init PROVE OwnInv
  OBVIOUS
<1>1. /\ DOMAIN spool = {} /\ pc = "off" /\ DOMAIN files = Groups
      /\ db \in [Groups -> Seq(Nat)]
      /\ \A g \in Groups : DOMAIN files[g] = {} /\ DOMAIN db[g] = {}
  BY DEF Init
<1> QED
  BY <1>1 DEF OwnInv, DiskTypes, SpoolOwn, FilesOwn, Selecting, Importing

\* A record of a news mailbox is of an article of its own group, and its file is
\* there: update_mailbox (nntp65.c:478-572) imports all of NEWS.SPOOL into the
\* mailbox of the group at hand, and an article of a sender on the kill list
\* has its file removed.  The reader empties NEWS.SPOOL after a run that was
\* cut short, and no article number reaches 2^16, where EMAIL.n starts again.
THEOREM OwnMailboxes ==
  ASSUME "clears" \in Habits, MaxNum < EmailWrap
  PROVE  Spec => []OwnMailbox
<1>1. Init => IInv /\ SpoolTypes /\ OwnInv
  BY InitSafe, SpoolInit, OwnInit
<1>2. IInv /\ SpoolTypes /\ OwnInv /\ [Next]_vars => IInv' /\ SpoolTypes' /\ OwnInv'
  BY StepSafe, SpoolStep, OwnStep
<1>3. OwnInv => OwnMailbox
  BY DEF OwnInv, Tidy, FilesOwn, OwnMailbox
<1> QED
  BY <1>1, <1>2, <1>3, PTL DEF Spec

-----------------------------------------------------------------------------
(* No article twice                                                        *)

\* No article of g beyond m is in its mailbox.  An m beyond the last article
\* of a group that has been read would have NEXT start at the first one again.
Behind(g, m) ==
  /\ \A i \in DOMAIN db[g] : db[g][i] <= m
  /\ DOMAIN db[g] # {} => (m <= high[g] \/ m <= low[g])

\* A group in which a STAT was refused is read again from its first article.
AllBehind(lines, S) ==
  \A i \in S : lines[i].group \notin refused => Behind(lines[i].group, lines[i].num)

\* The lines that say what the reader has
MarksBehind ==
  /\ pc = "off" /\ cfg # None => AllBehind(cfg, DOMAIN cfg)
  /\ cfg = None => AllBehind(new, DOMAIN new)
  /\ pc \in {"group"} \cup Selecting \cup Importing =>
       AllBehind(cfg, (Done + 1)..Len(cfg)) /\ AllBehind(new, DOMAIN new)

\* NEWS.SPOOL has articles that are not in the mailbox, and none beyond msg.
SpoolAhead ==
  /\ Behind(group, msg)
  /\ \A n \in DOMAIN spool :
       n <= msg /\ msg <= high[group] /\ \A i \in DOMAIN db[group] : db[group][i] < n

\* STAT is for the number the group is read from.
StatAhead == msg = msgnum /\ DOMAIN spool = {}

\* NEXT gives an article that is neither in NEWS.SPOOL nor in the mailbox.
SessionAhead ==
  /\ \A n \in DOMAIN spool : n <= at.num
  /\ \A i \in DOMAIN db[group] : db[group][i] <= at.num

\* What is still to be imported is not in the mailbox, but for the one whose
\* record was just written, and is not beyond the number saved for the group.
ImportAhead ==
  /\ \A n \in DOMAIN spool : \A i \in DOMAIN db[group] :
       db[group][i] = n => pc = "unlink" /\ n = doing
  /\ \A k \in DOMAIN new : new[k].group = group =>
       \A n \in DOMAIN spool : n <= new[k].num /\ new[k].num <= high[group]

Recorded ==
  /\ \A g \in Groups \ refused : \A i, j \in DOMAIN db[g] : db[g][i] = db[g][j] => i = j
  /\ \A g \in Groups : \A i \in DOMAIN db[g] : db[g][i] \in 1..MaxNum

\* No run was cut short and no reply was lost.
Quiet == cuts = 0 /\ lost = {}

OnceInv == Quiet =>
  /\ Recorded
  /\ MarksBehind
  /\ pc = "stat" => StatAhead
  /\ pc \in Selecting /\ group \notin refused => SpoolAhead
  /\ pc \in {"next", "article"} /\ up /\ group \notin refused => SessionAhead
  /\ pc \in Importing /\ group \notin refused => ImportAhead

LEMMA QuietBefore ==
  ASSUME IInv, [Next]_vars, Quiet'
  PROVE  Quiet
<1>1. cuts' = cuts \/ cuts' = cuts + 1
  BY DEF Next, Environment, Replied, Own, Post, Expire, Cancel, RemoveGroup, Drop, ClearSpool, RenameByHand,
     Start, ErrorExit, Crash, SelectGroup, NoSuchGroup, Stat, NextArticle, NoMore, GetArticle,
     SaveMark, ImportOpen, ImportCopy, ImportKill, ImportRecord, ImportUnlink, ImportDone,
     Replace, Finish, vars, history
<1>2. lost \subseteq lost'
  BY DEF Next, Environment, Replied, Own, Post, Expire, Cancel, RemoveGroup, Drop, ClearSpool, RenameByHand,
     Start, ErrorExit, Crash, SelectGroup, NoSuchGroup, Stat, NextArticle, NoMore, GetArticle,
     SaveMark, ImportOpen, ImportCopy, ImportKill, ImportRecord, ImportUnlink, ImportDone,
     Replace, Finish, vars, GroupFound, GroupLost, history
<1>3. cuts \in Nat
  BY Bounds DEF IInv, NewsTypes
<1> QED
  BY <1>1, <1>2, <1>3 DEF Quiet

\* The numbers that Behind compares
LEMMA GroupNumbers ==
  ASSUME IInv, NEW g \in Groups
  PROVE  low[g] \in Nat /\ high[g] \in Nat
BY Bounds DEF IInv, NewsTypes

LEMMA LineOf ==
  ASSUME NEW lines \in Seq(Line), NEW i \in DOMAIN lines
  PROVE  lines[i].group \in Groups /\ lines[i].num \in Nat
<1>1. lines[i] \in Line
  BY ElementOfSeq
<1>2. 0..(Wrap - 1) \subseteq Nat
  BY Bounds
<1> QED
  BY <1>1, <1>2 DEF Line

\* From never goes back behind the number in the line, nor before the group.
LEMMA FromAtLeast ==
  ASSUME NEW num \in Nat, NEW first \in Nat, NEW last \in Nat
  PROVE  /\ From(num, first, last) >= first
         /\ num # 0 => /\ From(num, first, last) \in {num, first}
                       /\ From(num, first, last) >= num
<1>1. (last - FirstFetch) % Wrap \in Nat
  BY Bounds
<1> QED
  BY <1>1 DEF From

\* GROUP makes the first article the current one.
LEMMA CurrentIsFirst ==
  ASSUME NewsTypes, NEW g \in Groups, GroupFound(g)
  PROVE  /\ lownum' = low[g] /\ highnum' = high[g] /\ at'.group = g
         /\ at'.num \in There(g) \cup {NoArticle}
         /\ at'.num \in Nat /\ at'.num >= low[g]
         /\ \A n \in There(g) : at'.num <= n
<1>1. PICK k \in Least(There(g) \cup {NoArticle}) : at' = [group |-> g, num |-> k]
  BY DEF GroupFound
<1>2. k \in There(g) \cup {NoArticle} /\ \A n \in There(g) : k <= n
  BY <1>1 DEF Least
<1>3. low[g] \in 1..(MaxNum + 1)
  BY DEF NewsTypes
<1>4. k \in Nat /\ k >= low[g]
  BY <1>2, <1>3, ThereIs, Bounds DEF NoArticle
<1> QED
  BY <1>1, <1>2, <1>4 DEF GroupFound

\* The group at hand has no line in NEWSGROUPS.NEW before its number is saved.
LEMMA NotYetSaved ==
  ASSUME IInv, pc \in Selecting
  PROVE  \A k \in DOMAIN new : new[k].group # group
<1>1. line \in 1..Len(cfg) /\ cfg \in Seq(Line) /\ Copied /\ cfg # None
  BY GroupAtHand
<1>2. Done = line - 1 /\ Complete(cfg)
  BY <1>1 DEF Done, IInv
<1>3. ASSUME NEW k \in DOMAIN new, new[k].group = group PROVE FALSE
  <2>1. PICK i \in 1..(line - 1) : cfg[i].group = cfg[line].group
    BY <1>2, <1>3, <1>1 DEF Copied, group
  <2>2. i \in DOMAIN cfg /\ line \in DOMAIN cfg /\ i # line
    BY <1>1, LenProperties
  <2> QED
    BY <1>2, <2>1, <2>2 DEF Complete, Distinct
<1> QED
  BY <1>3

\* The lines still to come are of other groups.
LEMMA OthersToCome ==
  ASSUME IInv, pc \in Selecting \cup Importing
  PROVE  \A i \in (line + 1)..Len(cfg) : i \in DOMAIN cfg /\ cfg[i].group # group
<1>1. line \in 1..Len(cfg) /\ cfg \in Seq(Line) /\ cfg # None
  BY GroupAtHand
<1>2. Complete(cfg) /\ DOMAIN cfg = 1..Len(cfg) /\ Len(cfg) \in Nat
  BY <1>1, LenProperties DEF IInv
<1>3. ASSUME NEW i \in (line + 1)..Len(cfg) PROVE i \in DOMAIN cfg /\ cfg[i].group # group
  <2>1. i \in DOMAIN cfg /\ line \in DOMAIN cfg /\ i # line
    BY <1>1, <1>2
  <2> QED
    BY <1>2, <2>1 DEF Complete, Distinct, group
<1> QED
  BY <1>3

\* The server's numbers go up, and low only between runs.
LEMMA AllBehindStill ==
  ASSUME IInv, UNCHANGED <<db, refused>>, \A g \in Groups : low[g] <= low'[g] /\ high[g] <= high'[g],
         low' \in [Groups -> Nat], high' \in [Groups -> Nat],
         NEW lines \in Seq(Line), NEW S \in SUBSET DOMAIN lines, AllBehind(lines, S)
  PROVE  \A i \in S : lines[i].group \notin refused => Behind(lines[i].group, lines[i].num)'
<1> SUFFICES ASSUME NEW i \in S, lines[i].group \notin refused
             PROVE  Behind(lines[i].group, lines[i].num)'
  OBVIOUS
<1> DEFINE g == lines[i].group
           m == lines[i].num
<1>1. g \in Groups /\ m \in Nat
  BY LineOf
<1>2. Behind(g, m)
  BY DEF AllBehind
<1>3. low[g] \in Nat /\ high[g] \in Nat /\ low'[g] \in Nat /\ high'[g] \in Nat
      /\ low[g] <= low'[g] /\ high[g] <= high'[g]
  BY <1>1, GroupNumbers
<1> HIDE DEF g, m
<1>4. Behind(g, m)'
  BY <1>1, <1>2, <1>3 DEF Behind
<1> QED
  BY <1>4 DEF g, m

\* The server, the connection, and nothing at all
LEMMA OnceStill ==
  ASSUME IInv, NewsTypes', OnceInv, Quiet,
         UNCHANGED <<pc, line, cfg, new, spool, db, msg, msgnum, doing, at, refused>>,
         up' => up,
         \A g \in Groups : low[g] <= low'[g] /\ high[g] <= high'[g],
         pc # "off" => low' = low
  PROVE  OnceInv'
<1>1. low' \in [Groups -> Nat] /\ high' \in [Groups -> Nat]
  BY Bounds DEF NewsTypes
<1>2. Done' = Done
  BY DEF Done
<1>3. MarksBehind'
  <2>1. cfg # None => cfg \in Seq(Line) /\ Len(cfg) \in Nat /\ DOMAIN cfg = 1..Len(cfg)
    BY LenProperties DEF IInv, NewsTypes
  <2>2. new # None => new \in Seq(Line)
    BY DEF IInv, NewsTypes
  <2>3. MarksBehind
    BY DEF OnceInv
  <2>4. CASE pc = "off" /\ cfg # None
    <3>1. AllBehind(cfg, DOMAIN cfg)
      BY <2>3, <2>4 DEF MarksBehind
    <3>2. \A i \in DOMAIN cfg : cfg[i].group \notin refused => Behind(cfg[i].group, cfg[i].num)'
      BY <2>1, <2>4, <3>1, <1>1, AllBehindStill
    <3> QED
      BY <2>4, <3>2 DEF MarksBehind, AllBehind, Selecting, Importing
  <2>5. CASE cfg = None
    <3>1. AllBehind(new, DOMAIN new) /\ new # None /\ pc \in {"off", "rename"}
      BY <2>3, <2>5 DEF MarksBehind, IInv
    <3>2. \A i \in DOMAIN new : new[i].group \notin refused => Behind(new[i].group, new[i].num)'
      BY <2>2, <3>1, <1>1, AllBehindStill
    <3> QED
      BY <2>5, <3>1, <3>2 DEF MarksBehind, AllBehind, Selecting, Importing
  <2>6. CASE pc \in {"group"} \cup Selecting \cup Importing
    <3>1. /\ AllBehind(cfg, (Done + 1)..Len(cfg)) /\ AllBehind(new, DOMAIN new)
          /\ new # None /\ cfg # None
      BY <2>3, <2>6 DEF MarksBehind, IInv, Copied, Selecting, Importing
    <3>2. \A i \in DOMAIN new : new[i].group \notin refused => Behind(new[i].group, new[i].num)'
      BY <2>2, <3>1, <1>1, AllBehindStill
    <3>3. (Done + 1)..Len(cfg) \in SUBSET DOMAIN cfg
      <4>1. Done \in Nat
        BY <2>6 DEF Done, IInv, NewsTypes, Copied, Selecting, Importing
      <4> QED
        BY <2>1, <3>1, <4>1
    <3>4. \A i \in (Done + 1)..Len(cfg) :
            cfg[i].group \notin refused => Behind(cfg[i].group, cfg[i].num)'
      BY <2>1, <3>1, <3>3, <1>1, AllBehindStill
    <3> QED
      BY <1>2, <2>6, <3>1, <3>2, <3>4 DEF MarksBehind, AllBehind, Selecting, Importing
  <2> QED
    BY <2>4, <2>5, <2>6 DEF IInv, MarksBehind
<1>4. pc \in Selecting \cup Importing =>
        /\ group \in Groups /\ low[group] \in Nat /\ high[group] \in Nat
        /\ low'[group] = low[group] /\ high'[group] \in Nat /\ high[group] <= high'[group]
        /\ group' = group
  <2>1. pc \in Selecting \cup Importing => group \in Groups /\ pc # "off"
    BY GroupAtHand DEF Selecting, Importing
  <2> QED
    BY <1>1, <2>1, GroupNumbers DEF group
<1>5. ASSUME pc \in Selecting, group \notin refused PROVE SpoolAhead'
  <2>1. msg \in Nat
    BY Bounds DEF IInv, NewsTypes
  <2>2. \A n \in DOMAIN spool : n <= msg /\ msg <= high'[group]
    BY <1>4, <1>5, <2>1 DEF OnceInv, SpoolAhead
  <2> QED
    BY <1>4, <1>5, <2>1, <2>2 DEF OnceInv, SpoolAhead, Behind
<1>6. ASSUME pc = "stat" PROVE StatAhead'
  BY <1>6 DEF OnceInv, StatAhead
<1>7. ASSUME pc \in {"next", "article"}, up', group \notin refused PROVE SessionAhead'
  <2>1. SessionAhead /\ group' = group
    BY <1>4, <1>7 DEF OnceInv, Selecting
  <2> QED
    BY <2>1 DEF SessionAhead
<1>8. ASSUME pc \in Importing, group \notin refused PROVE ImportAhead'
  <2>1. ImportAhead /\ new \in Seq(Line)
    BY <1>8 DEF OnceInv, IInv, NewsTypes, Copied, Importing
  <2>2. ASSUME NEW k \in DOMAIN new, new[k].group = group, NEW n \in DOMAIN spool
        PROVE  n <= new[k].num /\ new[k].num <= high'[group]
    <3>1. new[k].num \in Nat
      BY <2>1, LineOf
    <3>2. n <= new[k].num /\ new[k].num <= high[group]
      BY <2>1, <2>2 DEF ImportAhead
    <3> QED
      BY <1>4, <1>8, <3>1, <3>2
  <2> QED
    BY <1>4, <1>8, <2>1, <2>2 DEF ImportAhead
<1>9. Recorded'
  BY DEF OnceInv, Recorded
<1> QED
  BY <1>3, <1>4, <1>5, <1>6, <1>7, <1>8, <1>9 DEF OnceInv, Selecting, Importing

LEMMA EnvironmentOnce ==
  ASSUME IInv, IInv', OnceInv, Quiet, Environment
  PROVE  OnceInv'
<1>1. NewsTypes' /\ NewsTypes
  BY DEF IInv
<1>2. ASSUME NEW g \in Groups, Post(g) PROVE OnceInv'
  <2>1. /\ UNCHANGED <<low, pc, line, cfg, new, spool, db, msg, msgnum, doing, at, up, refused>>
        /\ high' = [high EXCEPT ![g] = @ + 1]
    BY <1>2 DEF Post, program, disk, history
  <2>2. ASSUME NEW h \in Groups PROVE low[h] <= low'[h] /\ high[h] <= high'[h]
    <3>1. low[h] \in Nat /\ high[h] \in Nat /\ DOMAIN high = Groups
      BY <1>1, GroupNumbers DEF NewsTypes
    <3> QED
      BY <2>1, <3>1
  <2> QED
    BY <1>1, <2>1, <2>2, OnceStill
<1>3. ASSUME NEW g \in Groups, Expire(g) PROVE OnceInv'
  <2>1. /\ UNCHANGED <<high, pc, line, cfg, new, spool, db, msg, msgnum, doing, at, up, refused>>
        /\ low' = [low EXCEPT ![g] = @ + 1] /\ pc = "off"
    BY <1>3 DEF Expire, program, disk, history
  <2>2. ASSUME NEW h \in Groups PROVE low[h] <= low'[h] /\ high[h] <= high'[h]
    <3>1. low[h] \in Nat /\ high[h] \in Nat /\ DOMAIN low = Groups
      BY <1>1, GroupNumbers DEF NewsTypes
    <3> QED
      BY <2>1, <3>1
  <2> QED
    BY <1>1, <2>1, <2>2, OnceStill
<1>4. CASE Drop \/ \E g \in Groups : Cancel(g) \/ RemoveGroup(g)
  <2>1. /\ UNCHANGED <<low, high, pc, line, cfg, new, spool, db, msg, msgnum, doing, at, refused>>
        /\ up' => up
    BY <1>4 DEF Drop, Cancel, RemoveGroup, server, program, disk, history
  <2>2. \A h \in Groups : low[h] <= low'[h] /\ high[h] <= high'[h]
    BY <2>1, GroupNumbers
  <2> QED
    BY <1>1, <2>1, <2>2, OnceStill
<1>5. CASE ClearSpool
  <2>1. pc = "off" /\ UNCHANGED <<low, high, pc, line, cfg, new, db, refused>>
    BY <1>5 DEF ClearSpool, server, program, history
  <2>2. MarksBehind'
    BY <2>1 DEF OnceInv, MarksBehind, AllBehind, Behind, Selecting, Importing
  <2> QED
    BY <2>1, <2>2 DEF OnceInv, Recorded, Selecting, Importing
<1>6. CASE RenameByHand
  <2>1. /\ pc = "off" /\ pc' = "off" /\ cfg = None /\ cfg' = new
        /\ new # None /\ UNCHANGED <<low, high, db, refused>>
    BY <1>6 DEF RenameByHand, server, history, IInv
  <2>2. MarksBehind'
    BY <2>1 DEF OnceInv, MarksBehind, AllBehind, Behind, Selecting, Importing
  <2> QED
    BY <2>1, <2>2 DEF OnceInv, Recorded, Selecting, Importing
<1> QED
  BY <1>2, <1>3, <1>4, <1>5, <1>6 DEF Environment

\* The steps outside a group: the number of lines read, and which file has them
LEMMA OutsideOnce ==
  ASSUME IInv, IInv', OnceInv, Quiet, Start \/ NoSuchGroup \/ ImportDone \/ Replace \/ Finish
  PROVE  OnceInv'
<1>1. UNCHANGED <<low, high, db, refused>> /\ pc' \in {"off", "group", "rename"}
  BY DEF Start, NoSuchGroup, ImportDone, Replace, Finish, server, disk, history
<1>2. MarksBehind'
  <2>1. CASE Start
    <3>1. pc = "off" /\ cfg # None /\ cfg' = cfg /\ pc' = "group" /\ line' = 0 /\ new' = << >>
      BY <2>1 DEF Start, Fresh
    <3>2. Done' = 0 /\ cfg \in Seq(Line)
      BY <3>1 DEF Done, Selecting, IInv, NewsTypes
    <3>3. 1..Len(cfg) = DOMAIN cfg /\ DOMAIN new' = {} /\ AllBehind(cfg, DOMAIN cfg)
      BY <3>1, <3>2, LenProperties DEF OnceInv, MarksBehind
    <3>4. AllBehind(cfg, DOMAIN cfg)'
      BY <1>1, <3>1, <3>3 DEF AllBehind, Behind
    <3>5. AllBehind(new, DOMAIN new)'
      BY <3>3 DEF AllBehind
    <3>6. ((Done + 1)..Len(cfg))' = DOMAIN cfg'
      BY <3>1, <3>2, <3>3
    <3>7. AllBehind(cfg, (Done + 1)..Len(cfg))'
      BY <3>4, <3>6 DEF AllBehind
    <3> QED
      BY <3>1, <3>5, <3>7 DEF MarksBehind
  <2>2. CASE NoSuchGroup
    <3>1. pc = "group" /\ pc' = "group" /\ line' = line + 1 /\ UNCHANGED <<cfg, new>> /\ cfg # None
      BY <2>2 DEF NoSuchGroup, disk, IInv
    <3>2. Done = line /\ Done' = line + 1 /\ line \in Nat /\ Len(cfg) \in Nat
      BY <3>1, LenProperties DEF Done, Selecting, IInv, NewsTypes
    <3>3. (Done' + 1)..Len(cfg) \subseteq (Done + 1)..Len(cfg)
      BY <3>2
    <3> QED
      BY <1>1, <3>1, <3>3 DEF OnceInv, MarksBehind, AllBehind, Behind, Selecting
  <2>3. CASE ImportDone
    <3>1. pc = "import" /\ pc' = "group" /\ UNCHANGED <<cfg, new, line>> /\ cfg # None
      BY <2>3 DEF ImportDone, disk, program, IInv, Importing
    <3>2. Done' = Done
      BY <3>1 DEF Done, Selecting
    <3> QED
      BY <1>1, <3>1, <3>2 DEF OnceInv, MarksBehind, AllBehind, Behind, Importing
  <2>4. CASE Replace
    <3>1. pc = "group" /\ pc' = "rename" /\ UNCHANGED new /\ cfg' = None
      BY <2>4 DEF Replace
    <3> QED
      BY <1>1, <3>1 DEF OnceInv, MarksBehind, AllBehind, Behind, Selecting, Importing
  <2>5. CASE Finish
    <3>1. pc = "rename" /\ pc' = "off" /\ cfg' = new /\ cfg = None /\ new # None
      BY <2>5 DEF Finish, IInv
    <3> QED
      BY <1>1, <3>1 DEF OnceInv, MarksBehind, AllBehind, Behind, Selecting, Importing
  <2> QED
    BY <2>1, <2>2, <2>3, <2>4, <2>5
<1> QED
  BY <1>1, <1>2 DEF OnceInv, Recorded, Selecting, Importing

\* From GROUP on, what is in NEWS.SPOOL and what NEXT gives is ahead of the mailbox.
LEMMA SelectGroupOnce ==
  ASSUME IInv, IInv', SpoolTypes, OwnInv, OnceInv, Quiet, SelectGroup, Quiet'
  PROVE  OnceInv'
<1> DEFINE g == cfg[line + 1].group
           m == cfg[line + 1].num
<1>1. /\ pc = "group" /\ line < Len(cfg) /\ line' = line + 1 /\ line \in Nat
      /\ cfg # None /\ cfg \in Seq(Line) /\ new # None
      /\ UNCHANGED <<low, high, up, cfg, new, spool, db, refused>>
      /\ msgnum' = From(m, lownum', highnum') /\ msg' = msgnum'
      /\ pc' = IF msgnum' <= highnum' THEN "stat" ELSE "next"
  BY DEF SelectGroup, server, disk, history, IInv, NewsTypes, Copied
<1>3. line + 1 \in DOMAIN cfg /\ Len(cfg) \in Nat
  BY <1>1, LenProperties
<1>4. g \in Groups /\ m \in Nat /\ low[g] \in Nat /\ high[g] \in Nat
  BY <1>1, <1>3, LineOf, GroupNumbers
<1>2. /\ lownum' = low[g] /\ highnum' = high[g]
      /\ at'.num \in Nat /\ at'.num >= low[g]
  <2>1. GroupFound(g) \/ GroupLost(g)
    BY DEF SelectGroup
  <2>2. ~GroupLost(g)
    BY DEF GroupLost, Quiet
  <2> QED
    BY <1>4, <2>1, <2>2, CurrentIsFirst DEF IInv
<1>5. Done = line /\ Done' = line /\ group' = g
  BY <1>1 DEF Done, Selecting, group
<1>6. ASSUME g \notin refused PROVE Behind(g, m)
  <2>1. line + 1 \in (Done + 1)..Len(cfg)
    BY <1>1, <1>3, <1>5
  <2> QED
    BY <1>1, <1>6, <2>1 DEF OnceInv, MarksBehind, AllBehind
<1>7. DOMAIN spool = {}
  BY <1>1 DEF OwnInv, Tidy, Quiet, SpoolOwn
<1>8. /\ msgnum' >= low[g] /\ msgnum' \in Nat
      /\ m # 0 => msgnum' \in {m, low[g]} /\ msgnum' >= m
  <2>1. msgnum' \in Nat
    BY Bounds DEF IInv, NewsTypes
  <2> QED
    BY <1>1, <1>2, <1>4, <2>1, FromAtLeast
<1>9. \A i \in DOMAIN db[g] : db[g][i] \in Nat /\ db[g][i] >= 1
  BY <1>4 DEF OnceInv, Recorded
<1> HIDE DEF g, m
<1>10. g \notin refused /\ m = 0 => DOMAIN db[g] = {}
  BY <1>6, <1>9 DEF Behind
<1>11. g \notin refused => Behind(g, msgnum')
  BY <1>4, <1>6, <1>8, <1>9, <1>10 DEF Behind
<1>12. g \notin refused /\ msgnum' > high[g] => \A i \in DOMAIN db[g] : db[g][i] <= low[g]
  BY <1>4, <1>6, <1>8, <1>9, <1>10 DEF Behind
<1>13. MarksBehind'
  BY <1>1, <1>5 DEF OnceInv, MarksBehind, AllBehind, Behind, Selecting, Importing
<1>14. g \notin refused => SpoolAhead'
  BY <1>1, <1>5, <1>7, <1>11 DEF SpoolAhead, Behind
<1>15. StatAhead'
  BY <1>1, <1>7 DEF StatAhead
<1>16. g \notin refused /\ pc' = "next" => SessionAhead'
  BY <1>1, <1>2, <1>4, <1>5, <1>7, <1>8, <1>9, <1>12 DEF SessionAhead
<1>17. Recorded'
  BY <1>1 DEF OnceInv, Recorded
<1> QED
  BY <1>1, <1>5, <1>13, <1>14, <1>15, <1>16, <1>17 DEF OnceInv, Importing

LEMMA SessionOnce ==
  ASSUME IInv, IInv', SpoolTypes, OwnInv, OnceInv, Quiet, Quiet',
         Stat \/ NextArticle \/ NoMore \/ GetArticle
  PROVE  OnceInv'
<1>1. /\ pc \in Selecting /\ pc' \in Selecting /\ refused \subseteq refused'
      /\ UNCHANGED <<low, high, up, line, cfg, new, db, msgnum>>
  BY DEF Stat, NextArticle, NoMore, GetArticle, server, program, disk, history, Selecting
<1>2. group \in Groups /\ group' = group /\ Done' = Done
      /\ low[group] \in Nat /\ high[group] \in Nat /\ msg \in Nat /\ msg' \in Nat /\ at.num \in Nat
  <2>1. group \in Groups
    BY <1>1, GroupAtHand
  <2>2. group' = group /\ Done' = Done
    BY <1>1 DEF group, Done
  <2>3. msg \in Nat /\ msg' \in Nat /\ at.num \in Nat
    BY Bounds DEF IInv, NewsTypes
  <2> QED
    BY <2>1, <2>2, <2>3, GroupNumbers
<1>3. \A i \in DOMAIN db[group] : db[group][i] \in Nat
  BY <1>2 DEF OnceInv, Recorded
<1>4. MarksBehind' /\ Recorded'
  BY <1>1, <1>2 DEF OnceInv, MarksBehind, AllBehind, Behind, Selecting, Importing, IInv, Recorded
<1>5. group \notin refused => SpoolAhead
  BY <1>1 DEF OnceInv
<1>6. CASE Stat
  <2>1. /\ UNCHANGED <<spool, msg>> /\ pc = "stat" /\ pc' = "next"
        /\ at' = IF up /\ msgnum \in There(group) THEN [at EXCEPT !.num = msgnum] ELSE at
        /\ refused' = IF up /\ msgnum \notin There(group) THEN refused \cup {group} ELSE refused
    BY <1>6 DEF Stat, program, disk
  <2>2. group \notin refused' => SpoolAhead'
    BY <1>1, <1>2, <1>5, <2>1 DEF SpoolAhead, Behind
  <2>3. ASSUME up, group \notin refused' PROVE SessionAhead'
    <3>1. msgnum \in There(group) /\ msg = msgnum /\ DOMAIN spool = {}
      BY <1>1, <2>1, <2>3 DEF OnceInv, StatAhead
    <3>2. at'.num = msg
      BY <2>1, <2>3, <3>1 DEF IInv, NewsTypes
    <3>3. SpoolAhead
      BY <1>1, <1>5, <2>3
    <3> QED
      BY <1>1, <1>2, <2>1, <3>1, <3>2, <3>3 DEF SessionAhead, SpoolAhead, Behind
  <2> QED
    BY <1>1, <1>2, <1>4, <2>1, <2>2, <2>3 DEF OnceInv, Importing
<1>7. CASE NextArticle
  <2> DEFINE x == Article(group, msg', FALSE)
  <2>1. /\ pc = "next" /\ pc' = "article" /\ up /\ at' = [at EXCEPT !.num = msg']
        /\ msg' > at.num /\ msg' \in There(group) /\ spool' = With(spool, msg', x)
        /\ UNCHANGED refused
    BY <1>7, NextArticleFile DEF NextArticle, history
  <2>2. at'.num = msg' /\ msg' <= high[group]
    BY <1>2, <1>7, <2>1, ThereIs DEF NextArticle, IInv
  <2> HIDE DEF x
  <2>3. DOMAIN spool' = DOMAIN spool \cup {msg'} /\ \A n \in DOMAIN spool : n \in Nat
    BY <2>1, Bounds DEF SpoolTypes, With
  <2>4. SUFFICES ASSUME group \notin refused PROVE SpoolAhead' /\ SessionAhead'
    BY <1>1, <1>2, <1>4, <2>1 DEF OnceInv, Importing
  <2>5. SessionAhead
    BY <2>1, <2>4 DEF OnceInv
  <2>6. /\ \A i \in DOMAIN db[group] : db[group][i] < msg'
        /\ \A n \in DOMAIN spool : n < msg'
    BY <1>2, <1>3, <2>1, <2>3, <2>5 DEF SessionAhead
  <2>7. SpoolAhead'
    <3>1. ASSUME NEW n \in DOMAIN spool'
          PROVE  n <= msg' /\ \A i \in DOMAIN db[group] : db[group][i] < n
      BY <1>2, <1>5, <2>3, <2>4, <2>6, <3>1 DEF SpoolAhead
    <3>2. Behind(group, msg)'
      BY <1>1, <1>2, <1>3, <2>2, <2>6 DEF Behind
    <3> QED
      BY <1>1, <1>2, <2>2, <3>1, <3>2 DEF SpoolAhead
  <2>8. SessionAhead'
    BY <1>1, <1>2, <1>3, <2>2, <2>3, <2>6 DEF SessionAhead
  <2> QED
    BY <2>7, <2>8
<1>8. CASE NoMore
  <2>1. UNCHANGED <<spool, msg, refused>> /\ pc' = "save"
    BY <1>8 DEF NoMore, program, disk
  <2>2. group \notin refused => SpoolAhead'
    BY <1>1, <1>2, <1>5, <2>1 DEF SpoolAhead, Behind
  <2> QED
    BY <1>2, <1>4, <2>1, <2>2 DEF OnceInv, Importing
<1>9. CASE GetArticle
  <2>1. /\ pc = "article" /\ pc' = "next" /\ UNCHANGED <<msg, at, refused>>
        /\ spool' = [spool EXCEPT ![msg].whole = up]
    BY <1>9 DEF GetArticle, program
  <2>2. DOMAIN spool' = DOMAIN spool
    BY <2>1
  <2>3. group \notin refused => SpoolAhead'
    BY <1>1, <1>2, <1>5, <2>1, <2>2 DEF SpoolAhead, Behind
  <2>4. up /\ group \notin refused => SessionAhead'
    BY <1>1, <1>2, <2>1, <2>2 DEF OnceInv, SessionAhead
  <2> QED
    BY <1>1, <1>2, <1>4, <2>1, <2>3, <2>4 DEF OnceInv, Importing
<1> QED
  BY <1>6, <1>7, <1>8, <1>9

\* The number saved for a group is not before an article of it.
LEMMA SaveMarkOnce ==
  ASSUME IInv, IInv', SpoolTypes, OnceInv, Quiet, SaveMark
  PROVE  OnceInv'
<1> DEFINE x == [group |-> group, num |-> msg]
           longer == Append(new, x)
<1>1. /\ pc = "save" /\ pc' = "import" /\ new' = longer
      /\ UNCHANGED <<low, high, cfg, line, spool, db, msg, refused>>
  BY DEF SaveMark, server, program, history
<1>2. /\ group \in Groups /\ group' = group /\ cfg # None /\ cfg \in Seq(Line)
      /\ line \in 1..Len(cfg) /\ Len(cfg) \in Nat /\ new \in Seq(Line) /\ new # None
  BY <1>1, GroupAtHand, LenProperties DEF Selecting, group, IInv, NewsTypes, Copied
<1>3. x \in Line
  BY <1>2 DEF Line, IInv, NewsTypes
<1>4. \A k \in DOMAIN longer : longer[k] = x \/ (k \in DOMAIN new /\ longer[k] = new[k])
  BY <1>2, <1>3
<1>5. Done = line - 1 /\ Done' = line
  BY <1>1 DEF Done, Selecting
<1>6. group \notin refused => SpoolAhead
  BY <1>1 DEF OnceInv, Selecting
<1> HIDE DEF longer
<1>7. MarksBehind'
  <2>1. AllBehind(cfg, (Done + 1)..Len(cfg)) /\ AllBehind(new, DOMAIN new)
    BY <1>1 DEF OnceInv, MarksBehind, Selecting
  <2>2. AllBehind(cfg, (line + 1)..Len(cfg))
    BY <1>2, <1>5, <2>1 DEF AllBehind
  <2>3. AllBehind(longer, DOMAIN longer)
    BY <1>4, <1>6, <2>1 DEF AllBehind, SpoolAhead
  <2>4. AllBehind(cfg, (line + 1)..Len(cfg))' /\ AllBehind(new, DOMAIN new)'
    BY <1>1, <2>2, <2>3 DEF AllBehind, Behind
  <2> QED
    BY <1>1, <1>2, <1>5, <2>4 DEF MarksBehind
<1>8. ASSUME group \notin refused PROVE ImportAhead'
  <2>1. ASSUME NEW n \in DOMAIN spool, NEW i \in DOMAIN db[group] PROVE db[group][i] # n
    <3>1. db[group][i] < n /\ n \in Nat
      BY <1>6, <1>8, Bounds DEF SpoolAhead, SpoolTypes
    <3> QED
      BY <3>1
  <2>2. ASSUME NEW k \in DOMAIN longer, longer[k].group = group, NEW n \in DOMAIN spool
        PROVE  n <= longer[k].num /\ longer[k].num <= high[group]
    <3>1. longer[k] = x
      BY <1>1, <1>4, <2>2, NotYetSaved DEF Selecting
    <3> QED
      BY <1>6, <1>8, <2>2, <3>1 DEF SpoolAhead
  <2> QED
    BY <1>1, <1>2, <2>1, <2>2 DEF ImportAhead
<1>9. Recorded'
  BY <1>1 DEF OnceInv, Recorded
<1> QED
  BY <1>1, <1>2, <1>7, <1>8, <1>9 DEF OnceInv, Selecting

LEMMA ImportOnce ==
  ASSUME IInv, IInv', SpoolTypes, OwnInv, OnceInv, Quiet, MaxNum < EmailWrap,
         ImportOpen \/ ImportCopy \/ ImportKill \/ ImportRecord \/ ImportUnlink
  PROVE  OnceInv'
<1>1. /\ pc \in Importing /\ pc' \in Importing /\ UNCHANGED <<low, high, line, cfg, new, refused>>
  BY DEF ImportOpen, ImportCopy, ImportKill, ImportRecord, ImportUnlink, server, program, disk,
     history, Importing
<1>2. /\ group \in Groups /\ group' = group /\ Done' = Done /\ Done = line
      /\ cfg # None /\ new # None /\ new \in Seq(Line)
      /\ low[group] \in Nat /\ high[group] \in Nat
  <2>1. group \in Groups /\ cfg # None /\ new # None /\ new \in Seq(Line)
    BY <1>1, GroupAtHand DEF IInv, NewsTypes, Copied
  <2>2. group' = group /\ Done' = Done /\ Done = line
    BY <1>1 DEF group, Done, Selecting, Importing
  <2> QED
    BY <2>1, <2>2, GroupNumbers
<1>3. (group \notin refused => ImportAhead) /\ MarksBehind /\ Recorded
  BY <1>1 DEF OnceInv
<1>4. CASE ImportOpen \/ ImportCopy \/ ImportKill
  <2>1. UNCHANGED <<spool, db>> /\ pc # "unlink"
    BY <1>4 DEF ImportOpen, ImportCopy, ImportKill
  <2>2. group \notin refused => ImportAhead'
    BY <1>1, <1>2, <1>3, <2>1 DEF ImportAhead
  <2>3. MarksBehind' /\ Recorded'
    BY <1>1, <1>2, <1>3, <2>1 DEF MarksBehind, AllBehind, Behind, Recorded, Importing
  <2> QED
    BY <1>1, <1>2, <2>2, <2>3 DEF OnceInv, Importing, Selecting
<1>5. CASE ImportRecord
  <2>1. /\ db' = [db EXCEPT ![group] = Append(@, EmailNum(doing))]
        /\ pc = "record" /\ pc' = "unlink" /\ UNCHANGED <<spool, doing>>
    BY <1>5 DEF ImportRecord, program
  <2>2. doing \in DOMAIN spool /\ doing \in 1..MaxNum /\ EmailNum(doing) = doing
    BY <2>1, ImportAtHand, EmailNumIs
  <2> DEFINE d == db[group]
             e == Append(d, doing)
  <2>3. d \in Seq(Nat) /\ DOMAIN db = Groups /\ doing \in Nat
    BY <1>2, <2>2, Bounds DEF OwnInv, DiskTypes
  <2>4. db'[group] = e /\ \A g \in Groups : g # group => db'[g] = db[g]
    BY <1>2, <2>1, <2>2, <2>3
  <2>5. \A i \in DOMAIN e : \/ i = Len(d) + 1 /\ e[i] = doing
                            \/ i \in DOMAIN d /\ e[i] = d[i]
    BY <2>3, AppendedOne
  <2> HIDE DEF e
  <2>6. group \notin refused => \A i \in DOMAIN d : d[i] # doing
    BY <1>3, <2>1, <2>2 DEF ImportAhead
  <2>7. Recorded'
    <3>1. ASSUME group \notin refused, NEW i \in DOMAIN e, NEW j \in DOMAIN e, e[i] = e[j]
          PROVE  i = j
      BY <1>2, <1>3, <2>5, <2>6, <3>1 DEF Recorded
    <3>2. ASSUME NEW i \in DOMAIN e PROVE e[i] \in 1..MaxNum
      BY <1>2, <1>3, <2>2, <2>5, <3>2 DEF Recorded
    <3> QED
      BY <1>1, <1>3, <2>4, <3>1, <3>2 DEF Recorded
  <2>8. ASSUME NEW k \in DOMAIN new, new[k].group \notin refused PROVE Behind(new[k].group, new[k].num)'
    <3>1. new[k].group \in Groups /\ new[k].num \in Nat /\ Behind(new[k].group, new[k].num)
      BY <1>1, <1>2, <1>3, <2>8, LineOf DEF MarksBehind, AllBehind
    <3>2. CASE new[k].group # group
      BY <1>1, <2>4, <3>1, <3>2 DEF Behind
    <3>3. CASE new[k].group = group
      <4>1. doing <= new[k].num /\ new[k].num <= high[group]
        BY <1>3, <2>2, <2>8, <3>3 DEF ImportAhead
      <4>2. \A i \in DOMAIN e : e[i] <= new[k].num
        BY <2>5, <3>1, <3>3, <4>1 DEF Behind
      <4> QED
        BY <1>1, <2>4, <3>3, <4>1, <4>2 DEF Behind
    <3> QED
      BY <3>2, <3>3
  <2>9. ASSUME NEW i \in (Done + 1)..Len(cfg), cfg[i].group \notin refused
        PROVE  Behind(cfg[i].group, cfg[i].num)'
    <3>1. i \in DOMAIN cfg /\ cfg[i].group # group /\ cfg \in Seq(Line)
      BY <1>1, <1>2, <2>9, OthersToCome, GroupAtHand
    <3>2. cfg[i].group \in Groups /\ Behind(cfg[i].group, cfg[i].num)
      BY <1>1, <1>3, <2>9, <3>1, LineOf DEF MarksBehind, AllBehind
    <3> QED
      BY <1>1, <2>4, <3>1, <3>2 DEF Behind
  <2>10. MarksBehind'
    BY <1>1, <1>2, <2>8, <2>9 DEF MarksBehind, AllBehind, Importing
  <2>11. ASSUME group \notin refused PROVE ImportAhead'
    <3>1. \A n \in DOMAIN spool : \A i \in DOMAIN e : e[i] = n => n = doing
      BY <1>3, <2>1, <2>5, <2>11 DEF ImportAhead
    <3> QED
      BY <1>1, <1>2, <1>3, <2>1, <2>4, <2>11, <3>1 DEF ImportAhead
  <2> QED
    BY <1>1, <1>2, <2>7, <2>10, <2>11 DEF OnceInv, Importing, Selecting
<1>6. CASE ImportUnlink
  <2>1. spool' = Without(spool, doing) /\ pc = "unlink" /\ UNCHANGED db
    BY <1>6 DEF ImportUnlink
  <2>2. DOMAIN spool' = DOMAIN spool \ {doing}
    BY <2>1, WithoutDomain
  <2>3. group \notin refused => ImportAhead'
    BY <1>1, <1>2, <1>3, <2>1, <2>2 DEF ImportAhead
  <2>4. MarksBehind' /\ Recorded'
    BY <1>1, <1>2, <1>3, <2>1 DEF MarksBehind, AllBehind, Behind, Recorded, Importing
  <2> QED
    BY <1>1, <1>2, <2>3, <2>4 DEF OnceInv, Importing, Selecting
<1> QED
  BY <1>4, <1>5, <1>6

LEMMA OnceStep ==
  ASSUME IInv, SpoolTypes, OwnInv, OnceInv, [Next]_vars, MaxNum < EmailWrap
  PROVE  OnceInv'
<1>1. IInv'
  BY StepSafe
<1>2. SUFFICES ASSUME Quiet' PROVE OnceInv'
  BY DEF OnceInv
<1>3. Quiet
  BY <1>2, QuietBefore
<1>4. CASE ErrorExit \/ Crash
  <2>1. cuts' = cuts + 1 /\ cuts \in Nat
    BY <1>4, Bounds DEF ErrorExit, Crash, IInv, NewsTypes
  <2> QED
    BY <1>2, <2>1 DEF Quiet
<1>5. CASE UNCHANGED vars
  <2>1. UNCHANGED <<pc, line, cfg, new, spool, db, msg, msgnum, doing, at, up, low, high, refused>>
    BY <1>5 DEF vars, server, program, disk, history
  <2>2. \A g \in Groups : low[g] <= low'[g] /\ high[g] <= high'[g]
    BY <2>1, GroupNumbers
  <2>3. NewsTypes'
    BY <1>1 DEF IInv
  <2> QED
    BY <1>3, <2>1, <2>2, <2>3, OnceStill
<1> QED
  BY <1>1, <1>2, <1>3, <1>4, <1>5, EnvironmentOnce, OutsideOnce, SelectGroupOnce, SessionOnce,
     SaveMarkOnce, ImportOnce DEF Next, Replied, Own

LEMMA OnceInit == Init => OnceInv
<1> SUFFICES ASSUME Init PROVE OnceInv
  OBVIOUS
<1>1. pc = "off" /\ cfg # None /\ \A g \in Groups : DOMAIN db[g] = {}
  BY InitSafe DEF Init, IInv
<1>2. cfg \in Seq(Line)
  BY <1>1, InitSafe DEF IInv, NewsTypes
<1>3. \A i \in DOMAIN cfg : cfg[i].group \in Groups
  BY <1>2, LineOf
<1> QED
  BY <1>1, <1>3 DEF OnceInv, Recorded, MarksBehind, AllBehind, Behind, Selecting, Importing

\* As long as no run was cut short and no reply was lost, no article is in a
\* news mailbox twice: the number saved for a group (nntp65.c:745-746) is not
\* before an article that update_mailbox then imports, and the next run begins
\* behind it (706-719), also where the server had nothing new, where articles
\* have expired, and where numbers between the articles name none.  It does not
\* hold in a group in which the server has refused a STAT.
THEOREM NoArticleTwice ==
  ASSUME MaxNum < EmailWrap
  PROVE  Spec => []NoRepeats
<1>1. Init => IInv /\ SpoolTypes /\ OwnInv /\ OnceInv
  BY InitSafe, SpoolInit, OwnInit, OnceInit
<1>2. IInv /\ SpoolTypes /\ OwnInv /\ OnceInv /\ [Next]_vars
        => IInv' /\ SpoolTypes' /\ OwnInv' /\ OnceInv'
  BY StepSafe, SpoolStep, OwnStep, OnceStep
<1>3. OnceInv => NoRepeats
  BY DEF OnceInv, Quiet, Recorded, NoRepeats
<1> QED
  BY <1>1, <1>2, <1>3, PTL DEF Spec

-----------------------------------------------------------------------------
(* No article passed over                                                  *)

Skipped(g, n) == [group |-> g, num |-> n] \in skipped

\* Article n needs no more fetching: it is in the mailbox, or never will be.
Got(g, n) ==
  \/ [group |-> g, num |-> n] \in Killed \/ Skipped(g, n)
  \/ /\ n \in DOMAIN files[g]
     /\ \E w \in BOOLEAN : files[g][n] = Article(g, n, w) /\ (w \/ g \in refused)

\* What was promised of g and has neither expired nor been cancelled; of it the
\* server has the numbers up to high[g], and may yet get the others.
Coming(g) == {n \in Promised(g) : low[g] <= n /\ n \notin cancelled[g]}

\* A number of g that NEWSGROUPS.CFG can have.  One beyond the last article is
\* of a group without articles, or no article up to it was promised.
Known(g, m) ==
  /\ m = 0 => \E i \in DOMAIN Subscribed : Subscribed[i] = [group |-> g, num |-> 0]
  /\ m > high[g] => m > NoArticle \/ m <= low[g] \/ \A n \in Promised(g) : n > m

\* All that was promised of g up to m is there, or in NEWS.SPOOL.
Stored(g, m) == \A n \in Coming(g) : n <= Mark(m) => Got(g, n)
Arrived(g, m) ==
  \A n \in Coming(g) : n <= Mark(m) =>
    Got(g, n) \/ (pc \in Importing /\ g = group /\ n \in DOMAIN spool)

CfgStored ==
  \A i \in DOMAIN cfg : cfg[i].group \notin lost =>
    Known(cfg[i].group, cfg[i].num) /\ Stored(cfg[i].group, cfg[i].num)
NewArrived ==
  \A k \in DOMAIN new : new[k].group \notin lost =>
    Known(new[k].group, new[k].num) /\ Arrived(new[k].group, new[k].num)

mark == Mark(cfg[line].num)

\* Of what is promised up to k nothing is left out by the run.
Passed(k) ==
  \A n \in Coming(group) : n <= k =>
    n <= mark \/ n \in DOMAIN spool \/ Skipped(group, n)
Reached == msg # 0 /\ Known(group, msg) /\ Passed(Mark(msg))
CurrentPassed == at.num # NoArticle => Passed(at.num)

\* STAT is for the number the group is read from.
StatInPlace == DOMAIN spool = {} /\ msg = msgnum /\ mark <= msgnum

\* A promised article that NEXT gives is not in the mailbox yet, but where a STAT
\* was refused; and so is one of NEWS.SPOOL, which are whole but for the one that
\* is coming in.
NotRead(n) == n \in Promised(group) => n > mark \/ group \in refused
Ahead == \A n \in Promised(group) : n > at.num => NotRead(n)
SpoolWhole ==
  \A n \in DOMAIN spool :
    NotRead(n) /\ (spool[n] = Article(group, n, TRUE) \/ (pc = "article" /\ n = msg))

SkipInv ==
  /\ DOMAIN cancelled = Groups
  /\ cfg # None => CfgStored
  /\ cfg = None \/ pc \in {"group"} \cup Selecting \cup Importing => NewArrived
  /\ pc = "stat" /\ group \notin lost => StatInPlace
  /\ pc \in {"stat", "next", "article"} /\ group \notin lost => CurrentPassed
  /\ pc \in {"next", "article"} /\ up /\ group \notin lost => Ahead
  /\ pc \in Selecting /\ group \notin lost => Reached
  /\ pc \in Selecting \cup Importing /\ group \notin lost => SpoolWhole
  /\ pc \in {"record", "unlink"} /\ group \notin lost => Got(group, doing)

LEMMA PromisedNat == \A g : \A n \in Promised(g) : n \in 1..MaxNum /\ n \in Nat
BY Bounds DEF Promised

LEMMA MarkIs ==
  ASSUME NEW m \in Nat
  PROVE  /\ Mark(m) \in Nat /\ Mark(m) <= m
         /\ m <= NoArticle => Mark(m) = m
         /\ m > NoArticle => Mark(m) = 0
BY Bounds DEF Mark, NoArticle

\* What no step takes back, but for the user who is not part of it
Onward ==
  /\ \A g \in Groups : low[g] <= low'[g] /\ high[g] <= high'[g] /\ cancelled[g] \subseteq cancelled'[g]
  /\ DOMAIN cancelled' = Groups
  /\ lost \subseteq lost' /\ refused \subseteq refused' /\ skipped \subseteq skipped'

LEMMA StepOnward ==
  ASSUME IInv, SkipInv, [Next]_vars
  PROVE  Onward
<1>1. /\ DOMAIN cancelled = Groups /\ DOMAIN low = Groups /\ DOMAIN high = Groups
      /\ \A g \in Groups : low[g] \in Nat /\ high[g] \in Nat
  BY GroupNumbers DEF SkipInv, IInv, NewsTypes
<1>2. lost \subseteq lost' /\ refused \subseteq refused' /\ skipped \subseteq skipped'
  BY DEF Next, Environment, Replied, Own, Post, Expire, Cancel, RemoveGroup, Drop, ClearSpool,
     RenameByHand, Start, ErrorExit, Crash, SelectGroup, NoSuchGroup, Stat, NextArticle, NoMore,
     GetArticle, SaveMark, ImportOpen, ImportCopy, ImportKill, ImportRecord, ImportUnlink,
     ImportDone, Replace, Finish, vars, GroupFound, GroupLost, history
<1>3. CASE UNCHANGED <<low, high, cancelled>>
  BY <1>1, <1>2, <1>3 DEF Onward
<1>4. ASSUME NEW g \in Groups, Post(g) PROVE Onward
  <2>1. high' = [high EXCEPT ![g] = @ + 1] /\ UNCHANGED <<low, cancelled>>
    BY <1>4 DEF Post
  <2>2. \A h \in Groups : high[h] <= high'[h]
    BY <1>1, <2>1
  <2> QED
    BY <1>1, <1>2, <2>1, <2>2 DEF Onward
<1>5. ASSUME NEW g \in Groups, Expire(g) PROVE Onward
  <2>1. low' = [low EXCEPT ![g] = @ + 1] /\ UNCHANGED <<high, cancelled>>
    BY <1>5 DEF Expire
  <2>2. \A h \in Groups : low[h] <= low'[h]
    BY <1>1, <2>1
  <2> QED
    BY <1>1, <1>2, <2>1, <2>2 DEF Onward
<1>6. ASSUME NEW g \in Groups, Cancel(g) PROVE Onward
  <2>1. PICK n : cancelled' = [cancelled EXCEPT ![g] = @ \cup {n}]
    BY <1>6 DEF Cancel
  <2>2. UNCHANGED <<low, high>>
    BY <1>6 DEF Cancel
  <2>3. DOMAIN cancelled' = Groups /\ \A h \in Groups : cancelled[h] \subseteq cancelled'[h]
    BY <1>1, <2>1
  <2> QED
    BY <1>1, <1>2, <2>2, <2>3 DEF Onward
<1>7. UNCHANGED <<low, high, cancelled>> \/ \E g \in Groups : Post(g) \/ Expire(g) \/ Cancel(g)
  BY DEF Next, Environment, Replied, Own, RemoveGroup, Drop, ClearSpool, RenameByHand, Start,
     ErrorExit, Crash, SelectGroup, NoSuchGroup, Stat, NextArticle, NoMore, GetArticle, SaveMark,
     ImportOpen, ImportCopy, ImportKill, ImportRecord, ImportUnlink, ImportDone, Replace, Finish,
     vars, server
<1> QED
  BY <1>3, <1>4, <1>5, <1>6, <1>7

\* What that means for the articles and numbers of a group
LEMMA GroupOnward ==
  ASSUME IInv, NewsTypes', Onward, NEW g \in Groups
  PROVE  /\ low[g] \in Nat /\ high[g] \in Nat /\ low'[g] \in Nat /\ high'[g] \in Nat
         /\ low[g] <= low'[g] /\ high[g] <= high'[g]
         /\ Coming(g)' \subseteq Coming(g)
         /\ \A n : Skipped(g, n) => Skipped(g, n)'
         /\ \A m \in Nat : Known(g, m) => Known(g, m)'
<1>1. /\ low[g] \in Nat /\ high[g] \in Nat /\ low'[g] \in Nat /\ high'[g] \in Nat
      /\ low[g] <= low'[g] /\ high[g] <= high'[g]
  BY Bounds, GroupNumbers DEF NewsTypes, Onward
<1>2. ASSUME NEW n \in Coming(g)' PROVE n \in Coming(g)
  <2>1. n \in Promised(g) /\ low'[g] <= n /\ n \notin cancelled'[g]
    BY <1>2 DEF Coming, Promised
  <2>2. n \in Nat
    BY <2>1, PromisedNat
  <2> QED
    BY <1>1, <2>1, <2>2 DEF Coming, Onward
<1>3. \A n : Skipped(g, n) => Skipped(g, n)'
  BY DEF Skipped, Onward
<1>4. ASSUME NEW m \in Nat, Known(g, m) PROVE Known(g, m)'
  <2>1. Promised(g)' = Promised(g)
    BY DEF Promised
  <2>2. NoArticle' = NoArticle
    BY DEF NoArticle
  <2> QED
    BY <1>1, <1>4, <2>1, <2>2 DEF Known
<1> QED
  BY <1>1, <1>2, <1>3, <1>4

\* As long as the mailboxes stay, so does what was got.
LEMMA GotStill ==
  ASSUME Onward, UNCHANGED files
  PROVE  \A g, n : Got(g, n) => Got(g, n)'
<1> SUFFICES ASSUME NEW g, NEW n, Got(g, n) PROVE Got(g, n)'
  OBVIOUS
<1>1. Skipped(g, n) => Skipped(g, n)'
  BY DEF Skipped, Onward
<1>2. CASE [group |-> g, num |-> n] \in Killed \/ Skipped(g, n)
  BY <1>1, <1>2 DEF Got
<1>3. CASE n \in DOMAIN files[g] /\ \E w \in BOOLEAN : files[g][n] = Article(g, n, w) /\ (w \/ g \in refused)
  <2>1. PICK w \in BOOLEAN : files[g][n] = Article(g, n, w) /\ (w \/ g \in refused)
    BY <1>3
  <2>2. Article(g, n, w)' = Article(g, n, w) /\ (w \/ g \in refused')
    BY <2>1 DEF Article, Onward
  <2> QED
    BY <1>3, <2>1, <2>2 DEF Got
<1> QED
  BY <1>2, <1>3 DEF Got

\* Lines keep what they say as long as the mailboxes, and the session with its
\* spool where they lean on it, stay.
LEMMA LinesStill ==
  ASSUME IInv, NewsTypes', Onward, UNCHANGED <<files, cfg, new>>,
         cfg # None => cfg \in Seq(Line), new # None => new \in Seq(Line)
  PROVE  /\ cfg # None /\ CfgStored => CfgStored'
         /\ /\ new # None /\ NewArrived
            /\ \A k \in DOMAIN new : new[k].group # group \/ pc \notin Importing
               \/ (pc' \in Importing /\ group' = group /\ UNCHANGED spool)
            => NewArrived'
<1>1. \A g, n : Got(g, n) => Got(g, n)'
  BY GotStill
<1>2. ASSUME cfg # None, CfgStored PROVE CfgStored'
  <2>1. \A i \in DOMAIN cfg : cfg[i].group \in Groups /\ cfg[i].num \in Nat
    BY <1>2, LineOf
  <2>2. ASSUME NEW i \in DOMAIN cfg, cfg[i].group \notin lost'
        PROVE  Known(cfg[i].group, cfg[i].num)' /\ Stored(cfg[i].group, cfg[i].num)'
    <3>1. Known(cfg[i].group, cfg[i].num) /\ Stored(cfg[i].group, cfg[i].num)
      BY <1>2, <2>2 DEF CfgStored, Onward
    <3> DEFINE g == cfg[i].group
               m == cfg[i].num
    <3>2. g \in Groups /\ m \in Nat /\ g' = g /\ m' = m
      BY <2>1
    <3> HIDE DEF g, m
    <3>3. Known(g, m) => Known(g, m)'
      BY <3>2, GroupOnward
    <3>4. Stored(g, m) => Stored(g, m)'
      BY <1>1, <3>2, GroupOnward DEF Stored, Mark, NoArticle
    <3> QED
      BY <3>1, <3>3, <3>4 DEF g, m
  <2> QED
    BY <2>2 DEF CfgStored
<1>3. ASSUME new # None, NewArrived,
             \A k \in DOMAIN new : new[k].group # group \/ pc \notin Importing
               \/ (pc' \in Importing /\ group' = group /\ UNCHANGED spool)
      PROVE  NewArrived'
  <2>1. \A k \in DOMAIN new : new[k].group \in Groups /\ new[k].num \in Nat
    BY <1>3, LineOf
  <2>2. ASSUME NEW k \in DOMAIN new, new[k].group \notin lost'
        PROVE  Known(new[k].group, new[k].num)' /\ Arrived(new[k].group, new[k].num)'
    <3>1. Known(new[k].group, new[k].num) /\ Arrived(new[k].group, new[k].num)
      BY <1>3, <2>2 DEF NewArrived, Onward
    <3>5. new[k].group # group \/ pc \notin Importing
               \/ (pc' \in Importing /\ group' = group /\ UNCHANGED spool)
      BY <1>3, <2>2
    <3> DEFINE g == new[k].group
               m == new[k].num
    <3>2. g \in Groups /\ m \in Nat /\ g' = g /\ m' = m
      BY <2>1, <2>2
    <3>6. g # group \/ pc \notin Importing
               \/ (pc' \in Importing /\ group' = group /\ UNCHANGED spool)
      BY <3>5
    <3> HIDE DEF g, m
    <3>3. Known(g, m) => Known(g, m)'
      BY <3>2, GroupOnward
    <3>4. Arrived(g, m) => Arrived(g, m)'
      BY <1>1, <3>2, <3>6, GroupOnward DEF Arrived, Mark, NoArticle
    <3> QED
      BY <3>1, <3>3, <3>4 DEF g, m
  <2> QED
    BY <2>2 DEF NewArrived
<1> QED
  BY <1>2, <1>3

\* In a group, too, what was passed stays passed.
LEMMA PassedStill ==
  ASSUME IInv, NewsTypes', Onward, group \in Groups, UNCHANGED <<cfg, line>>,
         DOMAIN spool \subseteq DOMAIN spool'
  PROVE  /\ group' = group /\ mark' = mark
         /\ \A k \in Nat : Passed(k) => Passed(k)'
         /\ \A n : NotRead(n) => NotRead(n)'
         /\ \A m \in Nat : Known(group, m) => Known(group, m)'
<1>1. group' = group /\ mark' = mark
  BY DEF group, mark, Mark, NoArticle
<1>2. ASSUME NEW k \in Nat, Passed(k) PROVE Passed(k)'
  BY <1>1, <1>2, GroupOnward DEF Passed
<1>3. ASSUME NEW n, NotRead(n) PROVE NotRead(n)'
  <2>1. Promised(group)' = Promised(group)
    BY <1>1 DEF Promised
  <2> QED
    BY <1>1, <1>3, <2>1 DEF NotRead, Onward
<1>4. \A m \in Nat : Known(group, m) => Known(group, m)'
  <2> DEFINE g == group
  <2>1. g \in Groups /\ g' = g
    BY <1>1
  <2> HIDE DEF g
  <2>2. \A m \in Nat : Known(g, m) => Known(g, m)'
    BY <2>1, GroupOnward
  <2> QED
    BY <2>2 DEF g
<1> QED
  BY <1>1, <1>2, <1>3, <1>4

\* The numbers of the session
LEMMA SessionNumbers ==
  ASSUME IInv
  PROVE  /\ msg \in Nat /\ msgnum \in Nat /\ at.num \in Nat /\ at.num <= NoArticle
         /\ Mark(msg) \in Nat /\ NoArticle \in Nat
<1>1. msg \in Nat /\ msgnum \in Nat /\ at.num \in 0..(MaxNum + 1)
  BY Bounds DEF IInv, NewsTypes
<1> QED
  BY <1>1, MarkIs, Bounds DEF NoArticle

\* The server, the connection, and nothing at all
LEMMA SkipStill ==
  ASSUME IInv, NewsTypes', SkipInv, Onward,
         UNCHANGED <<pc, line, cfg, new, spool, files, msg, msgnum, doing, at, lost>>,
         up' => up
  PROVE  SkipInv'
<1>1. /\ cfg # None => cfg \in Seq(Line)
      /\ new # None => new \in Seq(Line)
      /\ cfg = None \/ pc \in {"group"} \cup Selecting \cup Importing => new # None
      /\ group' = group
  BY DEF IInv, NewsTypes, Copied, group, Selecting, Importing
<1>2. /\ cfg # None => CfgStored'
      /\ cfg = None \/ pc \in {"group"} \cup Selecting \cup Importing => NewArrived'
  BY <1>1, LinesStill DEF SkipInv
<1>3. ASSUME pc \in Selecting \cup Importing, group \notin lost
      PROVE  /\ mark' = mark
             /\ \A k \in Nat : Passed(k) => Passed(k)'
             /\ \A n : NotRead(n) => NotRead(n)'
             /\ \A m \in Nat : Known(group, m) => Known(group, m)'
  <2>1. group \in Groups
    BY <1>3, GroupAtHand
  <2> QED
    BY <2>1, PassedStill
<1>4. /\ msg \in Nat /\ at.num \in Nat /\ Mark(msg) \in Nat /\ Mark(msg)' = Mark(msg)
      /\ NoArticle' = NoArticle
  BY SessionNumbers DEF Mark, NoArticle
<1>5. ASSUME pc = "stat", group \notin lost PROVE StatInPlace'
  BY <1>3, <1>5 DEF SkipInv, StatInPlace, Selecting
<1>6. ASSUME pc \in {"stat", "next", "article"}, group \notin lost PROVE CurrentPassed'
  BY <1>3, <1>4, <1>6 DEF SkipInv, CurrentPassed, Selecting
<1>7. ASSUME pc \in {"next", "article"}, up', group \notin lost PROVE Ahead'
  <2>1. Promised(group)' = Promised(group)
    BY <1>1 DEF Promised
  <2> QED
    BY <1>3, <1>7, <2>1 DEF SkipInv, Ahead, Selecting
<1>8. ASSUME pc \in Selecting, group \notin lost PROVE Reached'
  <2>1. Known(group, msg) => Known(group, msg)'
    BY <1>1, <1>3, <1>4, <1>8 DEF Known
  <2>2. Passed(Mark(msg)) => Passed(Mark(msg))'
    BY <1>3, <1>4, <1>8
  <2> QED
    BY <1>8, <2>1, <2>2 DEF SkipInv, Reached
<1>9. ASSUME pc \in Selecting \cup Importing, group \notin lost PROVE SpoolWhole'
  BY <1>1, <1>3, <1>9 DEF SkipInv, SpoolWhole, Article
<1>10. Got(group, doing) => Got(group, doing)'
  <2>1. \A g, n : Got(g, n) => Got(g, n)'
    BY GotStill
  <2> QED
    BY <1>1, <2>1 DEF Got
<1>11. DOMAIN cancelled' = Groups
  BY DEF Onward
<1> QED
  BY <1>1, <1>2, <1>5, <1>6, <1>7, <1>8, <1>9, <1>10, <1>11 DEF SkipInv

\* Between runs: the two files of lines, and the spool
LEMMA BetweenSkip ==
  ASSUME IInv, IInv', SkipInv, Onward,
         ClearSpool \/ RenameByHand \/ Start \/ ErrorExit \/ Crash \/ Finish \/ Replace
  PROVE  SkipInv'
<1>1. UNCHANGED files /\ pc' \in {"off", "group", "rename"} /\ NewsTypes' /\ NewsTypes
  BY DEF ClearSpool, RenameByHand, Start, ErrorExit, Crash, Finish, Replace, disk, IInv
<1>2. ASSUME NEW g \in Groups, NEW m \in Nat
      PROVE  /\ Known(g, m) => Known(g, m)'
             /\ Stored(g, m) => Stored(g, m)'
             /\ Arrived(g, m) /\ pc \notin Importing => Stored(g, m)' /\ Arrived(g, m)'
  <2>1. \A n : Got(g, n) => Got(g, n)'
    BY <1>1, GotStill
  <2> QED
    BY <1>1, <2>1, GroupOnward DEF Stored, Arrived, Mark, NoArticle
<1>3. ASSUME UNCHANGED cfg, cfg # None, CfgStored PROVE CfgStored'
  BY <1>1, <1>2, <1>3, LineOf DEF CfgStored, NewsTypes, Onward
<1>4. ASSUME new # None, NewArrived, pc \notin Importing, NEW k \in DOMAIN new,
             NEW g \in Groups, NEW m \in Nat,
             new[k].group = g, new[k].num = m, g \notin lost'
      PROVE  Known(g, m)' /\ Stored(g, m)' /\ Arrived(g, m)'
  <2>1. Known(g, m) /\ Arrived(g, m)
    BY <1>4 DEF NewArrived, Onward
  <2> QED
    BY <1>2, <1>4, <2>1
<1>5. DOMAIN cancelled' = Groups
  BY DEF Onward
<1>6. CASE RenameByHand \/ Finish
  <2>1. /\ cfg = None /\ cfg' = new /\ new # None /\ pc' = "off" /\ pc \in {"off", "rename"}
    BY <1>6 DEF RenameByHand, Finish, IInv
  <2>2. CfgStored'
    <3>1. NewArrived /\ pc \notin Importing
      BY <2>1 DEF SkipInv, Importing
    <3>2. ASSUME NEW k \in DOMAIN cfg', cfg'[k].group \notin lost'
          PROVE  (Known(cfg[k].group, cfg[k].num) /\ Stored(cfg[k].group, cfg[k].num))'
      <4>1. PICK g \in Groups, m \in Nat : cfg'[k].group = g /\ cfg'[k].num = m
        BY <1>1, <2>1, <3>2, LineOf DEF NewsTypes
      <4>2. Known(g, m)' /\ Stored(g, m)'
        BY <1>4, <2>1, <3>1, <3>2, <4>1
      <4> QED
        BY <4>1, <4>2 DEF Known, Stored
    <3> QED
      BY <3>2 DEF CfgStored
  <2> QED
    BY <1>5, <2>1, <2>2 DEF SkipInv, Selecting, Importing, IInv
<1>7. CASE Replace
  <2>1. pc = "group" /\ cfg' = None /\ UNCHANGED new /\ pc' = "rename" /\ new # None
    BY <1>7 DEF Replace, IInv, Copied
  <2>2. NewArrived'
    <3>1. NewArrived /\ pc \notin Importing
      BY <2>1 DEF SkipInv, Importing
    <3>2. ASSUME NEW k \in DOMAIN new', new'[k].group \notin lost'
          PROVE  (Known(new[k].group, new[k].num) /\ Arrived(new[k].group, new[k].num))'
      <4>1. PICK g \in Groups, m \in Nat : new'[k].group = g /\ new'[k].num = m
        BY <1>1, <2>1, <3>2, LineOf DEF NewsTypes
      <4>2. Known(g, m)' /\ Arrived(g, m)'
        BY <1>4, <2>1, <3>1, <3>2, <4>1
      <4> QED
        BY <4>1, <4>2 DEF Known, Arrived
    <3> QED
      BY <3>2 DEF NewArrived
  <2> QED
    BY <1>5, <2>1, <2>2 DEF SkipInv, Selecting, Importing
<1>8. CASE Start
  <2>1. cfg # None /\ UNCHANGED cfg /\ new' = << >> /\ pc' = "group"
    BY <1>8 DEF Start
  <2>2. NewArrived'
    BY <2>1 DEF NewArrived
  <2>3. CfgStored'
    BY <1>3, <2>1 DEF SkipInv
  <2> QED
    BY <1>5, <2>1, <2>2, <2>3 DEF SkipInv, Selecting, Importing
<1>9. CASE ClearSpool \/ ErrorExit \/ Crash
  <2>1. /\ UNCHANGED cfg /\ pc' = "off"
        /\ cfg = None => UNCHANGED new /\ pc \in {"off", "rename"} /\ new # None
    BY <1>9 DEF ClearSpool, ErrorExit, Crash, disk, program, IInv
  <2>2. cfg = None => NewArrived'
    <3> SUFFICES ASSUME cfg = None PROVE NewArrived'
      OBVIOUS
    <3>1. NewArrived /\ pc \notin Importing
      BY <2>1 DEF SkipInv, Importing
    <3>2. ASSUME NEW k \in DOMAIN new', new'[k].group \notin lost'
          PROVE  (Known(new[k].group, new[k].num) /\ Arrived(new[k].group, new[k].num))'
      <4>1. PICK g \in Groups, m \in Nat : new'[k].group = g /\ new'[k].num = m
        BY <1>1, <2>1, <3>2, LineOf DEF NewsTypes
      <4>2. Known(g, m)' /\ Arrived(g, m)'
        BY <1>4, <2>1, <3>1, <3>2, <4>1
      <4> QED
        BY <4>1, <4>2 DEF Known, Arrived
    <3> QED
      BY <3>2 DEF NewArrived
  <2>3. cfg # None => CfgStored'
    BY <1>3, <2>1 DEF SkipInv
  <2> QED
    BY <1>5, <2>1, <2>2, <2>3 DEF SkipInv, Selecting, Importing
<1> QED
  BY <1>6, <1>7, <1>8, <1>9

\* The line of a group the server has not is passed, and so is an import that is done.
LEMMA NextLineSkip ==
  ASSUME IInv, IInv', SkipInv, Onward, NoSuchGroup \/ ImportDone
  PROVE  SkipInv'
<1>1. /\ UNCHANGED <<cfg, new, spool, files>> /\ pc' = "group"
      /\ cfg # None /\ new # None /\ CfgStored /\ NewArrived
      /\ pc = "group" \/ DOMAIN spool = {}
  BY DEF NoSuchGroup, ImportDone, disk, IInv, SkipInv, Importing, Copied
<1>2. cfg \in Seq(Line) /\ new \in Seq(Line) /\ NewsTypes'
  BY <1>1 DEF IInv, NewsTypes
<1>3. CfgStored'
  BY <1>1, <1>2, LinesStill
<1>4. ASSUME NEW k \in DOMAIN new, new[k].group \notin lost'
      PROVE  Known(new[k].group, new[k].num)' /\ Arrived(new[k].group, new[k].num)'
  <2> DEFINE g == new[k].group
             m == new[k].num
  <2>1. g \in Groups /\ m \in Nat /\ g' = g /\ m' = m
    BY <1>1, <1>2, LineOf
  <2>2. Known(g, m) /\ Arrived(g, m)
    BY <1>1, <1>4 DEF NewArrived, Onward
  <2>3. \A n : Got(g, n) => Got(g, n)'
    BY <1>1, GotStill
  <2> HIDE DEF g, m
  <2>4. Stored(g, m)
    BY <1>1, <2>2 DEF Stored, Arrived, Importing
  <2>5. Known(g, m)' /\ Arrived(g, m)'
    BY <1>2, <2>1, <2>2, <2>3, <2>4, GroupOnward DEF Stored, Arrived, Mark, NoArticle
  <2> QED
    BY <2>5 DEF g, m
<1>5. NewArrived'
  BY <1>1, <1>4 DEF NewArrived
<1> QED
  BY <1>1, <1>3, <1>5 DEF SkipInv, Onward, Importing, Selecting


LEMMA SmallMod == \A x \in 0..(Wrap - 1) : x % Wrap = x
<1>1. \A x, w \in Nat : w > 0 /\ x < w => x % w = x
  OBVIOUS
<1> QED
  BY <1>1, Bounds

\* A group is read from the number in its line, or from FirstFetch articles back:
\* but for the article STAT is for, no promised one is left out by that, and the
\* number is one that can be saved.
LEMMA FromPassed ==
  ASSUME IInv, NEW g \in Groups, NEW m \in 0..(Wrap - 1), Known(g, m),
         NEW k, k = From(m, low[g], high[g])
  PROVE  /\ m \in Nat /\ k \in Nat /\ k # 0 /\ Mark(m) <= k /\ Known(g, k)
         /\ \A n \in Promised(g) : low[g] <= n /\ n <= Mark(k) => n <= Mark(m) \/ n = k
         /\ k > high[g] => low[g] > high[g] \/ \A n \in Promised(g) : n > Mark(m)
<1>1. low[g] \in 1..(MaxNum + 1) /\ high[g] \in 0..MaxNum /\ m \in Nat
  BY Bounds DEF IInv, NewsTypes
<1>2. low[g] \in Nat /\ high[g] \in Nat /\ low[g] # 0 /\ low[g] <= NoArticle /\ NoArticle \in Nat
  BY <1>1, Bounds DEF NoArticle
<1>3. k \in Nat /\ k >= low[g]
  <2>1. From(m, low[g], high[g]) \in 0..(Wrap - 1)
    BY <1>1, FromRange
  <2> QED
    BY <1>1, <1>2, <2>1, FromAtLeast, Bounds
<1>4. CASE m # 0
  <2>1. k = m \/ (k = low[g] /\ m < low[g])
    BY <1>1, <1>2, <1>4 DEF From
  <2>2. CASE k = m
    BY <1>1, <1>2, <1>4, <2>2, MarkIs, PromisedNat DEF Known
  <2>3. CASE k = low[g] /\ m < low[g]
    <3>1. Mark(k) = k /\ Mark(m) = m
      BY <1>1, <1>2, <1>3, <2>3, MarkIs
    <3> QED
      BY <1>1, <1>2, <1>3, <2>3, <3>1, PromisedNat DEF Known
  <2> QED
    BY <2>1, <2>2, <2>3
<1>5. CASE m = 0
  <2>1. PICK i \in DOMAIN Subscribed : Subscribed[i] = [group |-> g, num |-> 0]
    BY <1>5 DEF Known
  <2>2. ASSUME NEW n \in Promised(g) PROVE n > MaxNum - FirstFetch /\ n \in Nat /\ n > 0
    <3>1. PICK j \in DOMAIN Subscribed :
            /\ Subscribed[j].group = g
            /\ n > IF Subscribed[j].num # 0 THEN Subscribed[j].num ELSE MaxNum - FirstFetch
      BY <2>2 DEF Promised
    <3>2. j = i
      <4>1. \A h, l \in DOMAIN Subscribed :
              Subscribed[h].group = Subscribed[l].group => h = l
        BY NewsAssumption
      <4>2. Subscribed[i].group = g
        BY <2>1
      <4> QED
        BY <3>1, <4>1, <4>2
    <3>3. n \in 1..MaxNum
      BY <2>2, PromisedNat
    <3> QED
      BY <2>1, <3>1, <3>2, <3>3, Bounds
  <2>3. Mark(m) = 0
    BY <1>1, <1>2, <1>5, MarkIs
  <2> DEFINE f == (high[g] - FirstFetch) % Wrap
  <2>4. k = IF f < low[g] THEN low[g] ELSE f
    BY <1>5 DEF From
  <2>5. CASE high[g] >= FirstFetch
    <3>1. f = high[g] - FirstFetch
      <4>1. high[g] - FirstFetch \in 0..(Wrap - 1)
        BY <1>1, <2>5, Bounds
      <4> QED
        BY <4>1, SmallMod
    <3>2. f \in Nat /\ f <= MaxNum - FirstFetch /\ f <= high[g]
      BY <1>1, <2>5, <3>1, Bounds
    <3> HIDE DEF f
    <3>3. Mark(k) <= k
      BY <1>3, MarkIs
    <3>4. Known(g, k)
      BY <1>2, <1>3, <2>4, <3>2 DEF Known
    <3>5. ASSUME NEW n \in Promised(g), low[g] <= n, n <= Mark(k) PROVE n = k
      <4>1. n <= k
        <5>1. Mark(k) \in Nat
          BY <1>3, MarkIs
        <5> QED
          BY <1>3, <2>2, <3>3, <3>5, <5>1
      <4>2. n > MaxNum - FirstFetch /\ n \in Nat
        BY <2>2, <3>5
      <4> QED
        BY <1>2, <1>3, <2>4, <3>2, <3>5, <4>1, <4>2, Bounds
    <3> QED
      BY <1>1, <1>2, <1>3, <2>2, <2>3, <3>4, <3>5
  <2>6. CASE high[g] < FirstFetch
    <3>1. f = Wrap + high[g] - FirstFetch
      <4>1. Wrap + high[g] - FirstFetch \in 0..(Wrap - 1)
        BY <1>1, <2>6, Bounds
      <4>2. (Wrap + high[g] - FirstFetch) % Wrap = Wrap + high[g] - FirstFetch
        BY <4>1, SmallMod
      <4> QED
        BY <1>1, <4>1, <4>2, Bounds
    <3>2. f \in Nat /\ f > NoArticle
      BY <1>1, <2>6, <3>1, Bounds DEF NoArticle
    <3> HIDE DEF f
    <3>3. k = f /\ Mark(k) = 0
      BY <1>2, <1>3, <2>4, <3>2, MarkIs
    <3> QED
      BY <1>1, <1>2, <1>3, <2>2, <2>3, <3>2, <3>3 DEF Known
  <2> QED
    BY <1>1, <2>5, <2>6, Bounds
<1> QED
  BY <1>4, <1>5

\* A run begins with a group: GROUP, and what it makes of the number in the line.
LEMMA SelectGroupSkip ==
  ASSUME IInv, IInv', OwnInv, Tidy, SkipInv, Onward, SelectGroup
  PROVE  SkipInv'
<1>1. /\ pc = "group" /\ line < Len(cfg) /\ line' = line + 1 /\ line \in Nat
      /\ cfg # None /\ cfg \in Seq(Line) /\ new # None /\ new \in Seq(Line)
      /\ UNCHANGED <<low, high, cancelled, up, cfg, new, spool, files>>
      /\ pc' = IF msgnum' <= highnum' THEN "stat" ELSE "next"
      /\ DOMAIN spool = {}
  BY DEF SelectGroup, GroupFound, GroupLost, server, disk, IInv, NewsTypes, Copied, OwnInv, SpoolOwn
<1>2. PICK g \in Groups, m \in 0..(Wrap - 1) : cfg[line + 1] = [group |-> g, num |-> m]
  <2>1. cfg[line + 1] \in Line
    BY <1>1, ElementOfSeq
  <2> QED
    BY <2>1 DEF Line
<1>3. /\ group' = g /\ mark' = Mark(m) /\ line + 1 \in DOMAIN cfg
      /\ GroupFound(g) \/ GroupLost(g)
      /\ msgnum' = From(m, lownum', highnum') /\ msg' = msgnum'
      /\ skipped' = skipped \cup {[group |-> g, num |-> n] :
           n \in {l \in 1..MaxNum : l \in {msgnum', at'.num} /\ l > Mark(m)}}
  BY <1>1, <1>2 DEF SelectGroup, group, mark, Mark, NoArticle
<1>4. CfgStored' /\ NewArrived'
  BY <1>1, LinesStill DEF SkipInv, IInv, Importing
<1>5. ASSUME g \notin lost'
      PROVE  /\ CurrentPassed' /\ Reached'
             /\ pc' = "stat" => StatInPlace'
             /\ pc' = "next" => Ahead'
  <2>1. GroupFound(g) /\ g \notin lost
    BY <1>3, <1>5 DEF GroupLost, GroupFound
  <2>2. /\ lownum' = low[g] /\ highnum' = high[g] /\ at'.num \in There(g) \cup {NoArticle}
        /\ \A n \in There(g) : at'.num <= n
    BY <2>1, CurrentIsFirst DEF IInv
  <2>3. Known(g, m)
    BY <1>1, <1>2, <1>3, <2>1 DEF SkipInv, CfgStored
  <2>4. PICK k : k = From(m, low[g], high[g])
    OBVIOUS
  <2>5. msgnum' = k /\ msg' = k
    BY <1>3, <2>2, <2>4
  <2>6. /\ m \in Nat /\ k \in Nat /\ k # 0 /\ Mark(m) <= k /\ Known(g, k)
        /\ \A n \in Promised(g) : low[g] <= n /\ n <= Mark(k) => n <= Mark(m) \/ n = k
        /\ k > high[g] => low[g] > high[g] \/ \A n \in Promised(g) : n > Mark(m)
    BY <2>3, <2>4, FromPassed
  <2>7. /\ low[g] \in Nat /\ high[g] \in Nat /\ high[g] < NoArticle /\ Mark(m) \in Nat
    <3>1. low[g] \in Nat /\ high[g] \in 0..MaxNum
      BY GroupNumbers DEF IInv, NewsTypes
    <3> QED
      BY <2>6, <3>1, MarkIs, Bounds DEF NoArticle
  <2>8. \A n \in Coming(g)' : n \in Promised(g) /\ n \in 1..MaxNum /\ low[g] <= n /\ n \notin cancelled[g]
    BY <1>1, PromisedNat DEF Coming, Promised
  <2>9. ASSUME NEW n \in 1..MaxNum, n = k \/ n = at'.num, n > Mark(m) PROVE Skipped(g, n)'
    BY <1>3, <2>5, <2>9 DEF Skipped
  <2>10. ASSUME NEW n \in Coming(g)', n <= Mark(k) PROVE n <= Mark(m) \/ Skipped(g, n)'
    <3>1. n \in 1..MaxNum /\ (n <= Mark(m) \/ n = k)
      BY <2>6, <2>8, <2>10
    <3> QED
      BY <2>7, <2>9, <3>1, Bounds
  <2>11. ASSUME NEW n \in Coming(g)', n <= at'.num, at'.num # NoArticle
         PROVE  n <= Mark(m) \/ Skipped(g, n)'
    <3>1. n \in 1..MaxNum /\ low[g] <= n /\ n \notin cancelled[g]
      BY <2>8, <2>11
    <3>2. at'.num \in There(g) /\ at'.num \in low[g]..high[g]
      BY <2>2, <2>11, ThereIs DEF IInv
    <3>3. n \in There(g)
      BY <2>7, <2>11, <3>1, <3>2, Bounds DEF There
    <3>4. n = at'.num
      BY <2>2, <2>7, <2>11, <3>1, <3>2, <3>3, Bounds
    <3> QED
      BY <2>7, <2>9, <3>1, <3>4, Bounds
  <2>12. CurrentPassed'
    BY <1>3, <2>11 DEF CurrentPassed, Passed, Coming, Skipped, NoArticle
  <2>13. Reached'
    <3>1. Known(g, k)' /\ Mark(k)' = Mark(k)
      BY <2>6, GroupOnward DEF Mark, NoArticle, IInv
    <3>2. Passed(Mark(k))'
      BY <1>3, <2>10, <3>1 DEF Passed, Coming, Skipped
    <3>3. Known(group, msg)'
      BY <1>3, <2>5, <3>1 DEF Known
    <3>4. Passed(Mark(msg))'
      BY <2>5, <3>2 DEF Passed, Mark, NoArticle
    <3> QED
      BY <2>5, <2>6, <3>3, <3>4 DEF Reached
  <2>14. pc' = "stat" => StatInPlace'
    BY <1>1, <1>3, <2>5, <2>6 DEF StatInPlace
  <2>15. ASSUME pc' = "next" PROVE Ahead'
    <3>1. k > high[g]
      BY <1>1, <2>2, <2>5, <2>6, <2>7, <2>15
    <3>2. CASE low[g] > high[g]
      <4>1. at'.num = NoArticle
        BY <2>2, <2>7, <3>2, ThereIs DEF IInv
      <4>2. \A n \in Promised(g) : ~(n > at'.num)
        BY <4>1, PromisedNat, Bounds DEF NoArticle
      <4> QED
        BY <1>3, <4>2 DEF Ahead, Promised
    <3>3. CASE \A n \in Promised(g) : n > Mark(m)
      BY <1>3, <3>3 DEF Ahead, NotRead, Promised
    <3> QED
      BY <2>6, <3>1, <3>2, <3>3
  <2> QED
    BY <2>12, <2>13, <2>14, <2>15
<1>6. SpoolWhole'
  BY <1>1 DEF SpoolWhole
<1>7. pc' \in {"stat", "next"}
  BY <1>1
<1> QED
  BY <1>1, <1>3, <1>4, <1>5, <1>6, <1>7 DEF SkipInv, Onward, Importing, Selecting

\* The session within a group
LEMMA SessionSkip ==
  ASSUME IInv, IInv', SpoolTypes, OwnInv, Tidy, SkipInv, Onward,
         Stat \/ NextArticle \/ NoMore \/ GetArticle
  PROVE  SkipInv'
<1>1. /\ pc \in Selecting /\ pc' \in Selecting /\ pc \notin Importing /\ pc' \notin Importing
      /\ UNCHANGED <<low, high, cancelled, up, line, cfg, new, files, msgnum>> /\ NewsTypes'
  BY DEF Stat, NextArticle, NoMore, GetArticle, server, program, disk, Selecting, Importing, IInv
<1>2. /\ group \in Groups /\ cfg # None /\ cfg \in Seq(Line) /\ new # None /\ new \in Seq(Line)
      /\ CfgStored' /\ NewArrived' /\ Mark(cfg[line].num) \in Nat
  <2>1. /\ group \in Groups /\ cfg # None /\ cfg \in Seq(Line) /\ new # None /\ new \in Seq(Line)
        /\ cfg[line] \in Line
    BY <1>1, GroupAtHand DEF Copied, IInv, NewsTypes
  <2>2. CfgStored' /\ NewArrived'
    BY <1>1, <2>1, LinesStill DEF SkipInv
  <2>3. cfg[line].num \in Nat
    BY <2>1, Bounds DEF Line
  <2> QED
    BY <2>1, <2>2, <2>3, MarkIs
<1>3. DOMAIN spool \subseteq DOMAIN spool'
  <2>1. CASE NextArticle
    <3>1. spool' = With(spool, msg', Article(group, msg', FALSE))
      BY <2>1, NextArticleFile
    <3> QED
      BY <3>1 DEF With
  <2>2. CASE GetArticle
    BY <2>2 DEF GetArticle
  <2>3. CASE Stat \/ NoMore
    BY <2>3 DEF Stat, NoMore, disk
  <2> QED
    BY <2>1, <2>2, <2>3
<1>4. /\ group' = group /\ mark' = mark /\ mark \in Nat /\ Promised(group)' = Promised(group)
      /\ \A k \in Nat : Passed(k) => Passed(k)'
      /\ \A n : NotRead(n) => NotRead(n)'
      /\ \A m \in Nat : Known(group, m) => Known(group, m)'
  <2>1. group' = group
    BY <1>1, <1>2, <1>3, PassedStill
  <2>2. Promised(group)' = Promised(group)
    BY <2>1 DEF Promised
  <2> QED
    BY <1>1, <1>2, <1>3, <2>2, PassedStill DEF mark
<1>5. /\ msg \in Nat /\ msg' \in Nat /\ msgnum \in Nat /\ at.num \in Nat /\ at.num <= NoArticle
      /\ at'.num \in Nat /\ Mark(msg) \in Nat /\ NoArticle \in Nat /\ NoArticle' = NoArticle
      /\ group \notin lost' => group \notin lost
  <2>1. msg' \in Nat /\ at'.num \in Nat
    BY <1>1, Bounds DEF NewsTypes
  <2> QED
    BY <2>1, SessionNumbers DEF NoArticle, Onward
<1>6. ASSUME group \notin lost', UNCHANGED msg PROVE Reached'
  <2>1. Reached
    BY <1>1, <1>5, <1>6 DEF SkipInv
  <2>2. Known(group, msg)'
    BY <1>4, <1>5, <1>6, <2>1 DEF Reached, Known
  <2>3. Passed(Mark(msg))' /\ Mark(msg)' = Mark(msg)
    BY <1>4, <1>5, <1>6, <2>1 DEF Reached, Mark, NoArticle
  <2> QED
    BY <1>6, <2>1, <2>2, <2>3 DEF Reached
<1>7. ASSUME group \notin lost', UNCHANGED at, pc \in {"stat", "next", "article"} PROVE CurrentPassed'
  BY <1>4, <1>5, <1>7 DEF SkipInv, CurrentPassed
<1>8. ASSUME group \notin lost', UNCHANGED at, up, pc \in {"next", "article"} PROVE Ahead'
  BY <1>4, <1>5, <1>8 DEF SkipInv, Ahead
<1>9. CASE Stat
  <2>1. /\ UNCHANGED <<spool, msg, lost>> /\ pc = "stat" /\ pc' = "next"
        /\ at' = IF up /\ msgnum \in There(group) THEN [at EXCEPT !.num = msgnum] ELSE at
        /\ refused' = IF up /\ msgnum \notin There(group) THEN refused \cup {group} ELSE refused
    BY <1>9 DEF Stat, program, disk
  <2>2. ASSUME group \notin lost' PROVE StatInPlace /\ Reached
    BY <1>5, <2>1, <2>2 DEF SkipInv, Selecting
  <2>3. ASSUME group \notin lost' PROVE CurrentPassed'
    <3>1. CASE up /\ msgnum \in There(group)
      <4>1. at'.num = msgnum /\ msgnum <= NoArticle
        <5>1. at \in [group : Groups \cup {None}, num : 0..(MaxNum + 1)]
          BY DEF IInv, NewsTypes
        <5>2. msgnum \in 1..MaxNum
          BY <1>2, <3>1, ThereIs DEF IInv
        <5> QED
          BY <2>1, <3>1, <5>1, <5>2, Bounds DEF NoArticle
      <4>2. Passed(msgnum)
        <5>1. Mark(msg) = msgnum
          BY <1>5, <2>2, <2>3, <4>1, MarkIs DEF StatInPlace
        <5> QED
          BY <2>2, <2>3, <5>1 DEF Reached
      <4> QED
        BY <1>4, <1>5, <4>1, <4>2 DEF CurrentPassed
    <3>2. CASE ~(up /\ msgnum \in There(group))
      BY <1>7, <2>1, <2>3, <3>2
    <3> QED
      BY <3>1, <3>2
  <2>4. ASSUME group \notin lost', up PROVE Ahead'
    <3>1. CASE msgnum \in There(group)
      <4>1. at'.num = msgnum /\ mark <= msgnum
        <5>1. at \in [group : Groups \cup {None}, num : 0..(MaxNum + 1)]
          BY DEF IInv, NewsTypes
        <5> QED
          BY <2>1, <2>2, <2>4, <3>1, <5>1 DEF StatInPlace
      <4>2. ASSUME NEW n \in Promised(group), n > at'.num PROVE n > mark
        <5>1. n \in Nat
          BY PromisedNat
        <5> QED
          BY <1>4, <1>5, <4>1, <4>2, <5>1
      <4> QED
        BY <1>4, <4>2 DEF Ahead, NotRead
    <3>2. CASE msgnum \notin There(group)
      BY <1>4, <2>1, <2>4, <3>2 DEF Ahead, NotRead
    <3> QED
      BY <3>1, <3>2
  <2>5. ASSUME group \notin lost' PROVE SpoolWhole'
    BY <2>1, <2>2, <2>5 DEF StatInPlace, SpoolWhole
  <2> QED
    BY <1>1, <1>2, <1>4, <1>6, <2>1, <2>3, <2>4, <2>5 DEF SkipInv, Onward
<1>10. CASE NextArticle
  <2>1. PICK x \in 1..MaxNum : x = msg'
    BY <1>10, NextArticleFile
  <2>2. /\ pc = "next" /\ pc' = "article" /\ up /\ UNCHANGED <<lost, refused, skipped>>
        /\ x \in There(group) /\ x > at.num /\ \A n \in There(group) : n > at.num => x <= n
        /\ at' = [at EXCEPT !.num = x]
        /\ spool' = With(spool, x, Article(group, x, FALSE))
    BY <1>10, <2>1, NextArticleFile DEF NextArticle, history
  <2>3. /\ DOMAIN spool' = DOMAIN spool \cup {x}
        /\ \A n \in DOMAIN spool : n # x => spool'[n] = spool[n]
    BY <2>2 DEF With
  <2>4. at'.num = x /\ x \in Nat /\ x <= NoArticle /\ x <= high[group] /\ x # 0
    <3>1. at \in [group : Groups \cup {None}, num : 0..(MaxNum + 1)]
      BY DEF IInv, NewsTypes
    <3>2. x \in low[group]..high[group]
      BY <1>2, <2>2, ThereIs DEF IInv
    <3> QED
      BY <1>2, <2>2, <3>1, <3>2, Bounds, GroupNumbers DEF NoArticle
  <2>5. ASSUME group \notin lost PROVE Passed(x)'
    <3>1. CurrentPassed
      BY <2>2, <2>5 DEF SkipInv
    <3>2. at.num # NoArticle
      BY <1>5, <2>2, <2>4
    <3>3. ASSUME NEW n \in Coming(group), n <= x
          PROVE  n <= mark \/ n \in DOMAIN spool' \/ Skipped(group, n)
      <4>1. n \in Promised(group) /\ n \in Nat /\ low[group] <= n /\ n \notin cancelled[group]
        BY <3>3, PromisedNat DEF Coming
      <4>2. CASE n <= at.num
        BY <2>3, <3>1, <3>2, <3>3, <4>2 DEF CurrentPassed, Passed
      <4>3. CASE n > at.num
        <5>1. n \in There(group)
          BY <1>2, <1>5, <2>4, <3>3, <4>1, GroupNumbers DEF There
        <5>2. n = x
          BY <1>5, <2>2, <2>4, <3>3, <4>1, <4>3, <5>1
        <5> QED
          BY <2>3, <5>2
      <4> QED
        BY <1>5, <4>1, <4>2, <4>3
    <3>4. Coming(group)' = Coming(group)
      BY <1>1, <1>4 DEF Coming
    <3>5. \A n : Skipped(group, n)' <=> Skipped(group, n)
      BY <1>4, <2>2 DEF Skipped
    <3> QED
      BY <1>4, <3>3, <3>4, <3>5 DEF Passed
  <2>6. ASSUME group \notin lost PROVE Reached'
    <3>1. Known(group, x)
      BY <1>2, <1>5, <2>4, GroupNumbers DEF Known
    <3>2. Known(group, x)'
      BY <1>4, <2>4, <3>1
    <3>3. Known(group, msg)'
      BY <2>1, <3>2 DEF Known
    <3>4. Mark(msg)' = x
      BY <1>5, <2>1, <2>4 DEF Mark
    <3>5. Passed(Mark(msg))'
      BY <2>5, <2>6, <3>4 DEF Passed
    <3> QED
      BY <2>1, <2>4, <3>3, <3>5 DEF Reached
  <2>7. ASSUME group \notin lost PROVE CurrentPassed'
    BY <2>4, <2>5, <2>7 DEF CurrentPassed, Passed
  <2>8. ASSUME group \notin lost PROVE Ahead' /\ NotRead(x)
    <3>1. Ahead
      BY <2>2, <2>8 DEF SkipInv
    <3>2. \A n \in Promised(group) : n > x => n > at.num
      BY <1>5, <2>2, <2>4, PromisedNat
    <3>3. Ahead'
      BY <1>4, <2>4, <3>1, <3>2 DEF Ahead
    <3>4. NotRead(x)
      BY <2>2, <3>1 DEF Ahead, NotRead
    <3> QED
      BY <3>3, <3>4
  <2>9. ASSUME group \notin lost PROVE SpoolWhole'
    <3>1. ASSUME NEW n \in DOMAIN spool', n # x
          PROVE  NotRead(n) /\ spool'[n] = Article(group, n, TRUE)
      BY <1>1, <2>2, <2>3, <2>9, <3>1 DEF SkipInv, SpoolWhole
    <3>2. NotRead(x)
      BY <2>8, <2>9
    <3>3. \A n \in DOMAIN spool' : NotRead(n)'
      BY <1>4, <3>1, <3>2
    <3> QED
      BY <1>4, <2>1, <2>2, <3>1, <3>3 DEF SpoolWhole, Article
  <2> QED
    BY <1>1, <1>2, <1>4, <2>2, <2>6, <2>7, <2>8, <2>9 DEF SkipInv, Onward
<1>11. CASE NoMore
  <2>1. /\ UNCHANGED <<spool, msg>> /\ pc = "next" /\ pc' = "save"
    BY <1>11 DEF NoMore, program, disk
  <2>2. ASSUME group \notin lost' PROVE SpoolWhole'
    BY <1>1, <1>4, <1>5, <2>1, <2>2 DEF SkipInv, SpoolWhole, Article
  <2> QED
    BY <1>1, <1>2, <1>4, <1>6, <2>1, <2>2 DEF SkipInv, Onward
<1>12. CASE GetArticle
  <2>1. /\ pc = "article" /\ pc' = "next" /\ UNCHANGED <<msg, at>>
        /\ spool' = [spool EXCEPT ![msg].whole = up]
        /\ lost' = IF up THEN lost ELSE lost \cup {group}
    BY <1>12 DEF GetArticle, program
  <2>2. DOMAIN spool' = DOMAIN spool
        /\ \A n \in DOMAIN spool : n # msg => spool'[n] = spool[n]
    BY <2>1
  <2>3. ASSUME group \notin lost' PROVE up = TRUE
    BY <1>2, <2>1, <2>3 DEF IInv, NewsTypes
  <2>4. ASSUME group \notin lost' PROVE spool'[msg] = Article(group, msg, TRUE)
    <3>1. msg \in DOMAIN spool
          /\ spool[msg] \in [group : Groups, num : {msg}, whole : BOOLEAN]
      BY <2>1 DEF SpoolTypes
    <3>2. spool[msg].group = group /\ spool[msg].num = msg
      BY <1>1, <3>1 DEF OwnInv, SpoolOwn
    <3>3. spool'[msg] = [spool[msg] EXCEPT !.whole = up]
      BY <2>1, <3>1
    <3> QED
      BY <2>3, <2>4, <3>1, <3>2, <3>3 DEF Article
  <2>5. ASSUME group \notin lost' PROVE SpoolWhole'
    <3>1. \A n \in DOMAIN spool : NotRead(n) /\ spool'[n] = Article(group, n, TRUE)
      BY <1>1, <1>5, <2>1, <2>2, <2>4, <2>5 DEF SkipInv, SpoolWhole
    <3> QED
      BY <1>4, <2>2, <3>1 DEF SpoolWhole, Article
  <2> QED
    BY <1>1, <1>2, <1>4, <1>6, <1>7, <1>8, <2>1, <2>3, <2>5 DEF SkipInv, Onward
<1> QED
  BY <1>9, <1>10, <1>11, <1>12

\* The number that is saved says no more than what the run has fetched.
LEMMA SaveMarkSkip ==
  ASSUME IInv, IInv', SkipInv, Onward, SaveMark
  PROVE  SkipInv'
<1>1. /\ pc = "save" /\ pc' = "import" /\ new' = Append(new, [group |-> group, num |-> msg])
      /\ UNCHANGED <<low, high, cancelled, cfg, line, spool, files, lost, refused, skipped>>
      /\ NewsTypes'
  BY DEF SaveMark, server, program, disk, history, IInv
<1>2. /\ cfg # None /\ cfg \in Seq(Line) /\ line \in DOMAIN cfg /\ new # None /\ new \in Seq(Line)
      /\ new' # None /\ CfgStored /\ NewArrived /\ group \in Groups
  <2>1. /\ group \in Groups /\ cfg # None /\ cfg \in Seq(Line) /\ line \in 1..Len(cfg)
        /\ new \in Seq(Line) /\ new # None
    BY <1>1, GroupAtHand DEF Selecting, IInv, NewsTypes, Copied
  <2>2. CfgStored /\ NewArrived /\ new' # None
    BY <1>1, <2>1 DEF SkipInv, Selecting, Importing, IInv, Copied
  <2> QED
    BY <2>1, <2>2, LenProperties
<1>3. PICK g \in Groups, m \in Nat : g = group /\ m = msg
  BY <1>2, SessionNumbers
<1> DEFINE x == [group |-> g, num |-> m]
<1>4. /\ group' = g /\ mark' = mark /\ new' = Append(new, x) /\ x \in Line
      /\ cfg[line].group = g
  BY <1>1, <1>3 DEF group, mark, Mark, NoArticle, Line, IInv, NewsTypes
<1>5. /\ \A k \in DOMAIN new' : new'[k] = x \/ (k \in DOMAIN new /\ new'[k] = new[k])
  BY <1>2, <1>4
<1>6. CfgStored'
  <2>1. \A h, n : Got(h, n) => Got(h, n)'
    BY <1>1, GotStill
  <2>2. ASSUME NEW i \in DOMAIN cfg, cfg[i].group \notin lost'
        PROVE  (Known(cfg[i].group, cfg[i].num) /\ Stored(cfg[i].group, cfg[i].num))'
    <3>1. PICK h \in Groups, l \in Nat : cfg[i].group = h /\ cfg[i].num = l
      BY <1>2, <2>2, LineOf
    <3>2. Known(h, l) /\ Stored(h, l)
      BY <1>1, <1>2, <2>2, <3>1 DEF CfgStored
    <3>3. Known(h, l)' /\ Stored(h, l)'
      BY <1>1, <2>1, <3>2, GroupOnward DEF Stored, Mark, NoArticle
    <3> QED
      BY <1>1, <3>1, <3>3 DEF Known, Stored
  <2> QED
    BY <1>1, <2>2 DEF CfgStored
<1>7. ASSUME g \notin lost PROVE Known(g, m)' /\ Arrived(g, m)'
  <2>1. Known(g, m) /\ Passed(Mark(m))
    BY <1>1, <1>3, <1>7 DEF SkipInv, Reached, Selecting
  <2>2. Known(g, m)'
    BY <1>1, <2>1, GroupOnward
  <2>3. Stored(g, cfg[line].num)
    BY <1>2, <1>4, <1>7 DEF CfgStored
  <2>4. ASSUME NEW n \in Coming(g), n <= Mark(m) PROVE Got(g, n) \/ n \in DOMAIN spool
    <3>1. n <= mark \/ n \in DOMAIN spool \/ Skipped(g, n)
      BY <1>3, <2>1, <2>4 DEF Passed
    <3>2. n <= mark => Got(g, n)
      BY <2>3, <2>4 DEF Stored, mark
    <3> QED
      BY <3>1, <3>2 DEF Got
  <2>5. \A n : Got(g, n) => Got(g, n)'
    BY <1>1, GotStill
  <2>6. Coming(g)' \subseteq Coming(g)
    BY <1>1, GroupOnward
  <2>7. Arrived(g, m)'
    BY <1>1, <1>4, <2>4, <2>5, <2>6 DEF Arrived, Importing, Mark, NoArticle
  <2> QED
    BY <2>2, <2>7
<1>8. ASSUME NEW k \in DOMAIN new', new'[k].group \notin lost
      PROVE  (Known(new[k].group, new[k].num) /\ Arrived(new[k].group, new[k].num))'
  <2>1. CASE new'[k] = x
    <3>1. new'[k].group = g /\ new'[k].num = m
      BY <2>1
    <3> QED
      BY <1>7, <1>8, <3>1 DEF Known, Arrived
  <2>2. CASE k \in DOMAIN new /\ new'[k] = new[k]
    <3>1. PICK h \in Groups, l \in Nat : new'[k].group = h /\ new'[k].num = l
      BY <1>2, <2>2, LineOf
    <3>2. Known(h, l) /\ Stored(h, l)
      BY <1>1, <1>2, <1>8, <2>2, <3>1 DEF NewArrived, Arrived, Stored, Importing
    <3>3. \A n : Got(h, n) => Got(h, n)'
      BY <1>1, GotStill
    <3>4. Known(h, l)' /\ Arrived(h, l)'
      BY <1>1, <3>2, <3>3, GroupOnward DEF Stored, Arrived, Mark, NoArticle
    <3> QED
      BY <3>1, <3>4 DEF Known, Arrived
  <2> QED
    BY <1>5, <1>8, <2>1, <2>2
<1>9. NewArrived'
  BY <1>1, <1>8 DEF NewArrived
<1>10. ASSUME group \notin lost PROVE SpoolWhole'
  <2>1. \A n \in DOMAIN spool : NotRead(n) /\ spool[n] = Article(g, n, TRUE)
    BY <1>1, <1>3, <1>10 DEF SkipInv, SpoolWhole, Selecting
  <2>2. \A n : NotRead(n) => NotRead(n)'
    BY <1>1, <1>2, PassedStill
  <2> QED
    BY <1>1, <1>4, <2>1, <2>2 DEF SpoolWhole, Article
<1> QED
  BY <1>1, <1>2, <1>3, <1>4, <1>6, <1>9, <1>10 DEF SkipInv, Onward, Selecting

\* An article is taken from NEWS.SPOOL only when it is in the mailbox or is to be
\* nowhere, and the articles of the group up to its old number stay where they are.
LEMMA ImportFiles ==
  ASSUME IInv, IInv', SkipInv, Onward,
         pc \in Importing, pc' \in Importing,
         UNCHANGED <<low, high, cancelled, line, cfg, new, lost, refused, skipped>>,
         \A g \in Groups : g # group => \A n : Got(g, n) => Got(g, n)',
         group \notin lost =>
           \A n \in Promised(group) : n <= mark /\ Got(group, n) => Got(group, n)',
         group \notin lost =>
           \A n : Got(group, n) \/ n \in DOMAIN spool => Got(group, n)' \/ n \in DOMAIN spool'
  PROVE  CfgStored' /\ NewArrived'
<1>1. /\ group \in Groups /\ group' = group /\ cfg # None /\ cfg \in Seq(Line)
      /\ line \in DOMAIN cfg /\ new \in Seq(Line) /\ Distinct(cfg) /\ CfgStored /\ NewArrived
      /\ NewsTypes'
  <2>1. /\ group \in Groups /\ cfg # None /\ cfg \in Seq(Line) /\ line \in 1..Len(cfg)
        /\ new \in Seq(Line)
    BY GroupAtHand DEF IInv, NewsTypes, Copied
  <2>2. group' = group /\ line \in DOMAIN cfg
    BY <2>1, LenProperties DEF group
  <2>3. CfgStored /\ NewArrived /\ Distinct(cfg) /\ NewsTypes'
    BY <2>1 DEF SkipInv, IInv, Complete
  <2> QED
    BY <2>1, <2>2, <2>3
<1>2. ASSUME NEW i \in DOMAIN cfg, cfg[i].group \notin lost
      PROVE  (Known(cfg[i].group, cfg[i].num) /\ Stored(cfg[i].group, cfg[i].num))'
  <2>1. PICK g \in Groups, m \in Nat : cfg[i].group = g /\ cfg[i].num = m
    BY <1>1, <1>2, LineOf
  <2>2. Known(g, m) /\ Stored(g, m)
    BY <1>1, <1>2, <2>1 DEF CfgStored
  <2>3. Known(g, m)' /\ Coming(g)' \subseteq Coming(g)
    BY <1>1, <2>2, GroupOnward
  <2>4. ASSUME NEW n \in Coming(g), n <= Mark(m), Got(g, n) PROVE Got(g, n)'
    <3>1. CASE g # group
      BY <2>4, <3>1
    <3>2. CASE g = group
      <4>1. i = line
        BY <1>1, <2>1, <3>2 DEF Distinct, group
      <4>2. mark = Mark(m)
        BY <2>1, <4>1 DEF mark
      <4>3. Got(group, n)'
        BY <1>2, <2>1, <2>4, <3>2, <4>2 DEF Coming
      <4> QED
        BY <1>1, <3>2, <4>3 DEF Got
    <3> QED
      BY <3>1, <3>2
  <2>5. Stored(g, m)'
    BY <2>2, <2>3, <2>4 DEF Stored, Mark, NoArticle
  <2> QED
    BY <2>1, <2>3, <2>5 DEF Known, Stored
<1>3. ASSUME NEW k \in DOMAIN new, new[k].group \notin lost
      PROVE  (Known(new[k].group, new[k].num) /\ Arrived(new[k].group, new[k].num))'
  <2>1. PICK g \in Groups, m \in Nat : new[k].group = g /\ new[k].num = m
    BY <1>1, <1>3, LineOf
  <2>2. Known(g, m) /\ Arrived(g, m)
    BY <1>1, <1>3, <2>1 DEF NewArrived
  <2>3. Known(g, m)' /\ Coming(g)' \subseteq Coming(g)
    BY <1>1, <2>2, GroupOnward
  <2>4. ASSUME g # group PROVE Arrived(g, m)'
    <3>1. \A n : Got(g, n) => Got(g, n)'
      BY <2>4
    <3> QED
      BY <1>1, <2>2, <2>3, <2>4, <3>1 DEF Arrived, Mark, NoArticle
  <2>5. ASSUME g = group PROVE Arrived(g, m)'
    <3>1. \A n : Got(g, n) \/ n \in DOMAIN spool => Got(g, n)' \/ n \in DOMAIN spool'
      BY <1>1, <1>3, <2>1, <2>5 DEF Got
    <3> QED
      BY <1>1, <2>2, <2>3, <2>5, <3>1 DEF Arrived, Mark, NoArticle
  <2> QED
    BY <2>1, <2>3, <2>4, <2>5 DEF Known, Arrived
<1> QED
  BY <1>2, <1>3 DEF CfgStored, NewArrived

LEMMA ImportSkip ==
  ASSUME IInv, IInv', SpoolTypes, OwnInv, Tidy, SkipInv, Onward, MaxNum < EmailWrap,
         ImportOpen \/ ImportCopy \/ ImportKill \/ ImportRecord \/ ImportUnlink
  PROVE  SkipInv'
<1>1. /\ pc \in Importing /\ pc' \in Importing /\ pc \notin Selecting /\ pc' \notin Selecting
      /\ UNCHANGED <<low, high, cancelled, line, cfg, new, lost, refused, skipped>>
      /\ pc' \notin {"group", "stat", "next", "article"}
  BY DEF ImportOpen, ImportCopy, ImportKill, ImportRecord, ImportUnlink, server, program, disk,
     history, Importing, Selecting
<1>2. /\ group \in Groups /\ group' = group /\ mark' = mark /\ DOMAIN files = Groups
      /\ cfg # None
  <2>1. group \in Groups /\ cfg # None
    BY <1>1, GroupAtHand
  <2>2. group' = group /\ mark' = mark
    BY <1>1 DEF group, mark, Mark, NoArticle
  <2> QED
    BY <2>1, <2>2 DEF OwnInv, DiskTypes
<1>3. \A n \in DOMAIN spool : n \in 1..MaxNum /\ EmailNum(n) = n
  BY EmailNumIs DEF SpoolTypes
<1>4. ASSUME group \notin lost, NEW n \in DOMAIN spool
      PROVE  NotRead(n) /\ spool[n] = Article(group, n, TRUE)
  BY <1>1, <1>4 DEF SkipInv, SpoolWhole, Importing
<1>5. \A n : NotRead(n)' <=> NotRead(n)
  BY <1>1, <1>2 DEF NotRead, Promised
<1>6. CASE ImportOpen
  <2>1. PICK d \in DOMAIN spool :
          /\ doing' = d
          /\ files' = [files EXCEPT ![group] = With(@, EmailNum(d), [spool[d] EXCEPT !.whole = FALSE])]
    BY <1>6 DEF ImportOpen
  <2>2. pc' = "copy" /\ UNCHANGED spool /\ EmailNum(d) = d
    BY <1>3, <1>6 DEF ImportOpen
  <2> DEFINE x == [spool[d] EXCEPT !.whole = FALSE]
  <2>3. /\ \A g \in Groups : g # group => files'[g] = files[g]
        /\ files'[group] = With(files[group], d, x)
    BY <1>2, <2>1, <2>2
  <2>4. ASSUME group \notin lost PROVE x = Article(group, d, FALSE)
    <3>1. spool[d] = Article(group, d, TRUE)
      BY <1>4, <2>4
    <3>2. spool[d] \in [group : Groups, num : {d}, whole : BOOLEAN]
      BY DEF SpoolTypes
    <3>3. spool[d].group = group /\ spool[d].num = d
      BY <3>1 DEF Article
    <3>4. \A w \in BOOLEAN : [spool[d] EXCEPT !.whole = w] = Article(group, d, w)
      BY <3>2, <3>3 DEF Article
    <3> QED
      BY <3>4
  <2> HIDE DEF x
  <2>5. /\ DOMAIN files'[group] = DOMAIN files[group] \cup {d}
        /\ files'[group][d] = x
        /\ \A n \in DOMAIN files[group] : n # d => files'[group][n] = files[group][n]
    BY <2>3 DEF With
  <2>6. \A n : n # d /\ Got(group, n) => Got(group, n)'
    BY <1>1, <1>2, <2>5 DEF Got, Skipped, Article
  <2>7. group \notin lost /\ group \in refused => Got(group, d)'
    BY <1>1, <1>2, <2>4, <2>5 DEF Got, Article
  <2>8. \A g \in Groups : g # group => \A n : Got(g, n) => Got(g, n)'
    BY <1>1, <2>3 DEF Got, Skipped, Article
  <2>9. ASSUME group \notin lost, NEW n \in Promised(group), n <= mark, Got(group, n)
        PROVE  Got(group, n)'
    <3>1. CASE n = d
      <4>1. ~(n > mark)
        <5>1. mark \in Nat /\ n \in Nat
          <6>1. cfg[line] \in Line
            BY <1>1, GroupAtHand
          <6>2. cfg[line].num \in Nat
            BY <6>1, Bounds DEF Line
          <6> QED
            BY <2>9, <6>2, MarkIs, PromisedNat DEF mark
        <5> QED
          BY <2>9, <5>1
      <4>2. group \in refused
        BY <1>4, <2>9, <3>1, <4>1 DEF NotRead
      <4> QED
        BY <1>2, <2>7, <2>9, <3>1, <4>2 DEF Got
    <3>2. CASE n # d
      BY <2>6, <2>9, <3>2
    <3> QED
      BY <3>1, <3>2
  <2>10. CfgStored' /\ NewArrived'
    <3>1. \A n : Got(group, n) \/ n \in DOMAIN spool => Got(group, n)' \/ n \in DOMAIN spool'
      BY <2>2, <2>6
    <3> QED
      BY <1>1, <2>8, <2>9, <3>1, ImportFiles
  <2>11. group \notin lost => SpoolWhole'
    BY <1>2, <1>4, <1>5, <2>2 DEF SpoolWhole, Article
  <2> QED
    BY <1>1, <1>2, <2>2, <2>10, <2>11 DEF SkipInv, Onward
<1>7. CASE ImportCopy
  <2>1. /\ files' = [files EXCEPT ![group][EmailNum(doing)] = spool[doing]]
        /\ pc = "copy" /\ pc' = "record" /\ UNCHANGED <<spool, doing>>
    BY <1>7 DEF ImportCopy, program
  <2>2. doing \in DOMAIN spool /\ EmailNum(doing) = doing /\ doing \in DOMAIN files[group]
    BY <1>3, <2>1 DEF SpoolTypes, OwnInv, FilesOwn
  <2>3. /\ \A g \in Groups : g # group => files'[g] = files[g]
        /\ files'[group] = [files[group] EXCEPT ![doing] = spool[doing]]
    BY <1>2, <2>1, <2>2
  <2>4. /\ DOMAIN files'[group] = DOMAIN files[group]
        /\ files'[group][doing] = spool[doing]
        /\ \A n \in DOMAIN files[group] : n # doing => files'[group][n] = files[group][n]
    BY <2>2, <2>3
  <2>5. \A n : n # doing /\ Got(group, n) => Got(group, n)'
    BY <1>1, <1>2, <2>4 DEF Got, Skipped, Article
  <2>6. group \notin lost => Got(group, doing)'
    BY <1>2, <1>4, <2>1, <2>2, <2>4 DEF Got, Article
  <2>7. CfgStored' /\ NewArrived'
    <3>1. \A g \in Groups : g # group => \A n : Got(g, n) => Got(g, n)'
      BY <1>1, <2>3 DEF Got, Skipped, Article
    <3>2. group \notin lost => \A n : Got(group, n) => Got(group, n)'
      BY <1>2, <2>1, <2>5, <2>6 DEF Got
    <3>3. group \notin lost => \A n :
            Got(group, n) \/ n \in DOMAIN spool => Got(group, n)' \/ n \in DOMAIN spool'
      BY <2>1, <3>2
    <3> QED
      BY <1>1, <3>1, <3>2, <3>3, ImportFiles
  <2>8. group \notin lost => SpoolWhole'
    BY <1>2, <1>4, <1>5, <2>1 DEF SpoolWhole, Article
  <2> QED
    BY <1>1, <1>2, <2>1, <2>6, <2>7, <2>8 DEF SkipInv, Onward
<1>8. CASE ImportKill
  <2>1. /\ files' = [files EXCEPT ![group] = Without(@, EmailNum(doing))]
        /\ pc = "copy" /\ pc' = "unlink" /\ UNCHANGED <<spool, doing>>
        /\ [group |-> spool[doing].group, num |-> spool[doing].num] \in Killed
    BY <1>8 DEF ImportKill, program
  <2>2. /\ doing \in DOMAIN spool /\ EmailNum(doing) = doing /\ spool[doing].num = doing
        /\ spool[doing].group = group
    BY <1>1, <1>3, <2>1, ImportAtHand DEF OwnInv, SpoolOwn
  <2>3. /\ \A g \in Groups : g # group => files'[g] = files[g]
        /\ files'[group] = Without(files[group], doing)
    BY <1>2, <2>1, <2>2
  <2>4. /\ DOMAIN files'[group] = DOMAIN files[group] \ {doing}
        /\ \A n \in DOMAIN files[group] : n # doing => files'[group][n] = files[group][n]
    BY <2>3 DEF Without
  <2>5. \A n : n # doing /\ Got(group, n) => Got(group, n)'
    BY <1>1, <1>2, <2>4 DEF Got, Skipped, Article
  <2>6. Got(group, doing)'
    BY <1>2, <2>1, <2>2 DEF Got
  <2>7. \A n : Got(group, n) => Got(group, n)'
    BY <1>2, <2>1, <2>5, <2>6 DEF Got
  <2>8. CfgStored' /\ NewArrived'
    <3>1. \A g \in Groups : g # group => \A n : Got(g, n) => Got(g, n)'
      BY <1>1, <2>3 DEF Got, Skipped, Article
    <3>2. \A n : Got(group, n) \/ n \in DOMAIN spool => Got(group, n)' \/ n \in DOMAIN spool'
      BY <2>1, <2>7
    <3> QED
      BY <1>1, <2>7, <3>1, <3>2, ImportFiles
  <2>9. group \notin lost => SpoolWhole'
    BY <1>2, <1>4, <1>5, <2>1 DEF SpoolWhole, Article
  <2> QED
    BY <1>1, <1>2, <2>1, <2>6, <2>8, <2>9 DEF SkipInv, Onward
<1>9. CASE ImportRecord \/ ImportUnlink
  <2>1. /\ UNCHANGED <<files, doing>>
        /\ \/ pc = "record" /\ pc' = "unlink" /\ UNCHANGED spool
           \/ pc = "unlink" /\ pc' = "import" /\ spool' = Without(spool, doing)
    BY <1>9 DEF ImportRecord, ImportUnlink, program
  <2>2. \A g, n : Got(g, n) => Got(g, n)'
    BY <2>1, GotStill
  <2>3. /\ DOMAIN spool' \subseteq DOMAIN spool
        /\ \A n \in DOMAIN spool' : spool'[n] = spool[n]
        /\ \A n \in DOMAIN spool : n # doing => n \in DOMAIN spool'
    <3>1. CASE UNCHANGED spool
      BY <3>1
    <3>2. CASE spool' = Without(spool, doing)
      BY <3>2 DEF Without
    <3> QED
      BY <2>1, <3>1, <3>2
  <2>4. group \notin lost => Got(group, doing)'
    <3>1. group \notin lost => Got(group, doing)
      BY <2>1 DEF SkipInv
    <3> QED
      BY <1>2, <2>1, <2>2, <3>1 DEF Got
  <2>5. CfgStored' /\ NewArrived'
    <3>1. group \notin lost => \A n :
            Got(group, n) \/ n \in DOMAIN spool => Got(group, n)' \/ n \in DOMAIN spool'
      <4> SUFFICES ASSUME group \notin lost, NEW n, Got(group, n) \/ n \in DOMAIN spool,
                          n \notin DOMAIN spool'
                   PROVE  Got(group, n)'
        OBVIOUS
      <4>1. CASE Got(group, n)
        BY <1>2, <2>2, <4>1 DEF Got
      <4>2. CASE n \in DOMAIN spool
        <5>1. n = doing
          BY <2>3, <4>2
        <5> QED
          BY <1>2, <2>1, <2>4, <5>1 DEF Got
      <4> QED
        BY <4>1, <4>2
    <3>2. /\ \A g \in Groups : g # group => \A n : Got(g, n) => Got(g, n)'
          /\ \A n : Got(group, n) => Got(group, n)'
      BY <1>2, <2>2 DEF Got
    <3> QED
      BY <1>1, <3>1, <3>2, ImportFiles
  <2>6. group \notin lost => SpoolWhole'
    BY <1>2, <1>4, <1>5, <2>3 DEF SpoolWhole, Article
  <2> QED
    BY <1>1, <1>2, <2>1, <2>4, <2>5, <2>6 DEF SkipInv, Onward
<1> QED
  BY <1>6, <1>7, <1>8, <1>9

LEMMA SkipStep ==
  ASSUME "clears" \in Habits, MaxNum < EmailWrap,
         IInv, SpoolTypes, OwnInv, SkipInv, [Next]_vars
  PROVE  SkipInv'
<1>1. IInv' /\ NewsTypes' /\ Tidy /\ Onward
  BY StepSafe, StepOnward DEF IInv, Tidy
<1>2. CASE UNCHANGED vars
  <2>1. UNCHANGED <<pc, line, cfg, new, spool, files, msg, msgnum, doing, at, up, lost>>
    BY <1>2 DEF vars, server, program, disk, history
  <2> QED
    BY <1>1, <2>1, SkipStill
<1>3. CASE Environment
  <2>1. CASE Drop \/ \E g \in Groups : Post(g) \/ Expire(g) \/ Cancel(g) \/ RemoveGroup(g)
    <3>1. /\ UNCHANGED <<pc, line, cfg, new, spool, files, msg, msgnum, doing, at, lost>>
          /\ up' => up
      BY <2>1 DEF Drop, Post, Expire, Cancel, RemoveGroup, server, program, disk, history
    <3> QED
      BY <1>1, <3>1, SkipStill
  <2>2. CASE ClearSpool \/ RenameByHand
    BY <1>1, <2>2, BetweenSkip
  <2> QED
    BY <1>3, <2>1, <2>2 DEF Environment
<1>4. CASE Start \/ ErrorExit \/ Crash \/ Finish \/ Replace
  BY <1>1, <1>4, BetweenSkip
<1>5. CASE NoSuchGroup \/ ImportDone
  BY <1>1, <1>5, NextLineSkip
<1>6. CASE SelectGroup
  BY <1>1, <1>6, SelectGroupSkip
<1>7. CASE Stat \/ NextArticle \/ NoMore \/ GetArticle
  BY <1>1, <1>7, SessionSkip
<1>8. CASE SaveMark
  BY <1>1, <1>8, SaveMarkSkip
<1>9. CASE ImportOpen \/ ImportCopy \/ ImportKill \/ ImportRecord \/ ImportUnlink
  BY <1>1, <1>9, ImportSkip
<1> QED
  BY <1>2, <1>3, <1>4, <1>5, <1>6, <1>7, <1>8, <1>9 DEF Next, Replied, Own

LEMMA SkipInit == Init => SkipInv
<1> SUFFICES ASSUME Init PROVE SkipInv
  OBVIOUS
<1>1. pc = "off" /\ cfg = Subscribed /\ cfg # None /\ DOMAIN cancelled = Groups
  BY InitSafe DEF Init, IInv
<1>2. Subscribed \in Seq(Line)
  BY NewsAssumption, Zenon DEF Line
<1>3. ASSUME NEW i \in DOMAIN Subscribed
      PROVE  /\ Known(Subscribed[i].group, Subscribed[i].num)
             /\ Stored(Subscribed[i].group, Subscribed[i].num)
  <2> DEFINE g == Subscribed[i].group
             m == Subscribed[i].num
  <2>1. Subscribed[i] \in Line /\ g \in Groups /\ m \in Nat
    BY <1>2, ElementOfSeq, LineOf
  <2>2. Subscribed[i] = [group |-> g, num |-> m]
    BY <2>1 DEF Line
  <2>3. ASSUME NEW n \in Promised(g) PROVE n \in Nat /\ n > m
    <3>1. PICK j \in DOMAIN Subscribed :
            /\ Subscribed[j].group = g
            /\ n > IF Subscribed[j].num # 0 THEN Subscribed[j].num ELSE MaxNum - FirstFetch
      BY <2>3 DEF Promised
    <3>2. j = i
      <4>1. \A k, l \in DOMAIN Subscribed :
              Subscribed[k].group = Subscribed[l].group => k = l
        BY NewsAssumption
      <4> QED
        BY <3>1, <4>1
    <3>3. n \in 1..MaxNum
      BY <2>3, PromisedNat
    <3> QED
      BY <2>1, <3>1, <3>2, <3>3, Bounds
  <2>4. Known(g, m)
    BY <2>2, <2>3 DEF Known
  <2>5. Stored(g, m)
    <3>1. Mark(m) \in Nat /\ Mark(m) <= m
      BY <2>1, MarkIs
    <3>2. \A n \in Coming(g) : ~(n <= Mark(m))
      BY <2>1, <2>3, <3>1 DEF Coming
    <3> QED
      BY <3>2 DEF Stored
  <2> QED
    BY <2>4, <2>5
<1>4. CfgStored
  BY <1>1, <1>3 DEF CfgStored
<1> QED
  BY <1>1, <1>4 DEF SkipInv, Selecting, Importing

\* No article is passed over: when a line of NEWSGROUPS.CFG has a number, every
\* article up to it that was promised and that the server still has is in the
\* mailbox (whole, or being written anew in a group in which a STAT was refused),
\* or its sender is on the kill list, or it is the one article the loop over NEXT
\* began behind (nntp65.c:706-724); wherever runs were cut short, whatever
\* articles expired or were cancelled, unless a reply of that group did not come.
\* It is so for a reader who empties NEWS.SPOOL after a run that was cut short.
THEOREM NothingPassedOver ==
  ASSUME "clears" \in Habits, MaxNum < EmailWrap
  PROVE  Spec => []NothingSkipped
<1>1. Init => IInv /\ SpoolTypes /\ OwnInv /\ SkipInv
  BY InitSafe, SpoolInit, OwnInit, SkipInit
<1>2. IInv /\ SpoolTypes /\ OwnInv /\ SkipInv /\ [Next]_vars
        => IInv' /\ SpoolTypes' /\ OwnInv' /\ SkipInv'
  BY StepSafe, SpoolStep, OwnStep, SkipStep
<1>3. IInv /\ SkipInv => NothingSkipped
  <2> SUFFICES ASSUME IInv, SkipInv, cfg # None, NEW i \in DOMAIN cfg, cfg[i].group \notin lost,
                      NEW n \in Promised(cfg[i].group) \cap There(cfg[i].group),
                      n <= Mark(cfg[i].num)
               PROVE  \/ [group |-> cfg[i].group, num |-> n] \in Killed \cup skipped
                      \/ InMailbox(cfg[i].group, n)
    BY DEF NothingSkipped
  <2>1. Stored(cfg[i].group, cfg[i].num)
    BY DEF SkipInv, CfgStored
  <2>2. cfg[i].group \in Groups
    BY LineOf DEF IInv, NewsTypes
  <2>3. n \in Coming(cfg[i].group) /\ n \in 1..MaxNum
    BY <2>2, ThereIs DEF IInv, Coming
  <2>4. EmailNum(n) = n
    BY <2>3, EmailNumIs
  <2>5. Got(cfg[i].group, n)
    BY <2>1, <2>3 DEF Stored
  <2> QED
    BY <2>4, <2>5 DEF Got, Skipped, InMailbox
<1> QED
  BY <1>1, <1>2, <1>3, PTL DEF Spec
=============================================================================
