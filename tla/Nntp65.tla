------------------------------ MODULE Nntp65 ------------------------------
(***************************************************************************)
(* NNTP65.SYSTEM (apps/nntp65.c): a run of the program fetches, for every  *)
(* line of NEWSGROUPS.CFG, the articles behind the number in it into       *)
(* NEWS.SPOOL, copies them into the mailbox of the group, and writes the   *)
(* line with its new number to NEWSGROUPS.NEW, which in the end replaces   *)
(* NEWSGROUPS.CFG.                                                         *)
(*                                                                         *)
(* The server gets articles at any time, and expires or cancels articles   *)
(* and removes groups between runs; the connection may break, the user may *)
(* press Ctrl-C, and the machine may be reset between any two steps.  Each *)
(* group has its own mailbox.                                              *)
(***************************************************************************)
EXTENDS Integers, Sequences, FiniteSets

CONSTANTS
  Groups,     \* newsgroups; each names its mailbox too
  Subscribed, \* NEWSGROUPS.CFG at first: a sequence of [group, num]
  Oldest,     \* Oldest[g], Newest[g]: the articles at the server at first
  Newest,
  Killed,     \* [group, num] of articles whose sender is on the kill list
  None,       \* no file, no group
  FirstFetch, \* 100, the articles fetched from a group new to the reader
  Wrap,       \* 2^32, the values of an article number
  EmailWrap,  \* 2^16, the values of n in EMAIL.n
  MaxNum,     \* bound on article numbers
  MaxVanished,\* bound on the articles that expire or are cancelled
  MaxLost,    \* bound on the groups for which a reply is lost before a drop
  MaxCuts,    \* bound on the runs that are cut short
  Faults,     \* "drop" connection, "stop" (Ctrl-C), "crash",
              \* "remove" group, "cancel" article
  Habits      \* "clears": NEWS.SPOOL is emptied after a run that was cut short

ASSUME NewsAssumption ==
  /\ Subscribed \in Seq([group : Groups, num : 0..(Wrap - 1)])
  /\ \A i, j \in DOMAIN Subscribed : Subscribed[i].group = Subscribed[j].group => i = j
  /\ Oldest \in [Groups -> Nat \ {0}] /\ Newest \in [Groups -> 0..MaxNum]
  /\ \A g \in Groups : Oldest[g] <= Newest[g] + 1
  /\ None \notin Groups /\ None \notin Seq([group : Groups, num : 0..(Wrap - 1)])
  /\ {FirstFetch, Wrap, EmailWrap, MaxNum, MaxVanished, MaxLost, MaxCuts} \subseteq Nat
  /\ Wrap > MaxNum + FirstFetch + 1 /\ EmailWrap > 0
  /\ Faults \subseteq {"drop", "stop", "crash", "remove", "cancel"}
  /\ Habits \subseteq {"clears"}

VARIABLES
  \* The server and the connection
  low, high, \* the first and last number of a GROUP reply
  cancelled, \* cancelled[g]: the numbers between them that name no article
  gone,      \* groups the server no longer has
  up,        \* the connection is established
  at,        \* current group and article of the session
  \* The program
  pc,
  line,      \* lines of NEWSGROUPS.CFG read
  lownum, highnum, \* of the last GROUP reply that was one
  msgnum,    \* the number in the line, and where STAT goes
  msg,       \* the last article
  doing,     \* the NEWS.n that update_mailbox is at
  \* The disk
  cfg, new,  \* NEWSGROUPS.CFG, NEWSGROUPS.NEW
  spool,     \* spool[n]: the article in NEWS.SPOOL/NEWS.n
  files,     \* files[g][n]: the article in EMAIL.n of mailbox g
  db,        \* db[g]: the numbers in the records of its EMAIL.DB
  \* History
  cuts,      \* runs that were cut short
  lost,      \* groups for which a reply was not received
  refused,   \* groups in which a STAT was refused
  skipped    \* [group, num] of new articles that a run began behind

server == <<low, high, cancelled, gone>>
program == <<line, lownum, highnum, msgnum, msg, doing>>
disk == <<cfg, new, spool, files, db>>
history == <<cuts, lost, refused, skipped>>
vars == <<server, up, at, pc, program, disk, history>>

Article(g, n, w) == [group |-> g, num |-> n, whole |-> w]
group == cfg[line].group

\* f with n mapped to x, and f without n
With(f, n, x) == [m \in DOMAIN f \cup {n} |-> IF m = n THEN x ELSE f[m]]
Without(f, n) == [m \in DOMAIN f \ {n} |-> f[m]]

-----------------------------------------------------------------------------
(* The server and the user, between and during runs                        *)

There(g) == (low[g]..high[g]) \ cancelled[g]

\* The bound: one more article may go.
MayVanish ==
  Cardinality({x \in Groups \X (1..MaxNum) :
    x[2] \in (Oldest[x[1]]..high[x[1]]) \ There(x[1])}) < MaxVanished

Post(g) ==
  /\ g \notin gone
  /\ high[g] < MaxNum
  /\ high' = [high EXCEPT ![g] = @ + 1]
  /\ UNCHANGED <<low, cancelled, gone, up, at, pc, program, disk, history>>

Expire(g) ==
  /\ pc = "off"
  /\ low[g] <= high[g] /\ MayVanish
  /\ low' = [low EXCEPT ![g] = @ + 1]
  /\ UNCHANGED <<high, cancelled, gone, up, at, pc, program, disk, history>>

\* An article in the middle goes; the numbers of the GROUP reply stay.
Cancel(g) ==
  /\ "cancel" \in Faults
  /\ pc = "off" /\ MayVanish
  /\ \E n \in There(g) : cancelled' = [cancelled EXCEPT ![g] = @ \cup {n}]
  /\ UNCHANGED <<low, high, gone, up, at, pc, program, disk, history>>

RemoveGroup(g) ==
  /\ "remove" \in Faults
  /\ pc = "off"
  /\ gone' = gone \cup {g}
  /\ UNCHANGED <<low, high, cancelled, up, at, pc, program, disk, history>>

Drop ==
  /\ "drop" \in Faults
  /\ up
  /\ Cardinality(lost) < MaxLost
  /\ up' = FALSE
  /\ UNCHANGED <<server, at, pc, program, disk, history>>

ClearSpool ==
  /\ pc = "off"
  /\ spool # << >>
  /\ spool' = << >>
  /\ UNCHANGED <<server, up, at, pc, program, cfg, new, files, db, history>>

\* After a reset between the last two steps of a run
RenameByHand ==
  /\ pc = "off"
  /\ cfg = None
  /\ cfg' = new
  /\ new' = None
  /\ UNCHANGED <<server, up, at, pc, program, spool, files, db, history>>

-----------------------------------------------------------------------------
(* A run                                                                   *)

\* The program is loaded anew: what it had in memory is zero, and the session over.
NoSession == [group |-> None, num |-> 0]
Fresh == at' = NoSession /\ line' = 0 /\ lownum' = 0 /\ highnum' = 0 /\ msgnum' = 0 /\ msg' = 0 /\ doing' = 0

Start_NewFirst == \* makes NEWSGROUPS.NEW before it looks for NEWSGROUPS.CFG
  /\ pc = "off"
  /\ "clears" \in Habits => spool = << >>
  /\ new' = << >>
  /\ pc' = IF cfg = None THEN "off" ELSE "group"
  /\ up' = (cfg # None)
  /\ Fresh
  /\ UNCHANGED <<server, cfg, spool, files, db, history>>

\* Without NEWSGROUPS.CFG the program ends there.
Start ==
  /\ pc = "off"
  /\ "clears" \in Habits => spool = << >>
  /\ cfg # None
  /\ new' = << >>
  /\ up' = TRUE
  /\ pc' = "group"
  /\ Fresh
  /\ UNCHANGED <<server, cfg, spool, files, db, history>>

\* error_exit: the lines written to NEWSGROUPS.NEW so far are kept, and so are
\* the articles in NEWS.SPOOL.  Reached when a send fails, on Ctrl-C in a send
\* or receive loop, and when the server refuses the login.
ErrorExit ==
  /\ pc \in {"group", "stat", "next", "article"}
  /\ ~up \/ "stop" \in Faults
  /\ cuts < MaxCuts
  /\ pc' = "off"
  /\ up' = FALSE
  /\ cuts' = cuts + 1
  /\ Fresh
  /\ UNCHANGED <<server, disk, lost, refused, skipped>>

\* GROUP, and the reply to it: the first article becomes the current one.  A
\* reply that does not come, because the server has closed, is taken as one
\* without numbers.
NoArticle == MaxNum + 1
Least(S) == {n \in S : \A m \in S : n <= m}

GroupFound(g) ==
  /\ g \notin gone
  /\ up
  /\ lownum' = low[g] /\ highnum' = high[g]
  /\ \E n \in Least(There(g) \cup {NoArticle}) : at' = [group |-> g, num |-> n]
  /\ UNCHANGED lost

GroupLost(g) ==
  /\ ~up
  /\ lost' = lost \cup {g}
  /\ UNCHANGED <<lownum, highnum, at>>

\* Where to start: with 0 in the line FirstFetch articles back, and never
\* before the first article the server has.
From(num, first, last) ==
  LET n == IF num = 0 THEN (last - FirstFetch) % Wrap ELSE num
  IN IF n < first THEN first ELSE n

\* The last article read, by a line with number num; one that wrapped below 0
\* is as good as 0, the next run begins with the first article again.
Mark(num) == IF num > NoArticle THEN 0 ELSE num

\* The loop over NEXT begins behind the article of STAT or the first one.
SelectGroup ==
  /\ pc = "group"
  /\ line < Len(cfg)
  /\ line' = line + 1
  /\ GroupFound(cfg[line + 1].group) \/ GroupLost(cfg[line + 1].group)
  /\ msgnum' = From(cfg[line + 1].num, lownum', highnum')
  /\ msg' = msgnum'
  /\ pc' = IF msgnum' <= highnum' THEN "stat" ELSE "next"
  /\ skipped' = skipped \cup {[group |-> cfg[line + 1].group, num |-> n] :
       n \in {m \in 1..MaxNum : m \in {msgnum', at'.num} /\ m > Mark(cfg[line + 1].num)}}
  /\ UNCHANGED <<server, up, doing, disk, cuts, refused>>

\* 411: the line is not written to NEWSGROUPS.NEW.
NoSuchGroup ==
  /\ pc = "group"
  /\ line < Len(cfg)
  /\ line' = line + 1
  /\ up /\ cfg[line + 1].group \in gone
  /\ UNCHANGED <<server, up, at, pc, lownum, highnum, msgnum, msg, doing, disk, history>>

Stat_Next == \* from the article after the last one
  /\ pc = "stat"
  /\ at' = IF up /\ msgnum + 1 \in There(group) THEN [at EXCEPT !.num = msgnum + 1] ELSE at
  /\ refused' = IF up /\ msgnum \notin There(group) THEN refused \cup {group} ELSE refused
  /\ pc' = "next"
  /\ UNCHANGED <<server, up, program, disk, cuts, lost, skipped>>

\* STAT makes the article the current one, if there is such an article.  The
\* loop is left after the first reply, whatever it says: refused, the current
\* article stays the first.
Stat ==
  /\ pc = "stat"
  /\ at' = IF up /\ msgnum \in There(group) THEN [at EXCEPT !.num = msgnum] ELSE at
  /\ refused' = IF up /\ msgnum \notin There(group) THEN refused \cup {group} ELSE refused
  /\ pc' = "next"
  /\ UNCHANGED <<server, up, program, disk, cuts, lost, skipped>>

Later == {n \in There(group) : n > at.num}

NextArticle_Before == \* names the spool file before it has read the number
  /\ pc = "next"
  /\ up
  /\ \E n \in Least(Later) : at' = [at EXCEPT !.num = n]
  /\ msg' = at'.num
  /\ spool' = With(spool, msg, Article(group, msg', FALSE))
  /\ pc' = "article"
  /\ UNCHANGED <<server, up, line, lownum, highnum, msgnum, doing, cfg, new, files, db, history>>

\* NEXT: 223 and the number; the spool file is made.
NextArticle ==
  /\ pc = "next"
  /\ up
  /\ \E n \in Least(Later) : at' = [at EXCEPT !.num = n]
  /\ msg' = at'.num
  /\ spool' = With(spool, msg', Article(group, msg', FALSE))
  /\ pc' = "article"
  /\ UNCHANGED <<server, up, line, lownum, highnum, msgnum, doing, cfg, new, files, db, history>>

NoMore_Again == \* asks again
  /\ pc = "next"
  /\ ~up \/ Later = {}
  /\ lost' = IF up THEN lost ELSE lost \cup {group}
  /\ UNCHANGED <<server, up, at, pc, program, disk, cuts, refused, skipped>>

NoMore ==
  /\ pc = "next"
  /\ ~up \/ Later = {}
  /\ lost' = IF up THEN lost ELSE lost \cup {group}
  /\ pc' = "save"
  /\ UNCHANGED <<server, up, at, program, disk, cuts, refused, skipped>>

\* ARTICLE: the receive loop also ends, and with success, when the connection does.
GetArticle ==
  /\ pc = "article"
  /\ spool' = [spool EXCEPT ![msg].whole = up]
  /\ lost' = IF up THEN lost ELSE lost \cup {group}
  /\ pc' = "next"
  /\ UNCHANGED <<server, up, at, program, cfg, new, files, db, cuts, refused, skipped>>

SaveMark ==
  /\ pc = "save"
  /\ new' = Append(new, [group |-> group, num |-> msg])
  /\ pc' = "import"
  /\ UNCHANGED <<server, up, at, program, cfg, spool, files, db, history>>

-----------------------------------------------------------------------------
(* update_mailbox, for the files of NEWS.SPOOL in any order                *)

EmailNum(n) == n % EmailWrap

ImportOpen ==
  /\ pc = "import"
  /\ \E n \in DOMAIN spool :
       /\ doing' = n
       /\ files' = [files EXCEPT ![group] = With(@, EmailNum(n), [spool[n] EXCEPT !.whole = FALSE])]
  /\ pc' = "copy"
  /\ UNCHANGED <<server, up, at, line, lownum, highnum, msgnum, msg, cfg, new, spool, db, history>>

ImportCopy ==
  /\ pc = "copy"
  /\ [group |-> spool[doing].group, num |-> spool[doing].num] \notin Killed
  /\ files' = [files EXCEPT ![group][EmailNum(doing)] = spool[doing]]
  /\ pc' = "record"
  /\ UNCHANGED <<server, up, at, program, cfg, new, spool, db, history>>

ImportKill_Recorded == \* has update_email_db run all the same
  /\ pc = "copy"
  /\ [group |-> spool[doing].group, num |-> spool[doing].num] \in Killed
  /\ files' = [files EXCEPT ![group] = Without(@, EmailNum(doing))]
  /\ pc' = "record"
  /\ UNCHANGED <<server, up, at, program, cfg, new, spool, db, history>>

\* The sender is on the kill list.
ImportKill ==
  /\ pc = "copy"
  /\ [group |-> spool[doing].group, num |-> spool[doing].num] \in Killed
  /\ files' = [files EXCEPT ![group] = Without(@, EmailNum(doing))]
  /\ pc' = "unlink"
  /\ UNCHANGED <<server, up, at, program, cfg, new, spool, db, history>>

ImportRecord ==
  /\ pc = "record"
  /\ db' = [db EXCEPT ![group] = Append(@, EmailNum(doing))]
  /\ pc' = "unlink"
  /\ UNCHANGED <<server, up, at, program, cfg, new, spool, files, history>>

ImportUnlink ==
  /\ pc = "unlink"
  /\ spool' = Without(spool, doing)
  /\ pc' = "import"
  /\ UNCHANGED <<server, up, at, program, cfg, new, files, db, history>>

ImportDone ==
  /\ pc = "import"
  /\ spool = << >>
  /\ pc' = "group"
  /\ UNCHANGED <<server, up, at, program, disk, history>>

-----------------------------------------------------------------------------
(* The end of a run                                                        *)

Replace ==
  /\ pc = "group"
  /\ line = Len(cfg)
  /\ cfg' = None
  /\ pc' = "rename"
  /\ UNCHANGED <<server, up, at, program, new, spool, files, db, history>>

\* QUIT and whatever comes of it
Finish ==
  /\ pc = "rename"
  /\ cfg' = new
  /\ new' = None
  /\ pc' = "off"
  /\ up' = FALSE
  /\ Fresh
  /\ UNCHANGED <<server, spool, files, db, history>>

\* A reset.  NEWSGROUPS.NEW is closed only before NEWSGROUPS.CFG is removed:
\* until then any number of its lines may have reached the disk.
Crash ==
  /\ "crash" \in Faults
  /\ pc # "off"
  /\ cuts < MaxCuts
  /\ pc' = "off"
  /\ up' = FALSE
  /\ cuts' = cuts + 1
  /\ new' \in IF pc = "rename" THEN {new} ELSE {SubSeq(new, 1, k) : k \in 0..Len(new)}
  /\ Fresh
  /\ UNCHANGED <<server, cfg, spool, files, db, lost, refused, skipped>>

-----------------------------------------------------------------------------
(* The specification                                                       *)

Init ==
  /\ low = Oldest /\ high = Newest
  /\ cancelled = [g \in Groups |-> {}]
  /\ gone = {}
  /\ up = FALSE
  /\ at = NoSession
  /\ pc = "off"
  /\ line = 0 /\ lownum = 0 /\ highnum = 0 /\ msgnum = 0 /\ msg = 0 /\ doing = 0
  /\ cfg = Subscribed /\ new = None
  /\ spool = << >>
  /\ files = [g \in Groups |-> << >>]
  /\ db = [g \in Groups |-> << >>]
  /\ cuts = 0 /\ lost = {} /\ refused = {} /\ skipped = {}

Environment ==
  \/ \E g \in Groups : Post(g) \/ Expire(g) \/ Cancel(g) \/ RemoveGroup(g)
  \/ Drop \/ ClearSpool \/ RenameByHand

\* Steps that wait for a reply of the server, or for the end of the connection
Replied ==
  SelectGroup \/ NoSuchGroup \/ Stat \/ NextArticle \/ NoMore \/ GetArticle

Own ==
  \/ SaveMark \/ ImportOpen \/ ImportCopy \/ ImportKill \/ ImportRecord
  \/ ImportUnlink \/ ImportDone \/ Replace \/ Finish

Next == Environment \/ Start \/ Replied \/ Own \/ ErrorExit \/ Crash

Spec == Init /\ [][Next]_vars

\* The program goes on by itself, but where it waits for the server.
FairSpec == Spec /\ WF_vars(Own)

\* Of the server: while a run waits it sends its reply or closes in the end.
ServerAnswers == WF_vars(Replied)

-----------------------------------------------------------------------------
(* Properties                                                              *)

\* Every variable keeps its type; numbers stay within their width.
TypeOK ==
  /\ pc \in {"off", "group", "stat", "next", "article", "save", "import",
             "copy", "record", "unlink", "rename"}
  /\ cfg = None \/ \A i \in DOMAIN cfg : cfg[i] \in [group : Groups, num : 0..(Wrap - 1)]
  /\ new = None \/ \A i \in DOMAIN new : new[i] \in [group : Groups, num : 0..(Wrap - 1)]
  /\ {msg, msgnum} \subseteq 0..(Wrap - 1)
  /\ \A n \in DOMAIN spool : spool[n].num = n
  /\ cuts \in 0..MaxCuts

Names(lines) == {lines[i].group : i \in DOMAIN lines}

\* No run and no reset costs a subscription, but to a group the server has not:
\* NEWSGROUPS.CFG has it, or NEWSGROUPS.NEW, complete, while there is no
\* NEWSGROUPS.CFG.
SubscriptionsKept ==
  LET lines == IF cfg = None THEN new ELSE cfg
  IN /\ lines # None
     /\ Names(Subscribed) \ gone \subseteq Names(lines)
     /\ Cardinality(Names(lines)) = Len(lines)

\* What the reader was promised of a group: all that came after the number in
\* the first NEWSGROUPS.CFG, or the last FirstFetch articles whenever the first
\* run may be.
Promised(g) ==
  {n \in 1..MaxNum : \E i \in DOMAIN Subscribed :
     /\ Subscribed[i].group = g
     /\ n > IF Subscribed[i].num # 0 THEN Subscribed[i].num ELSE MaxNum - FirstFetch}

\* In the mailbox, and whole, but where a STAT was refused: the articles of that
\* group come again, and EMAIL.n is written anew.
InMailbox(g, n) ==
  /\ EmailNum(n) \in DOMAIN files[g]
  /\ \E w \in BOOLEAN : files[g][EmailNum(n)] = Article(g, n, w) /\ (w \/ g \in refused)

\* No article at the server is passed over: one at or before the number of its
\* group is in the mailbox, whole, or was killed, unless a reply was lost; but
\* for the one article behind which a run began although it was new.
NothingSkipped ==
  cfg # None => \A i \in DOMAIN cfg : cfg[i].group \notin lost =>
    LET g == cfg[i].group IN
    \A n \in Promised(g) \cap There(g) : n <= Mark(cfg[i].num) =>
      [group |-> g, num |-> n] \in Killed \cup skipped \/ InMailbox(g, n)

\* "Subsequent runs will retrieve just the new articles": the same without the
\* exception.
AllNewRetrieved ==
  cfg # None => \A i \in DOMAIN cfg : cfg[i].group \notin lost =>
    LET g == cfg[i].group IN
    \A n \in Promised(g) \cap There(g) : n <= Mark(cfg[i].num) =>
      [group |-> g, num |-> n] \in Killed \/ InMailbox(g, n)

\* A record in a mailbox is of an article of its own group, and its file is there.
OwnMailbox ==
  \A g \in Groups : \A i \in DOMAIN db[g] :
    /\ db[g][i] \in DOMAIN files[g]
    /\ files[g][db[g][i]].group = g

\* As long as no run was cut short, no article comes twice, but in a group in
\* which the server has refused a STAT.
NoRepeats ==
  cuts = 0 /\ lost = {} =>
    \A g \in Groups \ refused : \A i, j \in DOMAIN db[g] : db[g][i] = db[g][j] => i = j

\* "If the article does not exist, increment the current article number and
\* loop": a refused STAT is followed by one for the next number, and no article
\* comes twice in any group.
RetrievedOnce ==
  cuts = 0 /\ lost = {} =>
    \A g \in Groups : \A i, j \in DOMAIN db[g] : db[g][i] = db[g][j] => i = j

\* A run ends if the server answers in the end, or the connection ends.
RunEnds == ServerAnswers => (pc # "off") ~> (pc = "off")

=============================================================================
