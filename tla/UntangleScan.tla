---------------------------- MODULE UntangleScan ----------------------------
(***************************************************************************)
(* untangle.py: scan, the survey of a repository.  It lists the files, then *)
(* asks git one question after the other: HEAD's date, the log, the         *)
(* branches, the subjects of the log, and of each branch its tip and        *)
(* whether HEAD holds it.  Meanwhile others commit, merge, squash, push,    *)
(* delete branches and rewind HEAD, and a command may fail.                 *)
(*                                                                         *)
(* Of a commit, the model keeps the directory it changes, its date, its     *)
(* subject and the number of the pull request that ends the subject (0:     *)
(* none).  Histories are shorter than the 5000 subjects that the scan       *)
(* reads, and branches fewer than 100.  Answers that are only printed are   *)
(* left out, and so is what is counted in the files that were listed.       *)
(***************************************************************************)
EXTENDS Naturals, FiniteSets, Sequences

CONSTANTS
    Directories,  \* of the repository
    Dates,        \* of the commits, in days
    StaleDays,    \* the threshold
    MaxChanges,   \* bound on the changes by others
    MaxFailing    \* bound on the commands that fail

ASSUME ScanAssumption == Dates \subseteq Nat /\ StaleDays \in Nat \ {0}

VARIABLES
    history, top, \* the commits that HEAD holds, the one HEAD points at
    branches,     \* the tip of every branch that exists
    present,      \* the directories with files in the working tree
    changes,
    asked, failing,  \* the commands that have been run, those that have failed
    found,        \* what the scan has learnt
    dated, listed,   \* history: what HEAD held when its date, the branches were read
    rewound       \* history: HEAD has lost commits

repository == <<history, top, branches, present, changes, rewound>>
scanVars == <<repository, asked, failing, found, dated, listed>>

\* The branches in the order of for-each-ref, without HEAD's own, main and master,
\* which are skipped; the pull request a name tells
Names == <<"pr-1", "work", "origin/work">>
PullRequest(name) == IF name = "pr-1" THEN 1 ELSE 0

NewCommit(i, d, t, s, pr) == [n |-> i, dir |-> d, date |-> t, subject |-> s, pr |-> pr]

-----------------------------------------------------------------------------
(* What the inventory says *)

Has(question) == question \in found.answered
InLog(d) == {c \in found.log : c.dir = d}

\* The directories whose last commit the log tells: the others have no age
Dated == {d \in found.directories : Has("date") /\ Has("log") /\ InLog(d) # {}}

\* The directories that no commit has changed for so long, by HEAD's date
Stale == {d \in Dated : \A c \in InLog(d) : c.date + StaleDays <= found.date}

\* The tip's subject is in HEAD's history, or the pull request of the branch
InHeadHistory(name) ==
    found.listing[name].subject \in found.subjects \/ PullRequest(name) \in found.prs

Unmerged == {i.name : i \in {k \in found.items : ~k.ancestor /\ ~InHeadHistory(k.name)}}

-----------------------------------------------------------------------------
(* The commands of the scan *)

\* (mutant) the log is read before HEAD's date
LogFirst == <<"files", "log", "date", "branches", "subjects">>
\* (mutant) the subjects are read before the branches are listed
SubjectsFirst == <<"files", "date", "log", "subjects", "branches">>

Questions == <<"files", "date", "log", "branches", "subjects">>

Asks(question) == asked < Len(Questions) /\ Questions[asked + 1] = question
Learns(question, knowledge) ==
    /\ asked' = asked + 1 /\ found' = [knowledge EXCEPT !.answered = @ \cup {question}]
    /\ UNCHANGED <<repository, failing>>

walk ==
    /\ Asks("files") /\ Learns("files", [found EXCEPT !.directories = present])
    /\ UNCHANGED <<dated, listed>>

HeadDate ==
    /\ Asks("date") /\ Learns("date", [found EXCEPT !.date = top.date])
    /\ dated' = history /\ UNCHANGED listed

Log ==
    /\ Asks("log") /\ Learns("log", [found EXCEPT !.log = history])
    /\ UNCHANGED <<dated, listed>>

ListBranches ==
    /\ Asks("branches")
    /\ Learns("branches", [found EXCEPT !.listing = branches,
                 !.rest = SelectSeq(Names, LAMBDA name : name \in DOMAIN branches)])
    /\ listed' = history /\ UNCHANGED dated

Subjects ==
    /\ Asks("subjects")
    /\ Learns("subjects", [found EXCEPT !.subjects = {c.subject : c \in history},
                                        !.prs = {c.pr : c \in history} \ {0}])
    /\ UNCHANGED <<dated, listed>>

\* git returns nothing: without HEAD's date or the log, there is no activity;
\* without the listing, no branches; without the subjects, the branches remain
Fails ==
    /\ failing < MaxFailing /\ failing' = failing + 1
    /\ \/ (Asks("date") \/ Asks("log")) /\ asked' = 3
       \/ (Asks("branches") \/ Asks("subjects")) /\ asked' = 5
    /\ UNCHANGED <<repository, found, dated, listed>>

\* A line of the listing is done
Passed(item) == found' = [found EXCEPT !.rest = Tail(@), !.items = @ \cup item]

\* rev-parse: a branch that is gone, or whose tip was seen, is passed over
TipOf ==
    /\ asked = Len(Questions) /\ found.rest # <<>>
    /\ LET name == Head(found.rest)
           known == name \in DOMAIN branches
       IN \/ /\ known /\ branches[name] \notin found.tips
             /\ found' = [found EXCEPT !.tips = @ \cup {branches[name]}]
             /\ asked' = asked + 1 /\ UNCHANGED failing
          \/ /\ (known => branches[name] \in found.tips)
             /\ Passed({}) /\ UNCHANGED <<asked, failing>>
          \/ /\ failing < MaxFailing /\ failing' = failing + 1
             /\ Passed({}) /\ UNCHANGED asked
    /\ UNCHANGED <<repository, dated, listed>>

\* merge-base --is-ancestor: an error reads like "not an ancestor"
IsAncestor ==
    /\ asked = Len(Questions) + 1 /\ asked' = Len(Questions)
    /\ LET name == Head(found.rest)
           held == name \in DOMAIN branches /\ branches[name] \in history
       IN \/ Passed({[name |-> name, ancestor |-> held]}) /\ UNCHANGED failing
          \/ /\ failing < MaxFailing /\ failing' = failing + 1
             /\ Passed({[name |-> name, ancestor |-> FALSE]})
    /\ UNCHANGED <<repository, dated, listed>>

-----------------------------------------------------------------------------
(* Others, meanwhile *)

Change ==
    /\ changes < MaxChanges /\ changes' = changes + 1
    /\ UNCHANGED <<asked, failing, found, dated, listed>>
HeadGets(commits, c) ==
    /\ Change /\ history' = history \cup commits \cup {c} /\ top' = c
    /\ present' = present \cup ({c.dir} \cap Directories) /\ UNCHANGED <<branches, rewound>>

CommitOn(d, t) == HeadGets({}, NewCommit(changes, d, t, "edit", 0))
Merge(name, t) == HeadGets({branches[name]}, NewCommit(changes, "", t, "merge", 0))
\* Under the subject of its tip or the title of the pull request
Squash(name, t, s) ==
    HeadGets({}, NewCommit(changes, branches[name].dir, t, s, PullRequest(name)))

Push(name, d, t) ==
    /\ Change /\ branches' = [branches EXCEPT ![name] = NewCommit(changes, d, t, "more", 0)]
    /\ UNCHANGED <<history, top, present, rewound>>
Delete(name) ==
    /\ Change /\ branches' = [k \in DOMAIN branches \ {name} |-> branches[k]]
    /\ UNCHANGED <<history, top, present, rewound>>
Rewind(rest) ==
    /\ Change /\ history' = rest /\ top' \in rest /\ rewound' = TRUE
    /\ UNCHANGED <<branches, present>>

Others ==
    \/ \E d \in Directories, t \in Dates : CommitOn(d, t)
    \/ \E name \in DOMAIN branches, t \in Dates :
          \/ Merge(name, t)
          \/ \E s \in {branches[name].subject, "title"} : Squash(name, t, s)
          \/ \E d \in Directories : Push(name, d, t)
    \/ \E name \in DOMAIN branches : Delete(name)
    \/ \E rest \in (SUBSET history) \ {{}, history} : Rewind(rest)

-----------------------------------------------------------------------------
ScanInit ==
    /\ \E d \in Directories, t \in Dates :
          /\ top = NewCommit(MaxChanges + 1, d, t, "start", 0) /\ history = {top} /\ present = {d}
          /\ branches = [name \in {"pr-1", "work", "origin/work"} |->
                            NewCommit(MaxChanges + 2, d, t, IF name = "pr-1" THEN "fix" ELSE "work", 0)]
    /\ changes = 0 /\ rewound = FALSE /\ asked = 0 /\ failing = 0
    /\ found = [answered |-> {}, directories |-> {}, date |-> 0, log |-> {},
                listing |-> <<>>, rest |-> <<>>, subjects |-> {}, prs |-> {},
                tips |-> {}, items |-> {}]
    /\ dated = {} /\ listed = {}

ScanNext ==
    \/ walk \/ HeadDate \/ Log \/ ListBranches \/ Subjects \/ Fails \/ TipOf \/ IsAncestor
    \/ Others

-----------------------------------------------------------------------------
(* Properties *)

\* A directory that the inventory calls stale had no younger commit when HEAD's
\* date was read, although commits arrived between that and the log: the log is
\* read after the date (untangle.py:251-257).
StaleIsStale ==
    ~rewound => \A d \in Stale : \A c \in dated : c.dir = d => c.date + StaleDays <= found.date

\* A branch that the inventory calls unmerged was neither merged nor squashed into
\* HEAD when the branches were listed, provided that the subjects could be read:
\* they are read after the listing, so that a merge in between shows.
UnmergedIsOpen ==
    ~rewound /\ Has("subjects") =>
        \A name \in Unmerged :
            /\ found.listing[name] \notin listed
            /\ \A c \in listed : /\ c.subject # found.listing[name].subject
                                 /\ c.pr # 0 => c.pr # PullRequest(name)

=============================================================================
