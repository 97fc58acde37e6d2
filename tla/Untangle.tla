------------------------------ MODULE Untangle ------------------------------
(***************************************************************************)
(* untangle.py: the plan file UNTANGLE.md, which a survey fills with the   *)
(* user's decisions and which apply mode works through.  "plan next" reads *)
(* the plan, refuses a dirty working tree and offers the first open item;  *)
(* an agent does the work; "plan tick" reads the plan again, marks the item *)
(* and replaces the file.  There is no lock: agents of several sessions and *)
(* the user's editor may meet at any step, and an agent may die.            *)
(*                                                                         *)
(* A plan is its sequence of lines; of a line, the model keeps its kind and *)
(* the labels that parse_plan reads.                                        *)
(***************************************************************************)
EXTENDS Naturals, FiniteSets, SequencesExt

CONSTANTS Agents, MaxEdits, MaxPasses  \* bounds on the user's edits, the agents' passes

VARIABLES
    plan,         \* the lines of the plan file
    uncommitted,  \* the items whose changes are in the working tree, not committed
    stray,        \* a temporary of a dead tick is in the working tree
    pc, passes,   \* of each agent
    text,         \* the plan as the agent's command has read it
    offered,      \* the item that next has offered to the agent
    edits,
    live,         \* history: the records in the plan that nobody has replaced knowingly
    since,        \* history: the records saved since the agent's command has read
    met           \* history: two agents have passed the check of the tree before
                  \* either of them changed it

agentVars == <<pc, passes, text, offered>>
treeVars == <<uncommitted, stray>>
vars == <<plan, treeVars, agentVars, edits, live, since, met>>

Heading(n) == [kind |-> "heading", id |-> n, ref |-> "", mark |-> ""]
Thread(t, role, decision) == [kind |-> "thread", id |-> t, ref |-> role, mark |-> decision]
Item(c, source, done) == [kind |-> "item", id |-> c, ref |-> source, mark |-> done]
DoneLine == [kind |-> "done", id |-> "", ref |-> "", mark |-> ""]
Parked(t) == [kind |-> "parked", id |-> t, ref |-> "", mark |-> ""]

EXPECTED_SECTIONS == {"Spine", "Threads", "Checklist", "Foundations", "Suggested next moves"}

-----------------------------------------------------------------------------
(* parse_plan *)

Headings(doc, n) == {i \in DOMAIN doc : doc[i].kind = "heading" /\ doc[i].id = n}

\* split_sections: the lines of a section; the last one of a name counts
LastHeading(doc, n) == {i \in Headings(doc, n) : \A k \in Headings(doc, n) : k <= i}
Section(doc, n) ==
    UNION {{i \in start + 1 .. Len(doc) : \A k \in start + 1 .. i : doc[k].kind # "heading"} :
           start \in LastHeading(doc, n)}

Threads(doc) == {i \in Section(doc, "Threads") : doc[i].kind = "thread"}
Checklist(doc) == {i \in Section(doc, "Checklist") : doc[i].kind = "item"}
ParkedIdeas(doc) == {i \in Section(doc, "Suggested next moves") : doc[i].kind = "parked"}
Labels(doc, lines) == {doc[i].id : i \in lines}
Unique(doc, lines) == \A i, k \in lines : doc[i].id = doc[k].id => i = k
Pending(doc) == {i \in Threads(doc) : doc[i].mark = "pending"}

ThreadsValid(doc) ==
    /\ Unique(doc, Threads(doc))
    /\ Cardinality({i \in Threads(doc) : doc[i].ref = "spine"}) = 1
    /\ \A i \in Threads(doc) : doc[i].ref = "spine" => doc[i].mark \in {"keep", "pending"}

ChecklistValid(doc) ==
    /\ Unique(doc, Checklist(doc))
    /\ \A i \in Checklist(doc) :
          /\ doc[i].mark = "x" => i + 1 \in Section(doc, "Checklist") /\ doc[i + 1].kind = "done"
          /\ doc[i].ref \in Labels(doc, Threads(doc)) \cup {"H1"}
    /\ \A i \in Threads(doc) : doc[i].mark \in {"park", "delete", "merge"} =>
          \E k \in Checklist(doc) : doc[k].ref = doc[i].id

RoadmapValid(doc) ==
    Pending(doc) = {} => /\ Unique(doc, ParkedIdeas(doc))
                         /\ Labels(doc, ParkedIdeas(doc))
                              = {doc[i].id : i \in {k \in Threads(doc) : doc[k].mark = "park"}}

Valid(doc) ==
    /\ \A n \in EXPECTED_SECTIONS : Headings(doc, n) # {}
    /\ ThreadsValid(doc) /\ ChecklistValid(doc) /\ RoadmapValid(doc)

Open(doc) == {i \in Checklist(doc) : doc[i].mark # "x"}
First(s) == CHOOSE i \in s : \A k \in s : i <= k

\* What a reader of the plan relies on: the items done, the threads' decisions
Records(doc) == {<<"done", doc[i].id>> : i \in Checklist(doc) \ Open(doc)}
                \cup {<<doc[i].id, doc[i].mark>> : i \in Threads(doc)}

-----------------------------------------------------------------------------
(* plan next, and the work *)

At(p, s) == pc[p] = s
Go(p, s) == pc' = [pc EXCEPT ![p] = s]
\* The agent is done with the item, and forgets what it has read
Ends(p) ==
    /\ Go(p, "idle") /\ since' = [since EXCEPT ![p] = {}]
    /\ text' = [text EXCEPT ![p] = <<>>] /\ offered' = [offered EXCEPT ![p] = ""]

Read(p) == text' = [text EXCEPT ![p] = plan] /\ since' = [since EXCEPT ![p] = {}]
Saving(records) ==
    since' = [q \in Agents |-> IF pc'[q] \in {"tick", "write"} THEN since[q] \cup records ELSE {}]

ReadForNext(p) ==
    /\ At(p, "idle") /\ passes[p] < MaxPasses
    /\ Read(p) /\ Go(p, "next") /\ passes' = [passes EXCEPT ![p] = @ + 1]
    /\ UNCHANGED <<plan, treeVars, offered, edits, live, met>>

\* working_tree_dirty: the plan itself does not count, a stray temporary does
working_tree_dirty == uncommitted # {} \/ stray

Offer(p) ==
    /\ offered' = [offered EXCEPT ![p] = text[p][First(Open(text[p]))].id]
    /\ met' = (met \/ \E q \in Agents \ {p} : pc[q] = "offered")
    /\ Go(p, "offered") /\ UNCHANGED <<text, since>>
Refused(p) == Ends(p) /\ UNCHANGED met
MayOffer(p) == Valid(text[p]) /\ Pending(text[p]) = {} /\ Open(text[p]) # {}

\* (mutant) the working tree is not looked at
NextAnyTree(p) ==
    /\ At(p, "next")
    /\ IF MayOffer(p) THEN Offer(p) ELSE Refused(p)
    /\ UNCHANGED <<plan, treeVars, passes, edits, live>>

plan_next(p) ==
    /\ At(p, "next")
    /\ IF MayOffer(p) /\ ~working_tree_dirty THEN Offer(p) ELSE Refused(p)
    /\ UNCHANGED <<plan, treeVars, passes, edits, live>>

\* The agent changes the paths of the item, or is told not to; its verification
\* passes, or it takes the changes back
Work(p) ==
    /\ At(p, "offered")
    /\ \/ /\ uncommitted' = uncommitted \cup {offered[p]}
          /\ Go(p, "worked") /\ UNCHANGED <<text, offered, since>>
       \/ Ends(p) /\ UNCHANGED uncommitted
    /\ UNCHANGED <<plan, stray, passes, edits, live, met>>

Revert(p) ==
    /\ At(p, "worked")
    /\ uncommitted' = uncommitted \ {offered[p]} /\ Ends(p)
    /\ UNCHANGED <<plan, stray, passes, edits, live, met>>

-----------------------------------------------------------------------------
(* plan tick *)

\* (mutant) the text that next has read is used
ReadNothing(p) ==
    /\ At(p, "worked") /\ Go(p, "tick")
    /\ UNCHANGED <<plan, treeVars, passes, text, offered, edits, live, met>>
    /\ since' = [since EXCEPT ![p] = {}]

ReadForTick(p) ==
    /\ At(p, "worked") /\ Read(p) /\ Go(p, "tick")
    /\ UNCHANGED <<plan, treeVars, passes, offered, edits, live, met>>

\* The lines that read like the item, anywhere in the document
Alike(doc, c) == {i \in DOMAIN doc : doc[i].kind = "item" /\ doc[i].id = c}

\* The first of them is marked, the done line goes beneath it
Ticked(doc, c) ==
    LET i == First(Alike(doc, c)) IN
    InsertAt([doc EXCEPT ![i].mark = "x"], i + 1, DoneLine)

\* The item must be in the checklist and open
MayTick(doc, c) ==
    /\ Valid(doc)
    /\ \E i \in Open(doc) : doc[i].id = c
    /\ Valid(Ticked(doc, c))

Reads(p) == MayTick(text[p], offered[p])

\* Refused, or on to atomic_write
plan_tick(p) ==
    /\ At(p, "tick")
    /\ \/ Reads(p) /\ Go(p, "write") /\ UNCHANGED <<text, offered, since>>
       \/ ~Reads(p) /\ Ends(p)
    /\ UNCHANGED <<plan, treeVars, passes, edits, live, met>>

\* os.replace; a decision or a tick saved since the text was read is gone.  The
\* item counts as recorded unless a line of another section reads like it.
atomic_write(p) ==
    /\ At(p, "write")
    /\ LET c == offered[p]
           kept == live \ since[p]
       IN /\ plan' = Ticked(text[p], c)
          /\ live' = kept \cup (IF First(Alike(text[p], c)) \in Checklist(text[p])
                               THEN {<<"done", c>>} ELSE {})
    /\ Go(p, "idle") /\ Saving(Records(plan') \ Records(plan))
    /\ text' = [text EXCEPT ![p] = <<>>] /\ offered' = [offered EXCEPT ![p] = ""]
    /\ UNCHANGED <<treeVars, passes, edits, met>>

\* The agent dies; while atomic_write is at work its temporary stays
Die(p) ==
    /\ pc[p] \in {"offered", "worked", "tick", "write"}
    /\ Ends(p) /\ stray' = (stray \/ At(p, "write"))
    /\ UNCHANGED <<plan, uncommitted, passes, edits, live, met>>

-----------------------------------------------------------------------------
(* The user *)

\* The user commits what there is, and removes what does not belong there
Commit ==
    /\ working_tree_dirty
    /\ uncommitted' = {} /\ stray' = FALSE
    /\ UNCHANGED <<plan, agentVars, edits, live, since, met>>

Saved(doc) ==
    /\ edits < MaxEdits /\ edits' = edits + 1 /\ plan' = doc
    /\ live' = (live \cap Records(doc)) \cup (Records(doc) \ Records(plan))
    /\ UNCHANGED <<treeVars, agentVars, met>> /\ Saving(Records(doc) \ Records(plan))

\* A decision is recorded: its row, and the parked idea
WithDecision(doc, i, d) ==
    LET decided == [doc EXCEPT ![i].mark = d]
        idea == {k \in DOMAIN doc : doc[k].kind = "parked" /\ doc[k].id = doc[i].id}
    IN IF d = "park" THEN Append(decided, Parked(doc[i].id))
       ELSE IF idea # {} THEN RemoveAt(decided, First(idea)) ELSE decided

Decide ==
    \E i \in Threads(plan), d \in {"keep", "park", "pending"} :
        plan[i].ref # "spine" /\ plan[i].mark # d /\ Saved(WithDecision(plan, i, d))

\* A line of the checklist is quoted in the first section
Quote == \E i \in Open(plan) : Saved(InsertAt(plan, 2, plan[i]))

-----------------------------------------------------------------------------
Survey(decision) ==
    << Heading("Spine"), Heading("Threads"), Thread("T1", "spine", "keep"),
       Thread("T2", "side-quest", decision), Heading("Checklist"), Item("C1", "H1", " "),
       Item("C2", "T2", " "), Heading("Foundations"), Heading("Suggested next moves") >>
    \o (IF decision = "park" THEN <<Parked("T2")>> ELSE <<>>)

Init ==
    /\ plan \in {Survey(d) : d \in {"pending", "park"}}
    /\ uncommitted = {} /\ stray = FALSE
    /\ pc = [p \in Agents |-> "idle"] /\ passes = [p \in Agents |-> 0]
    /\ text = [p \in Agents |-> <<>>] /\ offered = [p \in Agents |-> ""]
    /\ edits = 0
    /\ live = Records(plan) /\ since = [p \in Agents |-> {}] /\ met = FALSE

Next ==
    \/ \E p \in Agents :
          \/ ReadForNext(p) \/ plan_next(p) \/ Work(p) \/ Revert(p)
          \/ ReadForTick(p) \/ plan_tick(p) \/ atomic_write(p) \/ Die(p)
    \/ Commit \/ Decide \/ Quote

Spec == Init /\ [][Next]_vars

-----------------------------------------------------------------------------
(* Properties *)

\* A decision or a tick that was recorded stays in the plan until the user
\* changes it, unless a tick had read the plan before it was recorded and
\* replaced the plan afterwards.
RecordsKept == live \subseteq Records(plan)

\* The working tree never holds the changes of two items, so that each can be
\* reverted alone, unless two agents passed the check of the tree together.
OneAtATime == Cardinality(uncommitted) <= 1 \/ met

=============================================================================
