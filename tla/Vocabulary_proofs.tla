------------------------- MODULE Vocabulary_proofs -------------------------
(***************************************************************************)
(* What holds of Vocabulary for every number of agents, edits, errors and   *)
(* crashes: no apply replaces one glossary by another under its name, and   *)
(* no version that was in place or saved is lost.                           *)
(***************************************************************************)
EXTENDS Vocabulary, FiniteSetTheorems, TLAPS

EntriesOK == dir = [n \in Names |-> dir[n]]

\* The glossary stays where it is, or the name is left or taken
Kept(d) == Exists(dir, Target) /\ Exists(d, Target) => d[Target] = dir[Target]

LEMMA NamesDiffer ==
    ASSUME NEW p \in Agents
    PROVE  Tmp(p) # Target /\ Claim(p) # Target /\ Tmp(p) \in Names /\ Claim(p) \in Names
BY DEF Tmp, Claim, Target, Names

\* renameat2 with RENAME_NOREPLACE keeps what is there
LEMMA NoReplaceKeeps ==
    ASSUME EntriesOK, NEW n \in Names, n # Target, dir' = RenameNoReplace(n, Target)
    PROVE  EntriesOK' /\ Kept(dir')
<1>1. Target \in Names
    BY DEF Names
<1> QED BY <1>1 DEF EntriesOK, RenameNoReplace, Rename, Kept, Exists

LEMMA SameKeeps == ASSUME EntriesOK, dir' = dir PROVE EntriesOK' /\ Kept(dir')
BY DEF EntriesOK, Kept

\* A name that is not the glossary's changes
LEMMA OtherKeeps ==
    ASSUME EntriesOK, NEW n \in Names \ {Target}, NEW i, dir' = [dir EXCEPT ![n] = i]
    PROVE  EntriesOK' /\ Kept(dir')
BY DEF EntriesOK, Kept, Exists

LEMMA StepKeeps ==
    ASSUME EntriesOK, [Next]_vars
    PROVE  EntriesOK' /\ (UserStep \/ Kept(dir'))
<1>t. Target \in Names
    BY DEF Names
<1>s. Same \/ (\E p \in Agents : Refuse(p) \/ Preserve(p)) => dir' = dir
    BY DEF Same, Refuse, Preserve, fileVars
<1>1. ASSUME NEW p \in Agents, Propose(p) \/ RecoverLook(p) PROVE dir' = dir
    BY <1>1 DEF Propose, RecoverLook, Same, fileVars
<1>2. ASSUME NEW p \in Agents, Revive(p) PROVE EntriesOK' /\ Kept(dir')
    <2>1. dir' = RenameNoReplace(Claim(picked[p]), Target)
        BY <1>2 DEF Revive, Changed, Entries
    <2>2. CASE dir' = dir
        BY <2>2, SameKeeps
    <2>3. CASE dir' # dir
        <3>1. /\ Exists(dir, Claim(picked[p])) /\ ~Exists(dir, Target)
              /\ dir' = Rename(dir, Claim(picked[p]), Target)
            BY <2>1, <2>3 DEF RenameNoReplace
        <3> QED BY <3>1, <1>t DEF EntriesOK, Rename, Kept
    <2> QED BY <2>2, <2>3
<1>3. ASSUME NEW p \in Agents, ReadCurrent(p) \/ VerifyClaim(p) \/ CheckSame(p) PROVE dir' = dir
    BY <1>3, <1>s DEF ReadCurrent, VerifyClaim, CheckSame
<1>4. ASSUME NEW p \in Agents, CheckContent(p) \/ CheckClaim(p) PROVE dir' = dir
    BY <1>4, <1>s DEF CheckContent, CheckClaim, fileVars
<1>5. ASSUME NEW p \in Agents, CreateTemporary(p) PROVE EntriesOK' /\ Kept(dir')
    BY <1>5, NamesDiffer, OtherKeeps DEF CreateTemporary, NewFile, Create
<1>6. ASSUME NEW p \in Agents, ClaimTarget(p) PROVE EntriesOK' /\ Kept(dir')
    <2>1. CASE Exists(dir, Target)
        <3>1. dir' = Rename(dir, Target, Claim(p))
            BY <1>6, <2>1 DEF ClaimTarget, Changed, Entries
        <3> QED BY <1>t, <3>1, NamesDiffer DEF Rename, EntriesOK, Kept, Exists
    <2>2. CASE ~Exists(dir, Target)
        BY <1>6, <1>s, <2>2, SameKeeps DEF ClaimTarget
    <2> QED BY <2>1, <2>2
<1>7. ASSUME NEW p \in Agents, ReturnClaim(p) \/ RestoreClaim(p) PROVE EntriesOK' /\ Kept(dir')
    BY <1>7, NamesDiffer, NoReplaceKeeps DEF ReturnClaim, RestoreClaim, Changed, Entries
<1>8. ASSUME NEW p \in Agents, LinkTarget(p) PROVE EntriesOK' /\ Kept(dir')
    <2>1. CASE Exists(dir, Target)
        BY <1>8, <1>s, <2>1, SameKeeps DEF LinkTarget
    <2>2. CASE ~Exists(dir, Target)
        <3>1. dir' = Link(dir, Tmp(p), Target)
            BY <1>8, <2>2 DEF LinkTarget, Entries
        <3> QED BY <1>t, <2>2, <3>1 DEF Link, EntriesOK, Kept
    <2> QED BY <2>1, <2>2
<1>9. ASSUME NEW p \in Agents, UnlinkTemporary(p) \/ DropTemporary(p) PROVE EntriesOK' /\ Kept(dir')
    BY <1>9, NamesDiffer, OtherKeeps DEF UnlinkTemporary, DropTemporary, Changed, Entries, Unlink
<1>10. ASSUME NEW p \in Agents, UnlinkClaim(p) PROVE EntriesOK' /\ Kept(dir')
    <2>1. CASE Exists(dir, Claim(p))
        BY <1>10, <2>1, NamesDiffer, OtherKeeps DEF UnlinkClaim, Entries, Unlink
    <2>2. CASE ~Exists(dir, Claim(p))
        BY <1>10, <1>s, <2>2, SameKeeps DEF UnlinkClaim
    <2> QED BY <2>1, <2>2
<1>11. ASSUME NEW p \in Agents, Fail(p) \/ Crash(p) PROVE dir' = dir
    BY <1>11 DEF Fail, Crash, fileVars
<1>12. ASSUME Minute \/ UNCHANGED vars PROVE dir' = dir
    BY <1>12 DEF Minute, vars, fileVars
<1>13. ASSUME UserStep PROVE EntriesOK'
    BY <1>13, <1>t DEF UserStep, CloseEditor, SaveByRename, SaveInPlace, OpenHandle, WriteHandle,
                       Delete, Overwrite, NewFile, Create, Unlink, EntriesOK, fileVars
<1> QED BY <1>1, <1>2, <1>3, <1>4, <1>5, <1>6, <1>7, <1>8, <1>9, <1>10, <1>11, <1>12, <1>13,
           SameKeeps DEF Next, Apply, Rest

\* CONCEPTS.md is installed without overwriting a concurrently created path: each
\* step of apply and of its recovery (_rename_no_replace, os.link), errors and
\* crashes included, leaves the glossary, claims it, or finds the name free
THEOREM GlossaryNeverReplaced == Spec => NeverReplaces
<1>1. Init => EntriesOK
    BY DEF Init, EntriesOK
<1>2. EntriesOK /\ [Next]_vars => EntriesOK'
    BY StepKeeps
<1>3. EntriesOK /\ [Next]_vars =>
          [UserStep \/ (Exists(dir, Target) /\ Exists(dir', Target) => dir'[Target] = dir[Target])]_vars
    BY StepKeeps DEF Kept
<1> QED BY <1>1, <1>2, <1>3, PTL DEF Spec, NeverReplaces

-----------------------------------------------------------------------------
(* Nothing is lost *)

\* The glossary and the claims: what a temporary holds does not count, for every
\* apply removes its own
Places == {Target} \cup {Claim(p) : p \in Agents}

Held(d, D, V) == \A v \in V : \E n \in Places : d[n] # NoFile /\ D[d[n]] = v

Unclaimed == {"propose", "recover", "revive", "read", "create", "claim"}

\* The claim of an agent that is about to remove it holds what its user approved
\* to replace, and no temporary is a second name of it
Checked(p) ==
    pc[p] = "unclaim" /\ dir[Claim(p)] # NoFile =>
        data[dir[Claim(p)]] = token[p] /\ \A q \in Agents : dir[Tmp(q)] # dir[Claim(p)]

GlossaryOK ==
    /\ dir \in [Names -> Inodes \cup {NoFile}] /\ data = [i \in Inodes |-> data[i]]
    /\ pc = [p \in Agents |-> pc[p]] /\ handle \in Inodes \cup {NoFile}
    /\ DOMAIN token = Agents /\ DOMAIN picked = Agents

AgentInv(p) == /\ pc[p] \in Unclaimed => dir[Claim(p)] = NoFile
               /\ pc[p] = "revive" => picked[p] \in Agents
               /\ Checked(p)

\* What the editor has open has a name that counts, if it has any
HandleNamed ==
    handle \in Linked(dir, {}) \ {NoFile} => \E n \in Places : dir[n] = handle

GlossaryInv == /\ GlossaryOK /\ HandleNamed /\ Held(dir, data, live)
               /\ \A p \in Agents : AgentInv(p)

LEMMA PlaceNames ==
    /\ Target \in Places /\ Places \subseteq Names
    /\ \A p \in Agents : Claim(p) \in Places /\ Claim(p) # Target
    /\ \A p \in Agents : Tmp(p) \in Names /\ Tmp(p) \notin Places
    /\ \A p \in Agents : \A q \in Agents : p # q => Claim(p) # Claim(q) /\ Tmp(p) # Tmp(q)
BY DEF Places, Names, Target, Claim, Tmp

\* An inode with one link has one name
LEMMA OneLink ==
    ASSUME NEW n \in Names, dir \in [Names -> Inodes \cup {NoFile}], Links(n) = 1
    PROVE  \A m \in Names \ {n} : dir[m] # dir[n]
<1> DEFINE N == {m \in Names : dir[m] = dir[n]}
<1>1. IsFiniteSet(Names)
    <2> DEFINE T == {Tmp(p) : p \in Agents}
               C == {Claim(p) : p \in Agents}
    <2>1. IsFiniteSet(T)
        <3>1. [p \in Agents |-> Tmp(p)] \in Surjection(Agents, T)
            BY DEF Surjection
        <3> QED BY <3>1, FS_Surjection, VocabularyAssumption
    <2>2. IsFiniteSet(C)
        <3>1. [p \in Agents |-> Claim(p)] \in Surjection(Agents, C)
            BY DEF Surjection
        <3> QED BY <3>1, FS_Surjection, VocabularyAssumption
    <2>3. IsFiniteSet({Target}) /\ IsFiniteSet({Target} \cup T)
        BY <2>1, FS_Singleton, FS_Union
    <2> QED BY <2>2, <2>3, FS_Union DEF Names
<1>2. IsFiniteSet(N) /\ Cardinality(N) = 1
    <2>1. IsFiniteSet(N) /\ Cardinality(N) \in Nat
        BY <1>1, FS_Subset, FS_CardinalityType
    <2>2. Links(n) = Cardinality(N) + 0
        BY DEF Links, Nlink
    <2> QED BY <2>1, <2>2
<1>3. PICK x : N = {x}
    BY <1>2, FS_Singleton
<1> QED BY <1>3

LEMMA HeldStays ==
    ASSUME NEW d, NEW D, NEW V, Held(d, D, V), NEW d2, NEW D2, NEW W, W \subseteq V,
           \A n \in Places : d[n] # NoFile /\ D[d[n]] \in W =>
               \E m \in Places : d2[m] # NoFile /\ D2[d2[m]] = D[d[n]]
    PROVE  Held(d2, D2, W)
BY DEF Held

LEMMA InitGlossary == ASSUME Init PROVE GlossaryInv
<1>1. First \in Inodes /\ First # NoFile
    BY DirectoryAssumption DEF First
<1>2. /\ last \in {0, 1} /\ live = {last} \ {Missing} /\ handle = NoFile
      /\ dir = [n \in Names |-> IF n = Target /\ last = 1 THEN First ELSE NoFile]
      /\ data = [i \in Inodes |-> IF i = First THEN last ELSE 0]
      /\ pc = [p \in Agents |-> "propose"] /\ token = [p \in Agents |-> Missing]
      /\ picked = [p \in Agents |-> NoFile]
    BY DEF Init
<1>3. GlossaryOK
    BY <1>1, <1>2 DEF GlossaryOK
<1>4. Held(dir, data, live)
    <2>1. ASSUME last = 1 PROVE dir[Target] = First /\ data[First] = 1
        BY <1>1, <1>2, <2>1, PlaceNames
    <2> QED BY <1>1, <1>2, <2>1, PlaceNames DEF Held, Missing
<1>5. ASSUME NEW p \in Agents PROVE AgentInv(p)
    <2>1. dir[Claim(p)] = NoFile /\ pc[p] = "propose"
        BY <1>2, PlaceNames
    <2> QED BY <2>1 DEF AgentInv, Checked
<1> QED BY <1>2, <1>3, <1>4, <1>5 DEF GlossaryInv, HandleNamed

\* A step of agent p that writes no temporary
LEMMA AgentStep ==
    ASSUME GlossaryInv, NEW p \in Agents, NEW s, Go(p, s), UNCHANGED <<data, handle>>,
           dir' \in [Names -> Inodes \cup {NoFile}],
           DOMAIN token' = Agents /\ DOMAIN picked' = Agents,
           \A q \in Agents \ {p} : /\ dir'[Claim(q)] \in {dir[Claim(q)], NoFile}
                                   /\ token'[q] = token[q] /\ picked'[q] = picked[q],
           \A q \in Agents : dir'[Tmp(q)] \in {dir[Tmp(q)], NoFile},
           AgentInv(p)', HandleNamed', Held(dir, data, live)'
    PROVE  GlossaryInv'
<1>1. pc' = [pc EXCEPT ![p] = s]
    BY DEF Go
<1>2. GlossaryOK'
    BY <1>1 DEF GlossaryInv, GlossaryOK
<1>3. ASSUME NEW q \in Agents PROVE AgentInv(q)'
    <2>1. CASE q = p
        BY <2>1
    <2>2. CASE q # p
        <3>1. pc'[q] = pc[q] /\ token'[q] = token[q] /\ picked'[q] = picked[q]
              /\ dir'[Claim(q)] \in {dir[Claim(q)], NoFile} /\ AgentInv(q)
            BY <1>1, <2>2 DEF GlossaryInv, GlossaryOK
        <3>2. Checked(q)'
            <4>1. SUFFICES ASSUME pc[q] = "unclaim", dir'[Claim(q)] # NoFile
                           PROVE  /\ data[dir'[Claim(q)]] = token[q]
                                  /\ \A r \in Agents : dir'[Tmp(r)] # dir'[Claim(q)]
                BY <3>1 DEF Checked
            <4>2. dir'[Claim(q)] = dir[Claim(q)]
                BY <3>1, <4>1
            <4> QED BY <3>1, <4>1, <4>2 DEF AgentInv, Checked
        <3> QED BY <3>1, <3>2 DEF AgentInv
    <2> QED BY <2>1, <2>2
<1> QED BY <1>2, <1>3 DEF GlossaryInv

\* A step of agent p that changes no entry
LEMMA SameStep ==
    ASSUME GlossaryInv, NEW p \in Agents, NEW s, Go(p, s), UNCHANGED <<dir, data, handle, live>>,
           \A q \in Agents \ {p} : token'[q] = token[q] /\ picked'[q] = picked[q],
           DOMAIN token' = Agents /\ DOMAIN picked' = Agents, AgentInv(p)'
    PROVE  GlossaryInv'
<1>1. HandleNamed' /\ Held(dir, data, live)'
    BY DEF GlossaryInv, HandleNamed
<1>2. dir' \in [Names -> Inodes \cup {NoFile}]
    BY DEF GlossaryInv, GlossaryOK
<1> QED BY <1>1, <1>2, AgentStep

\* Nothing but the place in the program changes, and no claim is checked
LEMMA MoveOn ==
    ASSUME GlossaryInv, NEW p \in Agents, NEW s, Go(p, s), UNCHANGED <<dir, data, handle, live>>,
           UNCHANGED <<token, picked>>, s \notin {"revive", "unclaim"},
           s \in Unclaimed => pc[p] \in Unclaimed
    PROVE  GlossaryInv'
<1>1. dir[Claim(p)] = NoFile \/ pc[p] \notin Unclaimed
    BY DEF GlossaryInv, AgentInv
<1>2. pc'[p] = s
    BY DEF Go, GlossaryInv, GlossaryOK
<1>3. AgentInv(p)' /\ DOMAIN token' = Agents /\ DOMAIN picked' = Agents
    BY <1>1, <1>2 DEF AgentInv, Checked, GlossaryInv, GlossaryOK
<1> QED BY <1>3, SameStep

\* A rename from one place to another that is free
LEMMA PlaceMoves ==
    ASSUME GlossaryInv, NEW p \in Agents, NEW s, s \notin {"revive", "unclaim"}, Go(p, s),
           NEW a \in Places, NEW b \in Places, a # b, dir[b] = NoFile,
           dir' = Rename(dir, a, b), UNCHANGED <<data, handle, live, token, picked>>,
           \A q \in Agents : b = Claim(q) => q = p /\ s \notin Unclaimed,
           s \in Unclaimed => pc[p] \in Unclaimed
    PROVE  GlossaryInv'
<1>1. /\ dir \in [Names -> Inodes \cup {NoFile}] /\ a \in Names /\ b \in Names
      /\ pc'[p] = s /\ DOMAIN token' = Agents /\ DOMAIN picked' = Agents
    BY PlaceNames DEF GlossaryInv, GlossaryOK, Go
<1>2. /\ dir' \in [Names -> Inodes \cup {NoFile}] /\ dir'[b] = dir[a] /\ dir'[a] = NoFile
      /\ \A n \in Names \ {a, b} : dir'[n] = dir[n]
    BY <1>1 DEF Rename
<1>3. \A q \in Agents \ {p} : dir'[Claim(q)] \in {dir[Claim(q)], NoFile}
    BY <1>2, PlaceNames
<1>4. \A q \in Agents : dir'[Tmp(q)] \in {dir[Tmp(q)], NoFile}
    BY <1>2, PlaceNames
<1>5. AgentInv(p)'
    <2>1. ASSUME s \in Unclaimed PROVE dir'[Claim(p)] = NoFile
        <3>1. dir[Claim(p)] = NoFile /\ Claim(p) # b
            BY <2>1 DEF GlossaryInv, AgentInv
        <3> QED BY <1>2, <3>1, PlaceNames
    <2> QED BY <1>1, <2>1 DEF AgentInv, Checked
<1>6. Held(dir, data, live)'
    <2>1. ASSUME NEW n \in Places, dir[n] # NoFile PROVE \E m \in Places : dir'[m] = dir[n]
        BY <1>2, <2>1, PlaceNames
    <2>2. Held(dir, data, live)
        BY DEF GlossaryInv
    <2>3. Held(dir', data, live)
        BY <2>1, <2>2 DEF Held
    <2> QED BY <2>3 DEF Held
<1>7. HandleNamed'
    <2>1. SUFFICES ASSUME handle \in Linked(dir', {}) \ {NoFile} PROVE \E n \in Places : dir'[n] = handle
        BY DEF HandleNamed
    <2>2. handle \in Linked(dir, {}) \ {NoFile}
        BY <1>1, <1>2, <2>1 DEF Linked
    <2>3. PICK n \in Places : dir[n] = handle
        BY <2>2 DEF GlossaryInv, HandleNamed
    <2> QED BY <1>2, <2>1, <2>3, PlaceNames
<1> QED BY <1>1, <1>2, <1>3, <1>4, <1>5, <1>6, <1>7, AgentStep

\* The steps that read, and the renames between the glossary and a claim
LEMMA LooksKeep ==
    ASSUME GlossaryInv, NEW p \in Agents,
           \/ ReadCurrent(p) \/ VerifyClaim(p) \/ CheckSame(p) \/ Fail(p) \/ Crash(p)
    PROVE  GlossaryInv'
<1>1. UNCHANGED <<dir, data, handle, live, token, picked>>
    BY DEF ReadCurrent, VerifyClaim, CheckSame, Fail, Crash, At, Same, Refuse, Preserve, fileVars,
           agentVars, userVars
<1>2. CASE ReadCurrent(p)
    <2>1. PICK s \in {"refused", "ok", "create"} : Go(p, s)
        BY <1>2 DEF ReadCurrent
    <2>2. pc[p] = "read"
        BY <1>2 DEF ReadCurrent, At
    <2> QED BY <1>1, <2>1, <2>2, MoveOn DEF Unclaimed
<1>3. CASE VerifyClaim(p) \/ CheckSame(p)
    <2>1. PICK s \in {"drop", "link", "return", "content", "refused"} : Go(p, s)
        BY <1>3 DEF VerifyClaim, CheckSame, Preserve
    <2> QED BY <1>1, <2>1, MoveOn DEF Unclaimed
<1>4. CASE Fail(p)
    <2>1. CASE pc[p] \in {"recover", "revive"} /\ Go(p, "read")
        BY <1>1, <2>1, MoveOn DEF Unclaimed
    <2>2. CASE \E s \in {"refused", "drop", "restore"} : Go(p, s)
        BY <1>1, <2>2, MoveOn DEF Unclaimed
    <2> QED BY <1>4, <2>1, <2>2 DEF Fail
<1>5. CASE Crash(p)
    <2>1. Go(p, "dead")
        BY <1>5 DEF Crash
    <2> QED BY <1>1, <2>1, MoveOn DEF Unclaimed
<1> QED BY <1>2, <1>3, <1>4, <1>5

LEMMA ProposeKeeps ==
    ASSUME GlossaryInv, NEW p \in Agents, Propose(p) \/ RecoverLook(p)
    PROVE  GlossaryInv'
<1>1. /\ UNCHANGED <<dir, data, handle, live>> /\ pc[p] \in {"propose", "recover"}
      /\ DOMAIN token' = Agents /\ DOMAIN picked' = Agents
      /\ \A q \in Agents \ {p} : token'[q] = token[q] /\ picked'[q] = picked[q]
    <2>1. CASE Propose(p)
        <3>1. /\ UNCHANGED <<dir, data, handle, live, picked>> /\ pc[p] = "propose"
              /\ (token' = token \/ \E v \in Versions : token' = [token EXCEPT ![p] = v])
            <4>1. UNCHANGED handle /\ pc[p] = "propose"
                BY <2>1 DEF Propose, At, userVars
            <4>2. CASE Same
                BY <4>1, <4>2 DEF Same, fileVars, agentVars
            <4>3. CASE ~Same
                <5>1. UNCHANGED <<dir, data, live, picked>>
                    BY <2>1, <4>3 DEF Propose
                <5>2. PICK v \in Versions : token' = [token EXCEPT ![p] = v]
                    BY <2>1, <4>3, Zenon DEF Propose
                <5> QED BY <4>1, <5>1, <5>2
            <4> QED BY <4>2, <4>3
        <3>2. \A q \in Agents \ {p} : token'[q] = token[q]
            BY <3>1 DEF GlossaryInv, GlossaryOK
        <3> QED BY <3>1, <3>2 DEF GlossaryInv, GlossaryOK
    <2>2. CASE RecoverLook(p) /\ Same
        BY <2>2 DEF RecoverLook, At, Same, fileVars, agentVars, userVars, GlossaryInv, GlossaryOK
    <2>3. CASE RecoverLook(p) /\ ~Same
        <3>1. PICK q \in Stale : picked' = [picked EXCEPT ![p] = q]
            BY <2>3 DEF RecoverLook
        <3>2. /\ UNCHANGED <<dir, data, handle, live, token>> /\ pc[p] = "recover"
              /\ DOMAIN token = Agents /\ DOMAIN picked = Agents
            BY <2>3 DEF RecoverLook, At, fileVars, userVars, GlossaryInv, GlossaryOK
        <3> QED BY <3>1, <3>2
    <2> QED BY <2>1, <2>2, <2>3
<1>2. dir[Claim(p)] = NoFile
    BY <1>1 DEF GlossaryInv, AgentInv, Unclaimed
<1>3. \/ \E s \in {"recover", "refused", "read"} : Go(p, s)
      \/ Go(p, "revive") /\ picked'[p] \in Agents
    <2>1. CASE Propose(p)
        BY <2>1 DEF Propose
    <2>2. CASE RecoverLook(p) /\ ~Go(p, "read")
        <3>1. PICK q \in Stale : Go(p, "revive") /\ picked' = [picked EXCEPT ![p] = q]
            BY <2>2 DEF RecoverLook
        <3> QED BY <3>1 DEF Stale, GlossaryInv, GlossaryOK
    <2> QED BY <2>1, <2>2
<1>4. CASE \E s \in {"recover", "refused", "read"} : Go(p, s)
    <2>1. PICK s \in {"recover", "refused", "read"} : Go(p, s)
        BY <1>4
    <2>2. pc'[p] = s
        BY <2>1 DEF Go, GlossaryInv, GlossaryOK
    <2>3. AgentInv(p)'
        BY <1>1, <1>2, <2>1, <2>2 DEF AgentInv, Checked
    <2> QED BY <1>1, <2>1, <2>3, SameStep
<1>5. CASE Go(p, "revive") /\ picked'[p] \in Agents
    <2>1. pc'[p] = "revive"
        BY <1>5 DEF Go, GlossaryInv, GlossaryOK
    <2>2. AgentInv(p)'
        BY <1>1, <1>2, <1>5, <2>1 DEF AgentInv, Checked
    <2> QED BY <1>1, <1>5, <2>2, SameStep
<1> QED BY <1>3, <1>4, <1>5

LEMMA RenamesKeep ==
    ASSUME GlossaryInv, NEW p \in Agents,
           Revive(p) \/ ClaimTarget(p) \/ ReturnClaim(p) \/ RestoreClaim(p)
    PROVE  GlossaryInv'
<1>1. UNCHANGED <<data, handle, live, token, picked>>
    BY DEF Revive, ClaimTarget, ReturnClaim, RestoreClaim, At, Changed, Entries, Refuse, Same,
           fileVars, agentVars, userVars
<1>2. ASSUME NEW q \in Agents, NEW s \in {"read", "drop", "refused"}, Go(p, s),
             dir' = RenameNoReplace(Claim(q), Target), s \in Unclaimed => pc[p] \in Unclaimed
      PROVE  GlossaryInv'
    <2>1. CASE dir' = dir
        BY <1>1, <1>2, <2>1, MoveOn
    <2>2. CASE dir' = Rename(dir, Claim(q), Target) /\ dir[Target] = NoFile
        <3>1. /\ Claim(q) \in Places /\ Target \in Places /\ Claim(q) # Target
              /\ \A r \in Agents : Target # Claim(r)
            BY PlaceNames
        <3> QED BY <1>1, <1>2, <2>2, <3>1, PlaceMoves
    <2> QED BY <1>2, <2>1, <2>2 DEF RenameNoReplace, Exists
<1>3. CASE Revive(p)
    <2>1. pc[p] = "revive" /\ Go(p, "read") /\ dir' = RenameNoReplace(Claim(picked[p]), Target)
        BY <1>3 DEF Revive, At, Changed, Entries
    <2>2. picked[p] \in Agents
        BY <2>1 DEF GlossaryInv, AgentInv
    <2> QED BY <1>2, <2>1, <2>2 DEF Unclaimed
<1>4. CASE ReturnClaim(p) \/ RestoreClaim(p)
    <2>1. dir' = RenameNoReplace(Claim(p), Target) /\ (Go(p, "drop") \/ Go(p, "refused"))
        BY <1>4 DEF ReturnClaim, RestoreClaim, Changed, Entries
    <2> QED BY <1>2, <2>1 DEF Unclaimed
<1>5. CASE ClaimTarget(p) /\ Exists(dir, Target)
    <2>1. pc[p] = "claim" /\ Go(p, "verify") /\ dir' = Rename(dir, Target, Claim(p))
        BY <1>5 DEF ClaimTarget, At, Changed, Entries
    <2>2. dir[Claim(p)] = NoFile
        BY <2>1 DEF GlossaryInv, AgentInv, Unclaimed
    <2>3. /\ Claim(p) \in Places /\ Target \in Places /\ Claim(p) # Target
          /\ \A q \in Agents : Claim(p) = Claim(q) => q = p
        BY PlaceNames
    <2> QED BY <1>1, <2>1, <2>2, <2>3, PlaceMoves DEF Unclaimed
<1>6. CASE ClaimTarget(p) /\ ~Exists(dir, Target)
    <2>1. Go(p, "drop") /\ dir' = dir
        BY <1>6 DEF ClaimTarget, Refuse, Same, fileVars
    <2> QED BY <1>1, <2>1, MoveOn DEF Unclaimed
<1> QED BY <1>3, <1>4, <1>5, <1>6

\* A file written to a free inode under a name that does not count, or whose
\* content does not
LEMMA WrittenKeeps ==
    ASSUME GlossaryInv, NEW n \in Names, NEW v, NewFile(n, v), NEW W, W \subseteq live,
           n \in Places /\ dir[n] # NoFile => data[dir[n]] \notin W
    PROVE  /\ New \in Inodes /\ New # NoFile /\ New \notin Linked(dir, {}) /\ New # handle
           /\ dir' = [dir EXCEPT ![n] = New] /\ dir' \in [Names -> Inodes \cup {NoFile}]
           /\ data' = [data EXCEPT ![New] = v] /\ data'[New] = v
           /\ data' = [i \in Inodes |-> data'[i]]
           /\ \A m \in Names \ {n} : dir'[m] = dir[m]
           /\ \A m \in Names : dir[m] # NoFile => dir[m] # New /\ data'[dir[m]] = data[dir[m]]
           /\ Held(dir', data', W)
<1>1. dir \in [Names -> Inodes \cup {NoFile}] /\ data = [i \in Inodes |-> data[i]]
    BY DEF GlossaryInv, GlossaryOK
<1>2. /\ New \in Inodes /\ New \notin Linked(dir, {}) /\ New # handle /\ New # NoFile
    BY DirectoryAssumption DEF NewFile, Free, New, FreeInodes, NewInode
<1>3. dir' = [dir EXCEPT ![n] = New] /\ data' = [data EXCEPT ![New] = v]
    BY DEF NewFile, Create
<1>4. /\ dir' \in [Names -> Inodes \cup {NoFile}] /\ data'[New] = v
      /\ data' = [i \in Inodes |-> data'[i]]
      /\ \A m \in Names \ {n} : dir'[m] = dir[m]
    BY <1>1, <1>2, <1>3
<1>5. ASSUME NEW m \in Names, dir[m] # NoFile
      PROVE  dir[m] # New /\ data'[dir[m]] = data[dir[m]]
    <2>1. dir[m] \in Linked(dir, {}) /\ dir[m] \in Inodes
        BY <1>1, <1>5 DEF Linked
    <2> QED BY <1>1, <1>2, <1>3, <2>1
<1>6. ASSUME NEW m \in Places, dir[m] # NoFile, data[dir[m]] \in W
      PROVE  dir'[m] # NoFile /\ data'[dir'[m]] = data[dir[m]]
    <2>1. m \in Names /\ m # n
        BY <1>6, PlaceNames
    <2> QED BY <1>4, <1>5, <1>6, <2>1
<1>7. Held(dir', data', W)
    BY <1>6, HeldStays DEF GlossaryInv
<1> QED BY <1>2, <1>3, <1>4, <1>5, <1>7

LEMMA CreateKeeps == ASSUME GlossaryInv, NEW p \in Agents, CreateTemporary(p) PROVE GlossaryInv'
<1>1. /\ pc[p] = "create" /\ NewFile(Tmp(p), candidate[p])
      /\ UNCHANGED <<live, handle, token, picked>>
    BY DEF CreateTemporary, At, agentVars, userVars
<1>2. /\ New \in Inodes /\ New # NoFile /\ New \notin Linked(dir, {}) /\ New # handle
      /\ dir' = [dir EXCEPT ![Tmp(p)] = New] /\ dir' \in [Names -> Inodes \cup {NoFile}]
      /\ data' = [i \in Inodes |-> data'[i]]
      /\ \A m \in Names \ {Tmp(p)} : dir'[m] = dir[m]
      /\ \A m \in Names : dir[m] # NoFile => dir[m] # New /\ data'[dir[m]] = data[dir[m]]
      /\ Held(dir', data', live)
    BY <1>1, WrittenKeeps, PlaceNames
<1>3. PICK s \in {"link", "claim"} : pc' = [pc EXCEPT ![p] = s]
    BY DEF CreateTemporary, Go
<1>4. GlossaryOK'
    BY <1>1, <1>2, <1>3 DEF GlossaryInv, GlossaryOK
<1>5. \A n \in Places : dir'[n] = dir[n]
    BY <1>2, PlaceNames
<1>6. HandleNamed'
    <2>1. SUFFICES ASSUME handle \in Linked(dir', {}) \ {NoFile} PROVE \E n \in Places : dir'[n] = handle
        BY <1>1 DEF HandleNamed
    <2>2. handle \in Linked(dir, {}) \ {NoFile}
        BY <1>2, <2>1 DEF Linked, GlossaryInv, GlossaryOK
    <2> QED BY <1>5, <2>2 DEF GlossaryInv, HandleNamed
<1>7. ASSUME NEW q \in Agents PROVE AgentInv(q)'
    <2>1. AgentInv(q) /\ AgentInv(p) /\ dir'[Claim(q)] = dir[Claim(q)]
        BY <1>5, PlaceNames DEF GlossaryInv
    <2>2. pc'[q] = IF q = p THEN s ELSE pc[q]
        BY <1>3 DEF GlossaryInv, GlossaryOK
    <2>3. Checked(q)'
        <3>1. SUFFICES ASSUME pc'[q] = "unclaim", dir'[Claim(q)] # NoFile
                       PROVE  /\ data'[dir'[Claim(q)]] = token[q]
                              /\ \A r \in Agents : dir'[Tmp(r)] # dir'[Claim(q)]
            BY <1>1 DEF Checked
        <3>2. pc[q] = "unclaim" /\ dir[Claim(q)] # NoFile /\ Claim(q) \in Names
            BY <1>3, <2>1, <2>2, <3>1, PlaceNames
        <3>3. /\ data[dir[Claim(q)]] = token[q]
              /\ \A r \in Agents : dir[Tmp(r)] # dir[Claim(q)]
            BY <2>1, <3>2 DEF AgentInv, Checked
        <3>4. \A r \in Agents : dir'[Tmp(r)] # dir'[Claim(q)]
            BY <1>2, <2>1, <3>2, <3>3, PlaceNames
        <3> QED BY <1>2, <2>1, <3>2, <3>3, <3>4
    <2>4. (pc[q] \in Unclaimed => dir[Claim(q)] = NoFile)'
        BY <1>1, <2>1, <2>2 DEF AgentInv, Unclaimed
    <2>5. (pc[q] = "revive" => picked[q] \in Agents)'
        BY <1>1, <1>3, <2>1, <2>2 DEF AgentInv
    <2> QED BY <2>3, <2>4, <2>5 DEF AgentInv
<1> QED BY <1>1, <1>2, <1>4, <1>6, <1>7 DEF GlossaryInv

\* An entry is removed or taken up by the step of an agent, and the editor keeps
\* what it has open
LEMMA LinkKeeps == ASSUME GlossaryInv, NEW p \in Agents, LinkTarget(p) PROVE GlossaryInv'
<1>1. UNCHANGED <<data, handle, live, token, picked>>
    BY DEF LinkTarget, At, Entries, Refuse, Same, fileVars, agentVars, userVars
<1>2. CASE Exists(dir, Target)
    <2>1. dir' = dir /\ Go(p, "drop")
        BY <1>2 DEF LinkTarget, Refuse, Same, fileVars
    <2> QED BY <1>1, <2>1, MoveOn DEF Unclaimed
<1>3. CASE ~Exists(dir, Target)
    <2>1. dir' = [dir EXCEPT ![Target] = dir[Tmp(p)]] /\ Go(p, "same")
        BY <1>3 DEF LinkTarget, Entries, Link
    <2>2. /\ dir \in [Names -> Inodes \cup {NoFile}] /\ Target \in Names /\ Tmp(p) \in Names
          /\ DOMAIN token' = Agents /\ DOMAIN picked' = Agents /\ pc'[p] = "same"
        BY <1>1, <2>1, PlaceNames DEF GlossaryInv, GlossaryOK, Go
    <2>3. /\ dir' \in [Names -> Inodes \cup {NoFile}] /\ dir[Target] = NoFile
          /\ \A n \in Names \ {Target} : dir'[n] = dir[n]
        BY <1>3, <2>1, <2>2 DEF Exists
    <2>4. ASSUME NEW n \in Places, dir[n] # NoFile PROVE dir'[n] = dir[n]
        BY <2>3, <2>4, PlaceNames
    <2>5. Held(dir', data', live')
        BY <1>1, <2>4, HeldStays DEF GlossaryInv
    <2>6. HandleNamed'
        <3>1. SUFFICES ASSUME handle \in Linked(dir', {}) \ {NoFile} PROVE \E n \in Places : dir'[n] = handle
            BY <1>1 DEF HandleNamed
        <3>2. handle \in Linked(dir, {}) \ {NoFile}
            BY <2>1, <2>2, <2>3, <3>1 DEF Linked
        <3> QED BY <2>4, <3>2 DEF GlossaryInv, HandleNamed
    <2>7. AgentInv(p)'
        BY <2>2 DEF AgentInv, Checked, Unclaimed
    <2>8. \A q \in Agents : dir'[Claim(q)] = dir[Claim(q)] /\ dir'[Tmp(q)] = dir[Tmp(q)]
        BY <2>3, PlaceNames
    <2>9. Held(dir, data, live)'
        BY <2>5 DEF Held
    <2> QED BY <1>1, <2>1, <2>2, <2>3, <2>6, <2>7, <2>8, <2>9, AgentStep
<1> QED BY <1>2, <1>3

LEMMA ContentKeeps == ASSUME GlossaryInv, NEW p \in Agents, CheckContent(p) PROVE GlossaryInv'
<1>1. UNCHANGED <<dir, data, handle, token, picked>>
    BY DEF CheckContent, At, Refuse, Preserve, Same, fileVars, agentVars, userVars
<1>2. CASE Reads(Target, 2, candidate[p]) /\ live' = live \cup {candidate[p]}
           /\ (Go(p, "untmp") \/ Go(p, "reclaim"))
    <2>1. PICK s \in {"untmp", "reclaim"} : Go(p, s)
        BY <1>2
    <2>2. /\ dir' \in [Names -> Inodes \cup {NoFile}] /\ pc'[p] = s
          /\ DOMAIN token' = Agents /\ DOMAIN picked' = Agents
        BY <1>1, <2>1 DEF GlossaryInv, GlossaryOK, Go
    <2>3. AgentInv(p)' /\ HandleNamed'
        BY <1>1, <2>2 DEF AgentInv, Checked, Unclaimed, GlossaryInv, HandleNamed
    <2>4. Held(dir, data, live)'
        BY <1>1, <1>2, PlaceNames DEF Held, GlossaryInv, Reads, Exists
    <2> QED BY <1>1, <2>1, <2>2, <2>3, <2>4, AgentStep
<1>3. CASE Refuse(p) \/ Preserve(p)
    <2>1. UNCHANGED live /\ (Go(p, "drop") \/ Go(p, "refused"))
        BY <1>3 DEF Refuse, Preserve, Same
    <2> QED BY <1>1, <2>1, MoveOn DEF Unclaimed
<1> QED BY <1>2, <1>3 DEF CheckContent

LEMMA ClaimKeeps == ASSUME GlossaryInv, NEW p \in Agents, CheckClaim(p) PROVE GlossaryInv'
<1>1. UNCHANGED <<dir, data, handle, live, token, picked>>
    BY DEF CheckClaim, At, Refuse, Preserve, Same, fileVars, agentVars, userVars
<1>2. CASE Reads(Claim(p), 1, token[p]) /\ Go(p, "unclaim")
    <2>1. /\ dir \in [Names -> Inodes \cup {NoFile}] /\ pc'[p] = "unclaim"
          /\ DOMAIN token' = Agents /\ DOMAIN picked' = Agents
        BY <1>1, <1>2 DEF GlossaryInv, GlossaryOK, Go
    <2>2. \A q \in Agents : dir[Tmp(q)] # dir[Claim(p)]
        BY <1>2, <2>1, OneLink, PlaceNames DEF Reads
    <2>3. AgentInv(p)'
        BY <1>1, <1>2, <2>1, <2>2 DEF AgentInv, Checked, Unclaimed, Reads
    <2> QED BY <1>1, <1>2, <2>1, <2>3, SameStep
<1>3. CASE Refuse(p) \/ Preserve(p)
    <2>1. Go(p, "drop") \/ Go(p, "refused")
        BY <1>3 DEF Refuse, Preserve
    <2> QED BY <1>1, <2>1, MoveOn DEF Unclaimed
<1> QED BY <1>2, <1>3 DEF CheckClaim

\* What the claim holds is what was replaced, and what the editor has open has
\* another place if it has another name
LEMMA UnclaimKeeps == ASSUME GlossaryInv, NEW p \in Agents, UnlinkClaim(p) PROVE GlossaryInv'
<1>1. /\ UNCHANGED <<data, handle, token, picked>> /\ pc[p] = "unclaim"
    BY DEF UnlinkClaim, At, Entries, Refuse, Same, fileVars, agentVars, userVars
<1>2. CASE Exists(dir, Claim(p))
    <2>1. /\ dir' = [dir EXCEPT ![Claim(p)] = NoFile] /\ Go(p, "untmp")
          /\ live' = live \ {token[p]}
        BY <1>2 DEF UnlinkClaim, Entries, Unlink
    <2>2. /\ dir \in [Names -> Inodes \cup {NoFile}] /\ Claim(p) \in Names /\ pc'[p] = "untmp"
          /\ DOMAIN token' = Agents /\ DOMAIN picked' = Agents
        BY <1>1, <2>1, PlaceNames DEF GlossaryInv, GlossaryOK, Go
    <2>3. /\ dir' \in [Names -> Inodes \cup {NoFile}] /\ dir'[Claim(p)] = NoFile
          /\ \A n \in Names \ {Claim(p)} : dir'[n] = dir[n]
        BY <2>1, <2>2
    <2>4. /\ data[dir[Claim(p)]] = token[p]
          /\ \A q \in Agents : dir[Tmp(q)] # dir[Claim(p)]
        BY <1>1, <1>2 DEF GlossaryInv, AgentInv, Checked, Exists
    <2>5. Held(dir, data, live)'
        <3>1. ASSUME NEW n \in Places, dir[n] # NoFile, data[dir[n]] \in live'
              PROVE  dir'[n] # NoFile /\ data'[dir'[n]] = data[dir[n]]
            BY <1>1, <2>1, <2>3, <2>4, <3>1, PlaceNames
        <3>2. Held(dir, data, live) /\ live' \subseteq live
            BY <2>1 DEF GlossaryInv
        <3>3. Held(dir', data', live')
            BY <3>1, <3>2 DEF Held
        <3> QED BY <3>3 DEF Held
    <2>6. HandleNamed'
        <3>1. SUFFICES ASSUME handle \in Linked(dir', {}) \ {NoFile} PROVE \E n \in Places : dir'[n] = handle
            BY <1>1 DEF HandleNamed
        <3>2. PICK m \in Names \ {Claim(p)} : dir[m] = handle
            BY <2>2, <2>3, <3>1 DEF Linked
        <3>3. handle \in Linked(dir, {}) \ {NoFile}
            BY <2>2, <3>1, <3>2 DEF Linked
        <3>4. PICK n \in Places : dir[n] = handle
            BY <3>3 DEF GlossaryInv, HandleNamed
        <3>5. CASE n # Claim(p)
            BY <2>3, <3>4, <3>5, PlaceNames
        <3>6. CASE n = Claim(p)
            <4>1. m \in Places
                <5>1. m \in Places \/ \E q \in Agents : m = Tmp(q)
                    BY <3>2 DEF Places, Names
                <5> QED BY <2>4, <3>2, <3>4, <3>6, <5>1
            <4> QED BY <2>3, <3>2, <4>1
        <3> QED BY <3>5, <3>6
    <2>7. AgentInv(p)'
        BY <2>2 DEF AgentInv, Checked, Unclaimed
    <2>8. \A q \in Agents : /\ dir'[Claim(q)] \in {dir[Claim(q)], NoFile}
                            /\ dir'[Tmp(q)] = dir[Tmp(q)]
        BY <2>3, PlaceNames
    <2> QED BY <1>1, <2>1, <2>2, <2>3, <2>5, <2>6, <2>7, <2>8, AgentStep
<1>3. CASE ~Exists(dir, Claim(p))
    <2>1. Go(p, "drop") /\ UNCHANGED <<dir, live>>
        BY <1>3 DEF UnlinkClaim, Refuse, Same, fileVars
    <2> QED BY <1>1, <2>1, MoveOn DEF Unclaimed
<1> QED BY <1>2, <1>3

\* No temporary counts
LEMMA TmpKeeps ==
    ASSUME GlossaryInv, NEW p \in Agents, UnlinkTemporary(p) \/ DropTemporary(p)
    PROVE  GlossaryInv'
<1>1. /\ UNCHANGED <<data, handle, live, token, picked>>
      /\ dir' = [dir EXCEPT ![Tmp(p)] = NoFile]
    BY DEF UnlinkTemporary, DropTemporary, At, Changed, Entries, Unlink, agentVars, userVars
<1>2. PICK s \in {"ok", "refused", "restore"} : Go(p, s)
    BY DEF UnlinkTemporary, DropTemporary
<1>3. /\ dir \in [Names -> Inodes \cup {NoFile}] /\ Tmp(p) \in Names /\ pc'[p] = s
      /\ DOMAIN token' = Agents /\ DOMAIN picked' = Agents
    BY <1>1, <1>2, PlaceNames DEF GlossaryInv, GlossaryOK, Go
<1>4. /\ dir' \in [Names -> Inodes \cup {NoFile}] /\ dir'[Tmp(p)] = NoFile
      /\ \A n \in Names \ {Tmp(p)} : dir'[n] = dir[n]
    BY <1>1, <1>3
<1>5. \A n \in Places : dir'[n] = dir[n]
    BY <1>4, PlaceNames
<1>6. Held(dir, data, live)'
    BY <1>1, <1>5 DEF Held, GlossaryInv
<1>7. HandleNamed'
    <2>1. SUFFICES ASSUME handle \in Linked(dir', {}) \ {NoFile} PROVE \E n \in Places : dir'[n] = handle
        BY <1>1 DEF HandleNamed
    <2>2. handle \in Linked(dir, {}) \ {NoFile}
        BY <1>3, <1>4, <2>1 DEF Linked
    <2> QED BY <1>5, <2>2 DEF GlossaryInv, HandleNamed
<1>8. AgentInv(p)'
    BY <1>2, <1>3 DEF AgentInv, Checked, Unclaimed
<1>9. /\ \A q \in Agents : dir'[Claim(q)] = dir[Claim(q)]
      /\ \A q \in Agents : dir'[Tmp(q)] \in {dir[Tmp(q)], NoFile}
    BY <1>4, <1>5, PlaceNames
<1> QED BY <1>1, <1>2, <1>3, <1>4, <1>6, <1>7, <1>8, <1>9, AgentStep

\* The passing of a minute and the editor's reading
LEMMA QuietKeeps ==
    ASSUME GlossaryInv, UNCHANGED <<dir, data, pc, token, picked, live>>,
           handle' = handle \/ handle' = NoFile \/ (Exists(dir, Target) /\ handle' = dir[Target])
    PROVE  GlossaryInv'
<1>1. GlossaryOK'
    BY DirectoryAssumption, PlaceNames DEF GlossaryInv, GlossaryOK, Exists
<1>2. HandleNamed'
    BY PlaceNames DEF GlossaryInv, HandleNamed
<1>3. Held(dir, data, live)'
    BY DEF GlossaryInv
<1>4. ASSUME NEW p \in Agents PROVE AgentInv(p)'
    BY DEF GlossaryInv, AgentInv, Checked
<1> QED BY <1>1, <1>2, <1>3, <1>4 DEF GlossaryInv

\* A save under the glossary's name: the version it replaces was known
LEMMA RenameSaveKeeps == ASSUME GlossaryInv, SaveByRename PROVE GlossaryInv'
<1> DEFINE W == live \ TargetContent
<1>1. /\ NewFile(Target, last + 1) /\ live' = W \cup {last + 1}
      /\ handle = NoFile /\ UNCHANGED <<pc, token, picked, handle>>
    BY DEF SaveByRename, Editor, agentVars
<1>2. W \subseteq live /\ (dir[Target] # NoFile => data[dir[Target]] \notin W)
    BY DEF TargetContent, Exists
<1> HIDE DEF W
<1>3. /\ New \in Inodes /\ New # NoFile
      /\ dir' = [dir EXCEPT ![Target] = New] /\ dir' \in [Names -> Inodes \cup {NoFile}]
      /\ data'[New] = last + 1 /\ data' = [i \in Inodes |-> data'[i]]
      /\ \A m \in Names \ {Target} : dir'[m] = dir[m]
      /\ \A m \in Names : dir[m] # NoFile => dir[m] # New /\ data'[dir[m]] = data[dir[m]]
      /\ Held(dir', data', W)
    BY <1>1, <1>2, WrittenKeeps, PlaceNames
<1>4. dir \in [Names -> Inodes \cup {NoFile}] /\ dir'[Target] = New
    BY <1>3, PlaceNames DEF GlossaryInv, GlossaryOK
<1>5. GlossaryOK' /\ HandleNamed'
    BY <1>1, <1>3 DEF GlossaryInv, GlossaryOK, HandleNamed
<1>6. Held(dir, data, live)'
    <2>1. Held(dir', data', live')
        BY <1>1, <1>3, <1>4, PlaceNames DEF Held
    <2> QED BY <2>1 DEF Held
<1>7. ASSUME NEW p \in Agents PROVE AgentInv(p)'
    <2>1. /\ AgentInv(p) /\ dir'[Claim(p)] = dir[Claim(p)] /\ Claim(p) \in Names
          /\ \A q \in Agents : dir'[Tmp(q)] = dir[Tmp(q)]
        BY <1>3, PlaceNames DEF GlossaryInv
    <2>2. Checked(p)'
        BY <1>1, <1>3, <2>1 DEF AgentInv, Checked
    <2> QED BY <1>1, <2>1, <2>2 DEF AgentInv
<1> QED BY <1>5, <1>6, <1>7 DEF GlossaryInv

\* A save into an open file: no claim about to be removed is that file, and if
\* the file has a name, it has one that counts
LEMMA OverwriteKeeps ==
    ASSUME GlossaryInv, ~Late, NEW i \in Inodes, Overwrite(i), UNCHANGED <<pc, token, picked>>,
           handle' = handle \/ handle' = NoFile,
           i \in Linked(dir, {}) => \E n \in Places : dir[n] = i
    PROVE  GlossaryInv'
<1>1. /\ UNCHANGED dir /\ data' = [data EXCEPT ![i] = last + 1]
      /\ live' = (live \ {data[i]}) \cup (IF i \in Linked(dir, {}) THEN {last + 1} ELSE {})
      /\ \A p \in Agents : ~(pc[p] = "unclaim" /\ dir[Claim(p)] = i)
    BY DEF Overwrite, Unchecked
<1>2. /\ data'[i] = last + 1 /\ \A j \in Inodes \ {i} : data'[j] = data[j]
      /\ dir \in [Names -> Inodes \cup {NoFile}]
    BY <1>1 DEF GlossaryInv, GlossaryOK
<1>3. GlossaryOK' /\ HandleNamed'
    BY <1>1, DirectoryAssumption DEF GlossaryInv, GlossaryOK, HandleNamed
<1>4. Held(dir, data, live)'
    <2>1. Held(dir, data', live \ {data[i]})
        <3>1. ASSUME NEW n \in Places, dir[n] # NoFile, data[dir[n]] \in live \ {data[i]}
              PROVE  data'[dir[n]] = data[dir[n]]
            BY <1>2, <3>1, PlaceNames
        <3> QED BY <3>1, HeldStays DEF GlossaryInv
    <2>2. i \in Linked(dir, {}) => \E n \in Places : dir[n] # NoFile /\ data'[dir[n]] = last + 1
        BY <1>2, DirectoryAssumption
    <2>3. Held(dir, data', live')
        BY <1>1, <2>1, <2>2 DEF Held
    <2> QED BY <1>1, <2>3 DEF Held
<1>5. ASSUME NEW p \in Agents PROVE AgentInv(p)'
    <2>1. AgentInv(p) /\ Claim(p) \in Names
        BY PlaceNames DEF GlossaryInv
    <2>2. Checked(p)'
        BY <1>1, <1>2, <2>1 DEF AgentInv, Checked
    <2> QED BY <1>1, <2>1, <2>2 DEF AgentInv
<1> QED BY <1>3, <1>4, <1>5 DEF GlossaryInv

LEMMA DeleteKeeps == ASSUME GlossaryInv, Delete PROVE GlossaryInv'
<1>1. /\ dir' = [dir EXCEPT ![Target] = NoFile] /\ live' = live \ TargetContent
      /\ handle = NoFile /\ UNCHANGED <<data, handle, pc, token, picked>> /\ Exists(dir, Target)
    BY DEF Delete, Editor, Unlink, agentVars
<1>2. dir \in [Names -> Inodes \cup {NoFile}] /\ Target \in Names
    BY PlaceNames DEF GlossaryInv, GlossaryOK
<1>3. /\ dir' \in [Names -> Inodes \cup {NoFile}]
      /\ \A n \in Names \ {Target} : dir'[n] = dir[n]
    BY <1>1, <1>2
<1>4. GlossaryOK' /\ HandleNamed'
    BY <1>1, <1>3 DEF GlossaryInv, GlossaryOK, HandleNamed
<1>5. Held(dir, data, live)'
    <2>1. ASSUME NEW n \in Places, dir[n] # NoFile, data[dir[n]] \in live'
          PROVE  dir'[n] = dir[n]
        BY <1>1, <1>3, <2>1, PlaceNames DEF TargetContent
    <2>2. Held(dir, data, live) /\ live' \subseteq live
        BY <1>1 DEF GlossaryInv
    <2>3. Held(dir', data', live')
        BY <1>1, <2>1, <2>2 DEF Held
    <2> QED BY <2>3 DEF Held
<1>6. ASSUME NEW p \in Agents PROVE AgentInv(p)'
    <2>1. /\ AgentInv(p) /\ dir'[Claim(p)] = dir[Claim(p)]
          /\ \A q \in Agents : dir'[Tmp(q)] = dir[Tmp(q)]
        BY <1>3, PlaceNames DEF GlossaryInv
    <2> QED BY <1>1, <2>1 DEF AgentInv, Checked
<1> QED BY <1>4, <1>5, <1>6 DEF GlossaryInv

LEMMA UserKeeps == ASSUME GlossaryInv, ~Late, UserStep PROVE GlossaryInv'
<1>1. CASE CloseEditor \/ OpenHandle
    BY <1>1, QuietKeeps DEF CloseEditor, OpenHandle, fileVars, agentVars
<1>2. CASE SaveInPlace
    <2>1. /\ Overwrite(dir[Target]) /\ UNCHANGED <<pc, token, picked, handle>>
          /\ dir[Target] \in Inodes
        BY <1>2, PlaceNames DEF SaveInPlace, Editor, Exists, agentVars, GlossaryInv, GlossaryOK
    <2> QED BY <2>1, OverwriteKeeps, PlaceNames
<1>3. CASE WriteHandle
    <2>1. /\ Overwrite(handle) /\ UNCHANGED <<pc, token, picked>> /\ handle' = NoFile
          /\ handle \in Inodes
          /\ handle \in Linked(dir, {}) => \E n \in Places : dir[n] = handle
        BY <1>3 DEF WriteHandle, Editor, agentVars, GlossaryInv, GlossaryOK, HandleNamed
    <2> QED BY <2>1, OverwriteKeeps
<1> QED BY <1>1, <1>2, <1>3, RenameSaveKeeps, DeleteKeeps DEF UserStep

LEMMA GlossaryStep == ASSUME GlossaryInv, ~Late, [Next]_vars PROVE GlossaryInv'
<1>1. ASSUME NEW p \in Agents, Apply(p) PROVE GlossaryInv'
    BY <1>1, ProposeKeeps, RenamesKeep, LooksKeep, CreateKeeps, LinkKeeps, ContentKeeps,
       ClaimKeeps, UnclaimKeeps, TmpKeeps DEF Apply
<1>2. CASE Minute
    BY <1>2, QuietKeeps DEF Minute, agentVars, userVars
<1>3. CASE UNCHANGED vars
    BY <1>3, QuietKeeps DEF vars, fileVars, agentVars, userVars
<1> QED BY <1>1, <1>2, <1>3, LooksKeep, UserKeeps DEF Next, Rest

\* Whatever the agents, the editor, errors and crashes do, and in whatever order,
\* a version that was in place or saved and not knowingly replaced is readable
\* as CONCEPTS.md or as a claim: apply (glossary_file.py) removes only a claim it
\* has read again and found to be what its user approved to replace.  The premise:
\* nothing is written to the claim between that reading and its unlink, for such a
\* write is lost.
THEOREM GlossaryNotLost == ~Late => (Spec => []NothingLost)
<1> SUFFICES ASSUME ~Late PROVE Spec => []NothingLost
    OBVIOUS
<1>1. Init => GlossaryInv
    BY InitGlossary
<1>2. GlossaryInv /\ [Next]_vars => GlossaryInv'
    BY GlossaryStep
<1>3. GlossaryInv => NothingLost
    BY PlaceNames DEF GlossaryInv, Held, NothingLost, Exists
<1> QED BY <1>1, <1>2, <1>3, PTL DEF Spec

-----------------------------------------------------------------------------
(* A glossary is left *)

\* The last apply: the others have ended, and the editor is done
Alone(p) == /\ pc[p] = "recover" /\ \A q \in Agents \ {p} : pc[q] \in Ended
            /\ aged = Inodes /\ live # {} /\ edits = 0
            /\ \A q \in Agents : Exists(dir, Claim(q)) => Links(Claim(q)) = 1

Leaves(p) == pc[p] \in {"ok", "refused"} /\ errors = MaxErrors => Exists(dir, Target)

\* While it is under way, the glossary is in place, or where the apply puts it back
\* from
InReach(p) ==
    /\ pc[p] = "recover" => Exists(dir, Target) \/ Stale # {}
    /\ pc[p] = "revive" => Exists(dir, Target) \/ Exists(dir, Claim(picked[p]))
    /\ pc[p] \in {"claim", "verify", "link", "return"} => Exists(dir, Tmp(p))
    /\ pc[p] \in {"verify", "return"} => Exists(dir, Claim(p))
    /\ pc[p] \notin {"propose", "recover", "revive", "verify", "return", "link", "dead"} =>
           Exists(dir, Target)

LastApply(p) ==
    /\ pc[p] # "propose" /\ \A q \in Agents \ {p} : pc[q] \in Ended
    /\ edits = 0 /\ errors \in Nat /\ errors <= MaxErrors
    /\ errors = MaxErrors => InReach(p)

Spent == errors \in Nat /\ errors <= MaxErrors /\ edits \in Nat
LEMMA SpentStep == Spent /\ [Next]_vars => Spent'
<1> SUFFICES ASSUME Spent, [Next]_vars PROVE Spent'
    OBVIOUS
<1>1. ASSUME NEW p \in Agents, Apply(p) PROVE UNCHANGED <<errors, edits>>
    BY <1>1 DEF Apply, Propose, RecoverLook, Revive, ReadCurrent, CreateTemporary, ClaimTarget,
       VerifyClaim, ReturnClaim, LinkTarget, CheckSame, CheckContent, CheckClaim, UnlinkClaim,
       UnlinkTemporary, DropTemporary, RestoreClaim, At, boundVars, userVars
<1>2. ASSUME NEW p \in Agents, Fail(p) \/ Crash(p)
      PROVE  UNCHANGED edits /\ (UNCHANGED errors \/ (errors > 0 /\ errors' = errors - 1))
    BY <1>2 DEF Fail, Crash, userVars
<1>3. CASE UserStep
    BY <1>3 DEF Spent, UserStep, CloseEditor, SaveByRename, SaveInPlace, OpenHandle, WriteHandle, Delete,
       Editor, boundVars
<1>4. CASE Minute \/ UNCHANGED vars
    BY <1>4 DEF Spent, Minute, vars, boundVars, userVars
<1>5. MaxErrors \in Nat
    BY VocabularyAssumption
<1> QED BY <1>1, <1>2, <1>3, <1>4, <1>5 DEF Next, Rest, Spent

\* What was kept is in place, or in a claim that the recovery finds
LEMMA AloneFinds ==
    ASSUME GlossaryInv, Spent, NEW p \in Agents, Alone(p)
    PROVE  LastApply(p)
<1>1. Exists(dir, Target) \/ Stale # {}
    <2>1. PICK v \in live : TRUE
        BY DEF Alone
    <2>2. PICK n \in Places : dir[n] # NoFile
        BY <2>1 DEF GlossaryInv, Held
    <2>3. CASE n = Target
        BY <2>2, <2>3 DEF Exists
    <2>4. ASSUME NEW q \in Agents, n = Claim(q) PROVE q \in Stale
        <3>1. Exists(dir, Claim(q)) /\ Links(Claim(q)) = 1
            BY <2>2, <2>4 DEF Alone, Exists
        <3>2. dir[Claim(q)] \in aged
            BY <2>2, <2>4, PlaceNames DEF Alone, GlossaryInv, GlossaryOK
        <3> QED BY <3>1, <3>2 DEF Stale
    <2> QED BY <2>2, <2>3, <2>4 DEF Places
<1> QED BY <1>1 DEF Alone, LastApply, InReach, Spent

\* A step of the last apply after which the glossary is in place
LEMMA InPlace ==
    ASSUME GlossaryInv, NEW p \in Agents, NEW s, Go(p, s), Exists(dir', Target),
           s \notin {"claim", "verify", "link", "return"}
    PROVE  InReach(p)'
<1>1. pc'[p] = s
    BY DEF Go, GlossaryInv, GlossaryOK
<1> QED BY <1>1 DEF InReach

LEMMA LastApplyGoes ==
    ASSUME GlossaryInv, NEW p \in Agents, pc[p] # "propose", InReach(p), Apply(p)
    PROVE  InReach(p)'
<1>0. /\ dir \in [Names -> Inodes \cup {NoFile}] /\ pc = [q \in Agents |-> pc[q]]
      /\ Target \in Names /\ Tmp(p) \in Names /\ Claim(p) \in Names
      /\ Target # Tmp(p) /\ Target # Claim(p) /\ Tmp(p) # Claim(p)
    BY PlaceNames DEF GlossaryInv, GlossaryOK
<1>1. ASSUME NEW s, Go(p, s) PROVE pc'[p] = s
    BY <1>0, <1>1 DEF Go
<1>2. CASE RecoverLook(p)
    <2>1. pc[p] = "recover" /\ UNCHANGED dir
        BY <1>2 DEF RecoverLook, At, Same, fileVars
    <2>2. CASE Exists(dir, Target) \/ Stale = {}
        <3>1. Exists(dir, Target) /\ (Go(p, "read") \/ Go(p, "revive"))
            BY <1>2, <2>1, <2>2 DEF RecoverLook, InReach
        <3> QED BY <2>1, <3>1, InPlace
    <2>3. CASE ~Exists(dir, Target) /\ Stale # {}
        <3>1. PICK q \in Stale : picked' = [picked EXCEPT ![p] = q] /\ Go(p, "revive")
            BY <1>2, <2>3 DEF RecoverLook
        <3>2. picked'[p] = q /\ Exists(dir', Claim(q))
            BY <2>1, <3>1 DEF GlossaryInv, GlossaryOK, Stale
        <3>3. pc'[p] = "revive"
            BY <1>1, <3>1
        <3> QED BY <3>2, <3>3 DEF InReach
    <2> QED BY <2>2, <2>3
<1>3. CASE Revive(p)
    <2>1. /\ pc[p] = "revive" /\ Go(p, "read") /\ dir' = RenameNoReplace(Claim(picked[p]), Target)
          /\ picked[p] \in Agents
        BY <1>3 DEF Revive, At, Changed, Entries, GlossaryInv, AgentInv
    <2>2. Claim(picked[p]) \in Names /\ Claim(picked[p]) # Target
        BY <2>1, PlaceNames
    <2>3. Exists(dir', Target)
        BY <1>0, <2>1, <2>2 DEF InReach, RenameNoReplace, Rename, Exists
    <2> QED BY <2>1, <2>3, InPlace
<1>4. CASE ReadCurrent(p)
    <2>1. pc[p] = "read" /\ UNCHANGED dir
        BY <1>4 DEF ReadCurrent, At, Same, fileVars
    <2>2. PICK s \in {"refused", "ok", "create"} : Go(p, s)
        BY <1>4 DEF ReadCurrent
    <2>3. Exists(dir', Target)
        BY <2>1 DEF InReach
    <2> QED BY <2>2, <2>3, InPlace
<1>5. CASE CreateTemporary(p)
    <2>1. /\ pc[p] = "create" /\ NewFile(Tmp(p), candidate[p])
          /\ Go(p, IF token[p] = Missing THEN "link" ELSE "claim")
        BY <1>5 DEF CreateTemporary, At
    <2>2. /\ New # NoFile /\ dir' = [dir EXCEPT ![Tmp(p)] = New]
          /\ \A m \in Names \ {Tmp(p)} : dir'[m] = dir[m]
        BY <1>0, <2>1, WrittenKeeps, PlaceNames
    <2>3. Exists(dir, Target)
        BY <2>1 DEF InReach
    <2>4. Exists(dir', Tmp(p)) /\ Exists(dir', Target)
        BY <1>0, <2>2, <2>3 DEF Exists
    <2>5. pc'[p] \in {"link", "claim"}
        BY <1>1, <2>1
    <2> QED BY <2>4, <2>5 DEF InReach
<1>6. CASE ClaimTarget(p)
    <2>1. /\ pc[p] = "claim" /\ Exists(dir, Target) /\ Exists(dir, Tmp(p))
        BY <1>6 DEF ClaimTarget, At, InReach
    <2>2. dir' = Rename(dir, Target, Claim(p)) /\ Go(p, "verify")
        BY <1>6, <2>1 DEF ClaimTarget, Changed, Entries
    <2>3. Exists(dir', Claim(p)) /\ Exists(dir', Tmp(p))
        BY <1>0, <2>1, <2>2 DEF Rename, Exists
    <2>4. pc'[p] = "verify"
        BY <1>1, <2>2
    <2> QED BY <2>3, <2>4 DEF InReach
<1>7. CASE VerifyClaim(p)
    <2>1. pc[p] = "verify" /\ UNCHANGED dir /\ Exists(dir, Claim(p)) /\ Exists(dir, Tmp(p))
        BY <1>7 DEF VerifyClaim, At, Same, fileVars, InReach
    <2>2. PICK s \in {"link", "return"} : Go(p, s)
        BY <1>7, <2>1 DEF VerifyClaim
    <2>3. pc'[p] = s
        BY <1>1, <2>2
    <2> QED BY <2>1, <2>3 DEF InReach
<1>8. CASE ReturnClaim(p)
    <2>1. /\ pc[p] = "return" /\ Go(p, "drop") /\ dir' = RenameNoReplace(Claim(p), Target)
        BY <1>8 DEF ReturnClaim, At, Changed, Entries
    <2>2. Exists(dir', Target)
        BY <1>0, <2>1 DEF InReach, RenameNoReplace, Rename, Exists
    <2> QED BY <2>1, <2>2, InPlace
<1>9. CASE LinkTarget(p)
    <2>1. CASE Exists(dir, Target)
        <3>1. Go(p, "drop") /\ UNCHANGED dir
            BY <1>9, <2>1 DEF LinkTarget, Refuse, Same, fileVars
        <3> QED BY <2>1, <3>1, InPlace
    <2>2. CASE ~Exists(dir, Target)
        <3>1. /\ pc[p] = "link" /\ dir' = Link(dir, Tmp(p), Target) /\ Go(p, "same")
            BY <1>9, <2>2 DEF LinkTarget, At, Entries
        <3>2. Exists(dir', Target)
            BY <1>0, <3>1 DEF InReach, Link, Exists
        <3> QED BY <3>1, <3>2, InPlace
    <2> QED BY <2>1, <2>2
<1>10. CASE CheckSame(p) \/ CheckContent(p) \/ CheckClaim(p)
    <2>1. pc[p] \in {"same", "content", "reclaim"} /\ UNCHANGED dir
        BY <1>10 DEF CheckSame, CheckContent, CheckClaim, At, Refuse, Preserve, Same, fileVars
    <2>2. PICK s \in {"content", "reclaim", "unclaim", "untmp", "drop", "refused"} : Go(p, s)
        BY <1>10 DEF CheckSame, CheckContent, CheckClaim, Refuse, Preserve
    <2>3. Exists(dir', Target)
        BY <2>1 DEF InReach
    <2> QED BY <2>2, <2>3, InPlace
<1>11. CASE UnlinkClaim(p) \/ UnlinkTemporary(p) \/ DropTemporary(p) \/ RestoreClaim(p)
    <2>1. pc[p] \in {"unclaim", "untmp", "drop", "restore"}
        BY <1>11 DEF UnlinkClaim, UnlinkTemporary, DropTemporary, RestoreClaim, At
    <2>2. PICK s \in {"drop", "untmp", "ok", "refused", "restore"} : Go(p, s)
        BY <1>11 DEF UnlinkClaim, UnlinkTemporary, DropTemporary, RestoreClaim, Refuse
    <2>3. \/ UNCHANGED dir \/ dir' = Unlink(dir, Claim(p)) \/ dir' = Unlink(dir, Tmp(p))
          \/ dir' = RenameNoReplace(Claim(p), Target)
        BY <1>11 DEF UnlinkClaim, UnlinkTemporary, DropTemporary, RestoreClaim, Refuse, Same,
           Changed, Entries, fileVars
    <2>4. Exists(dir, Target)
        BY <2>1 DEF InReach
    <2>5. Exists(dir', Target)
        BY <1>0, <2>3, <2>4 DEF Exists, Unlink, RenameNoReplace
    <2> QED BY <2>2, <2>5, InPlace
<1> QED BY <1>2, <1>3, <1>4, <1>5, <1>6, <1>7, <1>8, <1>9, <1>10, <1>11 DEF Apply, Propose, At

LEMMA LastApplyStep ==
    ASSUME GlossaryInv, Spent, NEW p \in Agents, LastApply(p), [Next]_vars
    PROVE  LastApply(p)'
<1>0. pc = [q \in Agents |-> pc[q]] /\ Spent'
    BY SpentStep DEF GlossaryInv, GlossaryOK
<1>1. ASSUME NEW q \in Agents \ {p} PROVE ~Apply(q) /\ ~Fail(q) /\ ~Crash(q)
    BY DEF LastApply, Ended, Apply, Propose, RecoverLook, Revive, ReadCurrent, CreateTemporary,
       ClaimTarget, VerifyClaim, ReturnClaim, LinkTarget, CheckSame, CheckContent, CheckClaim,
       UnlinkClaim, UnlinkTemporary, DropTemporary, RestoreClaim, At, Fail, Crash
<1>2. CASE Apply(p)
    <2>1. UNCHANGED <<errors, edits>>
        BY <1>2 DEF Apply, Propose, RecoverLook, Revive, ReadCurrent, CreateTemporary, ClaimTarget,
           VerifyClaim, ReturnClaim, LinkTarget, CheckSame, CheckContent, CheckClaim, UnlinkClaim,
           UnlinkTemporary, DropTemporary, RestoreClaim, At, boundVars, userVars
    <2>2. PICK s \in (Steps \cup Ended) \ {"propose"} : Go(p, s)
        BY <1>2 DEF Apply, Propose, RecoverLook, Revive, ReadCurrent, CreateTemporary, ClaimTarget,
           VerifyClaim, ReturnClaim, LinkTarget, CheckSame, CheckContent, CheckClaim, UnlinkClaim,
           UnlinkTemporary, DropTemporary, RestoreClaim, Refuse, Preserve, Steps, Ended
    <2>3. pc'[p] = s /\ \A q \in Agents \ {p} : pc'[q] = pc[q]
        BY <1>0, <2>2 DEF Go
    <2>4. errors' = MaxErrors => InReach(p)'
        BY <1>2, <2>1, LastApplyGoes DEF LastApply
    <2> QED BY <2>1, <2>2, <2>3, <2>4 DEF LastApply
<1>3. CASE Fail(p) \/ Crash(p)
    <2>1. PICK s \in {"read", "refused", "drop", "restore", "dead"} : Go(p, s)
        BY <1>3 DEF Fail, Crash
    <2>2. pc'[p] = s /\ \A q \in Agents \ {p} : pc'[q] = pc[q]
        BY <1>0, <2>1 DEF Go
    <2>3. errors' = MaxErrors => InReach(p)'
        <3>1. CASE Fail(p)
            BY <3>1, VocabularyAssumption DEF Fail, Spent
        <3>2. CASE Crash(p)
            <4>1. pc'[p] = "dead"
                BY <1>0, <3>2 DEF Crash, Go
            <4> QED BY <4>1 DEF InReach
        <3> QED BY <1>3, <3>1, <3>2
    <2>4. UNCHANGED edits
        BY <1>3 DEF Fail, Crash, userVars
    <2> QED BY <1>0, <2>2, <2>3, <2>4 DEF LastApply, Spent
<1>4. CASE Minute
    <2>1. UNCHANGED <<dir, data, pc, picked, errors, edits>> /\ aged' = Inodes
        BY <1>4 DEF Minute, agentVars, boundVars, userVars
    <2>2. Stale # {} => Stale' # {}
        <3>1. SUFFICES ASSUME NEW q \in Stale PROVE q \in Stale'
            OBVIOUS
        <3>2. dir[Claim(q)] \in Inodes
            BY <3>1, PlaceNames DEF Stale, Exists, GlossaryInv, GlossaryOK
        <3> QED BY <2>1, <3>1, <3>2 DEF Stale, Links
    <2> QED BY <2>1, <2>2 DEF LastApply, InReach
<1>5. CASE UserStep
    BY <1>5 DEF LastApply, Spent, UserStep, CloseEditor, SaveByRename, SaveInPlace, OpenHandle, WriteHandle,
       Delete, Editor
<1>6. CASE UNCHANGED vars
    <2>1. UNCHANGED <<dir, data, pc, picked, errors, edits, aged>>
        BY <1>6 DEF vars, fileVars, agentVars, boundVars, userVars
    <2> QED BY <2>1 DEF LastApply, InReach, Stale, Links
<1> QED BY <1>1, <1>2, <1>3, <1>4, <1>5, <1>6 DEF Next, Rest

\* The next apply brings a glossary back that a killed one has left at a claim
\* (_recover_stale_claims, glossary_file.py), and no later step of it loses the
\* glossary again, however many agents have died before it: unless a call fails,
\* or the claim has a second name, or a late write was lost with its claim.
THEOREM GlossaryIsLeft == ~Late => (Spec => LeavesGlossary)
<1> SUFFICES ASSUME ~Late, NEW p \in Agents PROVE Spec => [](Alone(p) => []Leaves(p))
    BY DEF LeavesGlossary, Alone, Leaves
<1>1. Init => GlossaryInv /\ Spent
    <2>1. Init => errors = MaxErrors /\ edits = MaxEdits
        BY DEF Init
    <2> QED BY <2>1, InitGlossary, VocabularyAssumption DEF Spent
<1>2. GlossaryInv /\ Spent /\ [Next]_vars => GlossaryInv' /\ Spent'
    BY GlossaryStep, SpentStep
<1>3. GlossaryInv /\ Spent /\ Alone(p) => LastApply(p)
    BY AloneFinds
<1>4. GlossaryInv /\ Spent /\ LastApply(p) /\ [Next]_vars => LastApply(p)'
    BY LastApplyStep
<1>5. LastApply(p) => Leaves(p)
    BY DEF LastApply, InReach, Leaves
<1> QED BY <1>1, <1>2, <1>3, <1>4, <1>5, PTL DEF Spec
=============================================================================
