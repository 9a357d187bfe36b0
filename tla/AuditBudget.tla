---------------------------- MODULE AuditBudget ----------------------------
(***************************************************************************)
(* The rolling audit of the metadata_audit basis (reconcile.rs,           *)
(* AuditBudget, and its use by observe_vault and reconcile in runtime.rs).*)
(*                                                                         *)
(* A full pass visits the configured vaults in order and offers each       *)
(* vault's metadata-equal sources, in discovery order, to ONE budget of    *)
(* sourceLimit sources and ByteLimit bytes.  The cursor where the next      *)
(* examination starts is one number shared by all the vaults; the manager  *)
(* keeps it between passes.  A targeted pass (ReconcileScope::Paths) runs  *)
(* with a budget of zero and does not store its cursor.                    *)
(*                                                                         *)
(* Here the candidates of every pass are the same (nothing is edited), so  *)
(* that only the selection decides which source is read again.             *)
(***************************************************************************)
EXTENDS Integers, Sequences, FiniteSets, FiniteSetsExt

CONSTANTS
    Shapes,        \* the vault lists considered: sequences (one per vault) of
                   \* sequences of byte lengths (one per candidate source)
    SourceLimits,  \* the values of audit_sources_per_pass considered
    ByteLimit,     \* audit_bytes_per_pass
    Cursors,       \* where the first pass may start
    MaxAge         \* bound: ages are counted up to this number of passes

\* config.rs accepts 1..=256 sources, and a byte budget of at least the size
\* of the largest source the daemon indexes.
ASSUME BudgetAssumption ==
    /\ SourceLimits \subseteq Nat \ {0}
    /\ ByteLimit \in Nat
    /\ Cursors \subseteq Nat
    /\ MaxAge \in Nat
    /\ \A shape \in Shapes : shape \in Seq(Seq(0 .. ByteLimit))

VARIABLES
    vaults,        \* the candidates of each vault: vaults[v][i] is a length
    sourceLimit,   \* config.indexing.audit_sources_per_pass
    cursor,        \* the manager's audit_cursor
    age            \* age[s]: full passes finished since source s was last read

auditVars == <<vaults, sourceLimit, cursor, age>>

Candidates == UNION {{<<v, i>> : i \in DOMAIN vaults[v]} : v \in DOMAIN vaults}

-----------------------------------------------------------------------------
(* AuditBudget::select.                                                    *)

Budget(at, sources, bytes) == [cursor |-> at, sources |-> sources, bytes |-> bytes]

Index(start, examined, n) == ((start + examined) % n) + 1

\* One turn of the loop: the candidate is skipped when it does not fit the
\* bytes that remain, and counts as examined either way.
Examine(w, n, lengths) ==
    LET i == Index(w.start, w.examined, n)
    IN  IF lengths[i] > w.bytes
          THEN [w EXCEPT !.examined = @ + 1]
          ELSE [w EXCEPT !.examined = @ + 1, !.selected = @ \cup {i},
                         !.sources = @ - 1, !.bytes = @ - lengths[i]]

\* The loop stops after every candidate was examined once, or with no source
\* left in the budget.  Walk[k] is its state after at most k turns.
Loop(b, lengths) ==
    LET n == Len(lengths)
        Walk[k \in 0 .. n] ==
            IF k = 0
              THEN [start |-> b.cursor % n, examined |-> 0, selected |-> {},
                    sources |-> b.sources, bytes |-> b.bytes]
              ELSE IF Walk[k - 1].sources = 0
                     THEN Walk[k - 1]
                     ELSE Examine(Walk[k - 1], n, lengths)
    IN  Walk[n]

\* A plausible bug: the cursor is set one past the candidate to examine next.
SelectOneStep(b, lengths) ==
    IF lengths = <<>> \/ b.sources = 0
      THEN [selected |-> {}, budget |-> b]
      ELSE LET w == Loop(b, lengths)
           IN  [selected |-> w.selected,
                budget |-> Budget((w.start + w.examined + 1) % Len(lengths),
                                  w.sources, w.bytes)]

\* The selected positions and the budget left for the vaults that follow.
Select(b, lengths) ==
    IF lengths = <<>> \/ b.sources = 0
      THEN [selected |-> {}, budget |-> b]
      ELSE LET w == Loop(b, lengths)
           IN  [selected |-> w.selected,
                budget |-> Budget((w.start + w.examined) % Len(lengths),
                                  w.sources, w.bytes)]

\* observe_vault for each vault of the configuration in turn, one budget
\* passed along: the sources selected, and the final cursor.
Visit(b) ==
    LET After[v \in 0 .. Len(vaults)] ==
            IF v = 0
              THEN [audited |-> {}, budget |-> b]
              ELSE LET s == Select(After[v - 1].budget, vaults[v])
                   IN  [audited |-> After[v - 1].audited
                                      \cup {<<v, i>> : i \in s.selected},
                        budget |-> s.budget]
    IN  After[Len(vaults)]

-----------------------------------------------------------------------------
\* The manager starts at the state revision of the manifest it opened, which
\* can be any number.
AuditInit ==
    /\ vaults \in Shapes
    /\ sourceLimit \in SourceLimits
    /\ cursor \in Cursors
    /\ age = [s \in Candidates |-> 0]

\* A pass that succeeds.  Only a full pass has a budget, and only a full pass
\* stores its cursor.  An age stays at MaxAge once it got there.
Pass(scope) ==
    LET budget == IF scope = "full" THEN Budget(cursor, sourceLimit, ByteLimit)
                                    ELSE Budget(cursor, 0, 0)
        visit == Visit(budget)
    IN  /\ cursor' = IF scope = "full" THEN visit.budget.cursor ELSE cursor
        /\ age' = [s \in Candidates |->
                     IF s \in visit.audited
                       THEN 0
                       ELSE IF scope = "full" /\ age[s] < MaxAge
                              THEN age[s] + 1 ELSE age[s]]
        /\ UNCHANGED <<vaults, sourceLimit>>

AuditNext == Pass("full") \/ Pass("paths")

\* The watcher runs a full pass at every safety interval, whatever else
\* happens (watcher.rs, run_watcher).
AuditSpec == AuditInit /\ [][AuditNext]_auditVars /\ WF_auditVars(Pass("full"))

-----------------------------------------------------------------------------
(* Properties.                                                             *)

\* The state stays in these sets.
AuditTypeOK ==
    /\ vaults \in Shapes
    /\ sourceLimit \in SourceLimits
    /\ cursor \in Nat
    /\ age \in [Candidates -> 0 .. MaxAge]

\* The byte budget can never stop a source: sourceLimit of the largest fit.
BytesNeverBind ==
    \A s \in Candidates : vaults[s[1]][s[2]] * sourceLimit <= ByteLimit

\* With one vault and a byte budget that never binds, the rotation misses
\* nothing: a source is read again after at most ceil(n / limit) full passes,
\* wherever the cursor stands and whatever targeted passes run in between.
AuditBound ==
    Len(vaults) = 1 /\ BytesNeverBind =>
        \A s \in Candidates : age[s] * sourceLimit < Len(vaults[1])

AllCandidates ==
    UNION {UNION {{<<v, i>> : i \in DOMAIN shape[v]} : v \in DOMAIN shape} :
             shape \in Shapes}

\* What docs/vertical-2.md concludes from the rotating cursor: every source
\* that is metadata-equal for good is read again and again, so a content
\* change that keeps size and mtime is caught by some later pass.
AuditedAgain ==
    \A s \in AllCandidates : s \in Candidates ~> (s \in Candidates /\ age[s] = 0)
=============================================================================
