------------------------- MODULE SessionReopenProofs -------------------------
(***************************************************************************)
(* What SessionReopen promises for any number of prompts, resumes, crashes,  *)
(* openings and pauses: that no accepted prompt is forgotten, that each is at *)
(* one place, and that what was sent does not wait again.  IInv is the       *)
(* inductive invariant; every kind of step has its lemma.                    *)
(***************************************************************************)
EXTENDS SessionReopen, QueueLemmas

RunPcs ==
    {"ready", "slice", "install", "purge", "rebuild", "route", "insertRow", "insertIndex", "append",
     "persist", "queue", "place", "claim", "takeIndex", "merge", "push", "emit", "answer", "storeTools",
     "busy", "tools", "final", "idle", "fail", "end"}

\* Where a future is that has not loaded the cache yet, where a prompt has no
\* row, where a loop holds prompts, and where it holds none.
Unloaded == {"ready", "slice", "install", "purge", "rebuild", "end"}
Unstored == {"ready", "slice", "install", "purge", "rebuild", "route", "insertRow", "append", "persist"}
Holding  == {"takeIndex", "merge", "push"}
Looping  == {"queue", "place", "claim", "emit", "answer", "storeTools", "busy", "tools", "final", "idle", "fail"}

\* Tables and memory as sets.
Rows     == ToSet(log)
Indexed  == ToSet(index)
Cached   == ToSet(stack)
Waits    == ToSet(waiting)
Hand(f)  == ToSet(hand[f])
Found(f) == ToSet(found[f].waiters)

\* A prompt that waits or was claimed, and one that has a row of its own.
Taken(p)  == p \in Waits \/ \E f \in Futures : p \in Hand(f)
Stored(p) == \E m \in Rows : m.id = p

\* A prompt's message holds its text, and no two messages repeat each other.
Says(m) == IF m.id \in Prompts THEN m.id \in m.text ELSE m.text = {}
Unlike(m, n) == (m.id = n.id => m.id \notin Prompts) /\ m.text \cap n.text = {}
Distinct == {mn \in Messages \X Messages : Unlike(mn[1], mn[2])}
-----------------------------------------------------------------------------
(* The inductive invariant.                                                 *)

\* TypeOK in two parts: what the other conjuncts are about, and the rest.
Typed ==
    /\ log \in Seq(Messages) /\ index \in Seq(Prompts)
    /\ stack \in Seq(Messages) /\ waiting \in Seq(Prompts)
    /\ loaded \in BOOLEAN /\ raced \in BOOLEAN /\ latch \in Futures \cup {Nobody}
    /\ run \in [Futures -> RunPcs]
    /\ slice \in [Futures -> Seq(Messages)] /\ found \in [Futures -> FoundSets]
    /\ hand \in [Futures -> Seq(Prompts)]
    /\ accepted \subseteq Prompts /\ sent \subseteq Prompts /\ missed \subseteq Prompts
Moods == {"Idle", "Queued", "Busy", "Paused", "Error"}
RestTyped ==
    /\ saved \in Moods /\ status \in Moods /\ mood \in Moods
    /\ up \in BOOLEAN /\ live \in BOOLEAN /\ expected \in Futures \cup {Nobody}
    /\ open \in {"none", "slice", "protect", "list", "purge"}
    /\ view \in Seq(Messages) /\ protect \subseteq Prompts
    /\ crashes \in 0..MaxCrashes /\ opens \in 0..MaxOpens
    /\ pauses \in 0..MaxPauses /\ batches \in 0..MaxBatches

\* No table and no queue repeats itself.
Chains ==
    /\ Ordered(log, Distinct) /\ Ordered(index, Differ(Prompts)) /\ Ordered(waiting, Differ(Prompts))
    /\ \A f \in Futures : Ordered(hand[f], Differ(Prompts)) /\ Ordered(found[f].waiters, Differ(Prompts))
    /\ ~raced => Ordered(stack, Distinct)

\* A row holds the prompts that were stored, an accepted one among them.
TableKept ==
    /\ \A m \in Rows : Says(m)
    /\ \A m \in Rows : \A p \in m.text : run[p] \notin Unstored
    /\ \A p \in accepted : \E m \in Rows : p \in m.text
    /\ \A p \in accepted : run[p] # "insertIndex"

\* What is indexed has its row; its call is over, and so is that of a prompt
\* found in the index.  Who waits or was claimed has been routed to the queue.
IndexKept ==
    /\ \A p \in Indexed : run[p] = "end" /\ Stored(p)
    /\ \A f \in Futures : \A p \in Found(f) : run[p] = "end"
    /\ \A p \in Prompts : Taken(p) => run[p] \in {"insertRow", "insertIndex", "end"}

\* A loop holds prompts from the claim to the push; of several only the keeper
\* of their merge still has a row then.
HandKept ==
    \A f \in Futures :
        /\ hand[f] # <<>> <=> run[f] \in Holding
        /\ run[f] = "takeIndex" => Len(hand[f]) = 1
        /\ run[f] = "push" =>
            \A p \in Hand(f) : p # Head(hand[f]) => ~Stored(p) /\ run[p] # "insertRow"

\* While the cache is not loaded nothing works, and who has read the table has
\* read all of it.
LoadKept ==
    /\ ~loaded => waiting = <<>> /\ \A f \in Futures : run[f] \in Unloaded
    /\ \A f \in Futures : run[f] \in {"purge", "rebuild"} <=> latch = f
    /\ ~raced /\ latch # Nobody => ~loaded
    /\ ~loaded => \A f \in Futures : run[f] = "install" => slice[f] = log
    /\ ~loaded => stack = IF latch = Nobody THEN <<>> ELSE log
    /\ ~raced => \A f \in Futures :
          /\ run[f] = "purge" => Indexed \subseteq Found(f) \cup found[f].stale
          /\ run[f] = "rebuild" => Indexed \subseteq Found(f)

\* The stack holds rows, and prompts on their way to the table.
StackKept == ~raced =>
    /\ \A m \in Cached : Says(m) /\ (m.id \in Prompts => m \in Rows \/ (run[m.id] = "persist" /\ m.text = {m.id}))
    /\ \A p \in Prompts : run[p] = "persist" => \E m \in Cached : m.id = p

\* Stack, queue and claims share no prompt.
Apart == ~raced =>
    /\ \A m \in Cached : m.id \notin Waits /\ \A f \in Futures : m.id \notin Hand(f)
    /\ \A f \in Futures : Hand(f) \cap Waits = {}
    /\ \A f, g \in Futures : f # g => Hand(f) \cap Hand(g) = {}

\* A prompt on its way to the queue waits there already, unless a claim took it.
ComesIn == ~raced =>
    \A p \in Prompts : p \notin missed =>
        /\ run[p] \in {"insertRow", "insertIndex"} => p \in Waits
        /\ run[p] = "insertIndex" => Stored(p)

\* An accepted prompt is on the stack, waits or was claimed.
Placed == loaded /\ ~raced =>
    \A p \in accepted : p \notin missed =>
        \/ \E m \in Cached : p \in m.text
        \/ \E m \in Rows : p \in m.text /\ Taken(m.id)

\* What was sent, or is about to be, is not in the index.
SentOnce == ~raced =>
    /\ sent \cap Indexed \subseteq missed
    /\ loaded => \A m \in Cached : m.id \in Indexed => m.id \in missed
    /\ \A f \in Futures : run[f] = "push" /\ Head(hand[f]) \in Indexed => Head(hand[f]) \in missed
    /\ \A p \in sent : p \in missed \/ run[p] \notin (Unstored \ {"persist"}) \cup {"insertIndex"}

IInv ==
    /\ Typed /\ Chains /\ TableKept /\ IndexKept /\ HandKept /\ LoadKept
    /\ StackKept /\ Apart /\ ComesIn /\ Placed /\ SentOnce

\* Who waits has a row, and no request has carried it; while a load restores the
\* waiters these are the only ones found.
WaitersKept == ~raced =>
    /\ \A p \in Waits : Stored(p) \/ run[p] = "insertRow"
    /\ \A f \in Futures : Found(f) # {} => latch = f
    /\ \A f \in Futures : \A p \in Found(f) : Stored(p)
    /\ sent \cap Waits \subseteq missed
    /\ \A f \in Futures : sent \cap Found(f) \subseteq missed
-----------------------------------------------------------------------------
(* Sets and sequences.                                                      *)

\* The elements of the sequences.
LEMMA Sets ==
    ASSUME Typed
    PROVE  /\ Rows \subseteq Messages /\ Cached \subseteq Messages
           /\ Waits \subseteq Prompts /\ Indexed \subseteq Prompts
           /\ waiting = <<>> <=> Waits = {}
           /\ stack = <<>> => Cached = {}
           /\ \A f \in Futures : /\ Hand(f) \subseteq Prompts /\ (hand[f] = <<>> <=> Hand(f) = {})
                                 /\ hand[f] # <<>> => Head(hand[f]) \in Hand(f)
                                 /\ Len(hand[f]) = 1 => Hand(f) = {Head(hand[f])} /\ hand[f] # <<>>
                                 /\ Found(f) \subseteq Prompts /\ found[f].waiters \in Seq(Prompts)
                                 /\ found[f].stale \subseteq Prompts
<1>1. /\ log \in Seq(Messages) /\ index \in Seq(Prompts) /\ stack \in Seq(Messages) /\ waiting \in Seq(Prompts)
      /\ found \in [Futures -> FoundSets] /\ hand \in [Futures -> Seq(Prompts)]
    BY DEF Typed
<1>2. \A f \in Futures : found[f].waiters \in Seq(Prompts) /\ found[f].stale \subseteq Prompts
    BY <1>1 DEF FoundSets
<1>3. Len(<<>>) = 0
    OBVIOUS
<1>4. /\ Rows \subseteq Messages /\ Cached \subseteq Messages
      /\ Waits \subseteq Prompts /\ Indexed \subseteq Prompts
      /\ waiting = <<>> <=> Waits = {}
      /\ stack = <<>> => Cached = {}
    BY <1>1, SmallSets DEF Rows, Cached, Waits, Indexed
<1>5. ASSUME NEW f \in Futures
      PROVE  /\ Hand(f) \subseteq Prompts /\ (hand[f] = <<>> <=> Hand(f) = {})
             /\ hand[f] # <<>> => Head(hand[f]) \in Hand(f)
             /\ Len(hand[f]) = 1 => Hand(f) = {Head(hand[f])}
    BY <1>1, SmallSets DEF Hand
<1>6. ASSUME NEW f \in Futures PROVE Found(f) \subseteq Prompts
    BY <1>2, SmallSets DEF Found
<1>. QED BY <1>2, <1>3, <1>4, <1>5, <1>6

\* What a step leaves alone keeps its elements.
LEMMA SameSets ==
    /\ UNCHANGED log => Rows' = Rows
    /\ UNCHANGED index => Indexed' = Indexed
    /\ UNCHANGED stack => Cached' = Cached
    /\ UNCHANGED waiting => Waits' = Waits
    /\ waiting' = <<>> => Waits' = {}
    /\ stack' = <<>> => Cached' = {}
    /\ \A f \in Futures : hand'[f] = hand[f] => Hand(f)' = Hand(f)
    /\ \A f \in Futures : hand'[f] = <<>> => Hand(f)' = {}
    /\ \A f \in Futures : found'[f] = found[f] => Found(f)' = Found(f)
    /\ \A f \in Futures : found'[f].waiters = <<>> => Found(f)' = {}
<1>1. ToSet(<<>>) = {}
    BY DEF ToSet
<1>. QED BY <1>1 DEF Rows, Indexed, Cached, Waits, Hand, Found

LEMMA GotoFacts ==
    ASSUME Typed, NEW f \in Futures, NEW l \in RunPcs, Goto(f, l)
    PROVE  /\ run' \in [Futures -> RunPcs] /\ run'[f] = l
           /\ \A g \in Futures : g # f => run'[g] = run[g]
BY DEF Goto, Typed

\* The messages a step adds.
LEMMA NewMessages ==
    /\ \A p \in Prompts : Prompt(p) \in Messages /\ Prompt(p).id = p /\ Prompt(p).text = {p}
    /\ Answer \in Messages /\ Answer.id \notin Prompts /\ Answer.text = {}
    /\ Result \in Messages /\ Result.id \notin Prompts /\ Result.text = {}
BY ReopenAssumption DEF Prompt, Answer, Result, Message, Messages

LEMMA NoneFoundTyped == NoneFound \in FoundSets /\ NoneFound.waiters = <<>> /\ NoneFound.stale = {}
BY SmallSets, EmptySeq DEF NoneFound, FoundSets

LEMMA PromptsAreFutures == Prompts \subseteq Futures /\ Nobody \notin Futures
BY ReopenAssumption DEF Futures

\* Two elements of a chain of messages repeat nothing.
LEMMA Pairwise ==
    ASSUME NEW s \in Seq(Messages), Ordered(s, Distinct), NEW m \in ToSet(s), NEW n \in ToSet(s), m # n
    PROVE  Unlike(m, n) /\ Unlike(n, m)
<1>1. PICK i, j \in 1..Len(s) : s[i] = m /\ s[j] = n
    BY DEF ToSet
<1>2. Len(s) \in Nat /\ (i < j \/ j < i)
    BY <1>1
<1>3. <<m, n>> \in Distinct \/ <<n, m>> \in Distinct
    BY <1>1, <1>2 DEF Ordered
<1>. QED BY <1>3 DEF Distinct, Unlike

\* The table says a prompt once, and so does the stack.
LEMMA Once ==
    ASSUME Typed, Chains
    PROVE  /\ \A m, n \in Rows : m # n => Unlike(m, n)
           /\ ~raced => \A m, n \in Cached : m # n => Unlike(m, n)
BY Pairwise DEF Typed, Chains, Rows, Cached

\* A message that nothing in a chain is like may be added to it.
LEMMA Longer ==
    ASSUME NEW s \in Seq(Messages), Ordered(s, Distinct), NEW m \in Messages, \A n \in ToSet(s) : Unlike(n, m)
    PROVE  Append(s, m) \in Seq(Messages) /\ ToSet(Append(s, m)) = ToSet(s) \cup {m} /\ Ordered(Append(s, m), Distinct)
<1>1. ToSet(s) \subseteq Messages
    BY SmallSets
<1>2. \A n \in ToSet(s) : <<n, m>> \in Distinct
    BY <1>1 DEF Distinct
<1>. QED BY <1>2, AppendSet, AppendOrdered

LEMMA LongerQueue ==
    ASSUME NEW s \in Seq(Prompts), Ordered(s, Differ(Prompts)), NEW p \in Prompts, p \notin ToSet(s)
    PROVE  /\ Append(s, p) \in Seq(Prompts) /\ ToSet(Append(s, p)) = ToSet(s) \cup {p}
           /\ Ordered(Append(s, p), Differ(Prompts))
<1>1. ToSet(s) \subseteq Prompts
    BY SmallSets
<1>2. \A q \in ToSet(s) : <<q, p>> \in Differ(Prompts)
    BY <1>1 DEF Differ
<1>. QED BY <1>2, AppendSet, AppendOrdered

LEMMA Shorter ==
    ASSUME NEW U, NEW s \in Seq(U), NEW R, Ordered(s, R), NEW S
    PROVE  Kept(s, S) \in Seq(U) /\ ToSet(Kept(s, S)) = ToSet(s) \cap S /\ Ordered(Kept(s, S), R)
BY KeptProperties, KeptOrdered

\* The waiters leave a transcript.
LEMMA WithoutMessages ==
    ASSUME NEW s \in Seq(Messages), NEW S
    PROVE  /\ Without(s, S) \in Seq(Messages)
           /\ ToSet(Without(s, S)) = {m \in ToSet(s) : m.id \notin S}
           /\ \A R : Ordered(s, R) => Ordered(Without(s, S), R)
<1>. DEFINE K == {m \in ToSet(s) : m.id \notin S}
<1>1. Without(s, S) = Kept(s, K)
    BY DEF Without
<1>2. Kept(s, K) \in Seq(Messages) /\ ToSet(Kept(s, K)) = ToSet(s) \cap K
    BY KeptProperties
<1>3. \A R : Ordered(s, R) => Ordered(Kept(s, K), R)
    BY KeptOrdered
<1>. QED BY <1>1, <1>2, <1>3

\* A queue without its head.
LEMMA HeadAndTail ==
    ASSUME NEW s \in Seq(Prompts), s # <<>>, Ordered(s, Differ(Prompts))
    PROVE  ToSet(Tail(s)) = ToSet(s) \ {Head(s)}
<1>1. /\ Len(s) \in Nat \ {0} /\ Head(s) = s[1] /\ Len(Tail(s)) = Len(s) - 1
      /\ Tail(s) \in Seq(Prompts) /\ \A i \in 1..Len(Tail(s)) : Tail(s)[i] = s[i + 1]
    BY HeadTailProperties, EmptySeq
<1>2. ASSUME NEW i \in 1..Len(Tail(s)) PROVE Tail(s)[i] \in ToSet(s) \ {Head(s)}
    <2>1. 1 \in 1..Len(s) /\ i + 1 \in 1..Len(s) /\ 1 < i + 1 /\ Tail(s)[i] = s[i + 1]
        BY <1>1
    <2>2. <<s[1], s[i + 1]>> \in Differ(Prompts)
        BY <2>1 DEF Ordered
    <2>. QED BY <1>1, <2>1, <2>2 DEF ToSet, Differ
<1>3. ASSUME NEW p \in ToSet(s), p # Head(s) PROVE \E i \in 1..Len(Tail(s)) : Tail(s)[i] = p
    <2>1. PICK i \in 1..Len(s) : s[i] = p
        BY DEF ToSet
    <2>2. i # 1 /\ i - 1 \in 1..Len(Tail(s)) /\ (i - 1) + 1 = i
        BY <1>1, <1>3, <2>1
    <2>. QED BY <1>1, <2>1, <2>2
<1>4. ToSet(Tail(s)) = {Tail(s)[i] : i \in 1..Len(Tail(s))}
    <2>. DEFINE t == Tail(s)
    <2>1. DOMAIN t = 1..Len(t)
        BY <1>1, LenProperties
    <2>. HIDE DEF t
    <2>2. ToSet(t) = {t[i] : i \in 1..Len(t)}
        BY <2>1 DEF ToSet
    <2>. QED BY <2>2 DEF t
<1>. QED BY <1>2, <1>3, <1>4

-----------------------------------------------------------------------------
(* Steps that move no prompt.                                               *)

\* A step that moves at most one future, and adds messages of the LLM.
Quiet ==
    /\ UNCHANGED <<index, loaded, waiting, latch, slice, found, hand, accepted, sent, missed, raced>>
    /\ run' \in [Futures -> RunPcs]
    /\ \/ UNCHANGED <<run, log, stack>>
       \/ \E f \in Futures :
             /\ \A g \in Futures : g # f => run'[g] = run[g]
             /\ \/ /\ UNCHANGED <<log, stack>>
                   /\ \/ run[f] = "ready" /\ run'[f] = "slice"
                      \/ run[f] = "ready" /\ loaded /\ run'[f] \in {"route", "queue"}
                      \/ run[f] = "route" /\ run'[f] = "append"
                \/ /\ run[f] \in Looping /\ run'[f] \in Looping \cup {"end"}
                   /\ \E m \in {Answer, Result} :
                         log' \in {log, Append(log, m)} /\ stack' \in {stack, Append(stack, m)}

\* What a quiet step does to the places of the futures ...
LEMMA QuietMoves ==
    ASSUME Typed, Quiet
    PROVE  \A f \in Futures :
              \/ run'[f] = run[f]
              \/ run[f] = "ready" /\ run'[f] = "slice"
              \/ run[f] = "ready" /\ loaded /\ run'[f] \in {"route", "queue"}
              \/ run[f] = "route" /\ run'[f] = "append"
              \/ run[f] \in Looping /\ run'[f] \in Looping \cup {"end"}
BY DEF Quiet, Typed

\* ... and to the messages: what it adds holds no prompt.
LEMMA QuietMessages ==
    ASSUME IInv, Quiet
    PROVE  /\ log' \in Seq(Messages) /\ stack' \in Seq(Messages)
           /\ Ordered(log', Distinct) /\ (~raced => Ordered(stack', Distinct))
           /\ Rows \subseteq Rows' /\ \A m \in Rows' : m \in Rows \/ (m.id \notin Prompts /\ m.text = {})
           /\ Cached \subseteq Cached' /\ \A m \in Cached' : m \in Cached \/ (m.id \notin Prompts /\ m.text = {})
           /\ ~loaded => UNCHANGED <<log, stack>>
<1>1. log \in Seq(Messages) /\ stack \in Seq(Messages) /\ Ordered(log, Distinct) /\ (~raced => Ordered(stack, Distinct))
    BY DEF IInv, Typed, Chains
<1>2. ASSUME NEW m \in {Answer, Result}
      PROVE  /\ Append(log, m) \in Seq(Messages) /\ Append(stack, m) \in Seq(Messages)
             /\ ToSet(Append(log, m)) = Rows \cup {m} /\ ToSet(Append(stack, m)) = Cached \cup {m}
             /\ Ordered(Append(log, m), Distinct) /\ (~raced => Ordered(Append(stack, m), Distinct))
             /\ m.id \notin Prompts /\ m.text = {}
    <2>1. m \in Messages /\ m.id \notin Prompts /\ m.text = {}
        BY NewMessages
    <2>2. \A n \in Messages : Unlike(n, m)
        BY <2>1 DEF Unlike
    <2>3. Rows \subseteq Messages /\ Cached \subseteq Messages
        BY <1>1, SmallSets DEF Rows, Cached
    <2>. QED BY <1>1, <2>1, <2>2, <2>3, Longer, AppendSet DEF Rows, Cached
<1>3. ~loaded => \A f \in Futures : run[f] \notin Looping
    BY DEF IInv, LoadKept, Unloaded, Looping
<1>4. CASE UNCHANGED <<log, stack>>
    BY <1>1, <1>4, SameSets
<1>5. ASSUME NEW m \in {Answer, Result}, log' \in {log, Append(log, m)}, stack' \in {stack, Append(stack, m)}
      PROVE  /\ log' \in Seq(Messages) /\ stack' \in Seq(Messages)
             /\ Ordered(log', Distinct) /\ (~raced => Ordered(stack', Distinct))
             /\ Rows \subseteq Rows' /\ \A n \in Rows' : n \in Rows \/ (n.id \notin Prompts /\ n.text = {})
             /\ Cached \subseteq Cached' /\ \A n \in Cached' : n \in Cached \/ (n.id \notin Prompts /\ n.text = {})
    <2>1. Rows' \in {Rows, Rows \cup {m}} /\ Cached' \in {Cached, Cached \cup {m}}
        BY <1>2, <1>5 DEF Rows, Cached
    <2>. QED BY <1>1, <1>2, <1>5, <2>1
<1>. QED BY <1>3, <1>4, <1>5 DEF Quiet

\* They keep the invariant.
LEMMA QuietKeeps ==
    ASSUME IInv, Quiet
    PROVE  IInv'
<1>. USE DEF IInv
<1>1. /\ UNCHANGED <<index, loaded, waiting, latch, slice, found, hand, accepted, sent, missed, raced>>
      /\ run' \in [Futures -> RunPcs]
    BY DEF Quiet
<1>2. \A f \in Futures :
          \/ run'[f] = run[f]
          \/ run[f] = "ready" /\ run'[f] = "slice"
          \/ run[f] = "ready" /\ loaded /\ run'[f] \in {"route", "queue"}
          \/ run[f] = "route" /\ run'[f] = "append"
          \/ run[f] \in Looping /\ run'[f] \in Looping \cup {"end"}
    BY QuietMoves
<1>3. /\ log' \in Seq(Messages) /\ stack' \in Seq(Messages)
      /\ Ordered(log', Distinct) /\ (~raced => Ordered(stack', Distinct))
      /\ Rows \subseteq Rows' /\ \A m \in Rows' : m \in Rows \/ (m.id \notin Prompts /\ m.text = {})
      /\ Cached \subseteq Cached' /\ \A m \in Cached' : m \in Cached \/ (m.id \notin Prompts /\ m.text = {})
      /\ ~loaded => UNCHANGED <<log, stack>>
    BY QuietMessages
<1>4. /\ Waits' = Waits /\ Indexed' = Indexed
      /\ \A f \in Futures : Hand(f)' = Hand(f) /\ Found(f)' = Found(f) /\ hand'[f] = hand[f] /\ found'[f] = found[f]
    BY <1>1, SameSets
<1>5. /\ Waits \subseteq Prompts /\ Indexed \subseteq Prompts /\ Rows \subseteq Messages /\ Cached \subseteq Messages
      /\ accepted \subseteq Prompts /\ sent \subseteq Prompts /\ Prompts \subseteq Futures
      /\ \A f \in Futures : Hand(f) \subseteq Prompts /\ Found(f) \subseteq Prompts
      /\ \A m \in Messages : m.text \subseteq Prompts
    BY Sets, PromptsAreFutures DEF Typed, Messages
<1>6. Typed'
    BY <1>1, <1>2, <1>3, <1>4, <1>5 DEF Typed
<1>7. Chains'
    BY <1>1, <1>2, <1>3, <1>4, <1>5 DEF Chains
<1>8. TableKept'
    BY <1>1, <1>2, <1>3, <1>4, <1>5 DEF TableKept, Says, Unstored, Looping
<1>9. IndexKept'
    BY <1>1, <1>2, <1>3, <1>4, <1>5 DEF IndexKept, Stored, Taken, Looping
<1>10. HandKept'
    BY <1>1, <1>2, <1>3, <1>4, <1>5 DEF HandKept, Stored, Holding, Looping
<1>11. LoadKept'
    BY <1>1, <1>2, <1>3, <1>4, <1>5 DEF LoadKept, Unloaded, Looping
<1>12. StackKept'
    BY <1>1, <1>2, <1>3, <1>4, <1>5 DEF StackKept, Says, Looping
<1>13. Apart'
    BY <1>1, <1>2, <1>3, <1>4, <1>5 DEF Apart
<1>14. ComesIn'
    BY <1>1, <1>2, <1>3, <1>4, <1>5 DEF ComesIn, Stored, Looping
<1>15. Placed'
    BY <1>1, <1>2, <1>3, <1>4, <1>5 DEF Placed, Taken
<1>16. SentOnce'
    BY <1>1, <1>2, <1>3, <1>4, <1>5 DEF SentOnce, Unstored, Looping
<1>. QED BY <1>6, <1>7, <1>8, <1>9, <1>10, <1>11, <1>12, <1>13, <1>14, <1>15, <1>16
-----------------------------------------------------------------------------
(* The steps that load the cache.                                           *)

\* The table is read.
LEMMA ReadSliceKeeps ==
    ASSUME IInv, NEW f \in Futures, ReadSlice(f)
    PROVE  IInv'
<1>. USE DEF IInv
<1>1. run' \in [Futures -> RunPcs] /\ slice' \in [Futures -> Seq(Messages)]
    BY GotoFacts DEF ReadSlice, RunPcs, Typed
<1>2. \A g \in Futures : \/ run'[g] = run[g] /\ g # f /\ slice'[g] = slice[g]
                         \/ run[g] = "slice" /\ run'[g] = "install" /\ g = f /\ slice'[g] = log
    BY GotoFacts DEF ReadSlice, RunPcs, Typed
<1>3. UNCHANGED <<log, index, stack, waiting, loaded, latch, found, hand, accepted, sent, missed, raced>>
    BY DEF ReadSlice, disk, session, history
<1>4. /\ Rows' = Rows /\ Cached' = Cached /\ Waits' = Waits /\ Indexed' = Indexed
      /\ \A g \in Futures : Hand(g)' = Hand(g) /\ Found(g)' = Found(g)
    BY <1>3, SameSets
<1>5. /\ Waits \subseteq Prompts /\ Indexed \subseteq Prompts /\ Rows \subseteq Messages /\ Cached \subseteq Messages
      /\ accepted \subseteq Prompts /\ sent \subseteq Prompts /\ Prompts \subseteq Futures /\ Nobody \notin Futures
      /\ \A g \in Futures : Hand(g) \subseteq Prompts /\ Found(g) \subseteq Prompts /\ (hand[g] = <<>> <=> Hand(g) = {})
      /\ \A m \in Messages : m.text \subseteq Prompts
    BY Sets, PromptsAreFutures DEF Typed, Messages
<1>6. Typed'
    BY <1>1, <1>2, <1>3, <1>4, <1>5 DEF Typed
<1>7. Chains'
    BY <1>1, <1>2, <1>3, <1>4, <1>5 DEF Chains
<1>8. TableKept'
    BY <1>2, <1>3, <1>4, <1>5 DEF TableKept, Unstored
<1>9. IndexKept'
    BY <1>2, <1>3, <1>4, <1>5 DEF IndexKept, Stored, Taken
<1>10. HandKept'
    BY <1>2, <1>3, <1>4, <1>5 DEF HandKept, Stored, Holding
<1>11. LoadKept'
    BY <1>2, <1>3, <1>4, <1>5 DEF LoadKept, Unloaded
<1>12. StackKept'
    BY <1>2, <1>3, <1>4, <1>5 DEF StackKept
<1>13. Apart'
    BY <1>2, <1>3, <1>4, <1>5 DEF Apart
<1>14. ComesIn'
    BY <1>2, <1>3, <1>4, <1>5 DEF ComesIn, Stored
<1>15. Placed'
    BY <1>2, <1>3, <1>4, <1>5 DEF Placed, Taken
<1>16. SentOnce'
    BY <1>2, <1>3, <1>4, <1>5 DEF SentOnce, Unstored
<1>. QED BY <1>6, <1>7, <1>8, <1>9, <1>10, <1>11, <1>12, <1>13, <1>14, <1>15, <1>16

\* What was read becomes the stack, and the index is compared with it.
LEMMA InstallKeeps ==
    ASSUME IInv, NEW f \in Futures, Install(f)
    PROVE  IInv'
<1>. USE DEF IInv
<1>1. /\ run' \in [Futures -> RunPcs] /\ slice' \in [Futures -> Seq(Messages)] /\ stack' \in Seq(Messages)
      /\ found \in [Futures -> FoundSets]
    BY GotoFacts, EmptySeq DEF Install, RunPcs, Typed
<1>2. /\ run[f] = "install" /\ latch = Nobody /\ latch' = f /\ raced' = (raced \/ loaded) /\ stack' = slice[f]
      /\ \A g \in Futures : \/ run'[g] = run[g] /\ g # f /\ slice'[g] = slice[g]
                            \/ run[g] = "install" /\ run'[g] = "purge" /\ g = f
    BY GotoFacts DEF Install, RunPcs, Typed
<1>3. UNCHANGED <<log, index, waiting, loaded, hand, accepted, sent, missed>>
    BY DEF Install, disk
<1>4. PICK old \in SUBSET Prompts :
          found' = [found EXCEPT ![f] = [waiters |-> Kept(index, Prompts \ old), stale |-> old]]
    <2>. DEFINE old == Stale(slice[f], TipAtRest(status, slice[f]))
    <2>1. old \subseteq Indexed
        BY DEF Stale, Indexed
    <2>. HIDE DEF old
    <2>2. old \in SUBSET Prompts
        BY <2>1, Sets
    <2>3. found' = [found EXCEPT ![f] = [waiters |-> Kept(index, Prompts \ old), stale |-> old]]
        BY DEF Install, old
    <2>. QED BY <2>2, <2>3
<1>5. /\ Kept(index, Prompts \ old) \in Seq(Prompts)
      /\ ToSet(Kept(index, Prompts \ old)) = Indexed \cap (Prompts \ old)
      /\ Ordered(Kept(index, Prompts \ old), Differ(Prompts))
    BY Shorter DEF Typed, Chains, Indexed
<1>6. found' \in [Futures -> FoundSets] /\ Ordered(found'[f].waiters, Differ(Prompts))
    BY <1>1, <1>4, <1>5 DEF FoundSets
<1>7. /\ \A g \in Futures : g # f => found'[g] = found[g] /\ Found(g)' = Found(g)
      /\ Found(f)' = Indexed \cap (Prompts \ old) /\ found'[f].stale = old
    BY <1>1, <1>4, <1>5 DEF Found
<1>8. /\ Rows' = Rows /\ Waits' = Waits /\ Indexed' = Indexed
      /\ \A g \in Futures : Hand(g)' = Hand(g) /\ hand'[g] = hand[g]
    BY <1>3, SameSets
<1>9. ~raced' => ~raced /\ ~loaded /\ stack' = log /\ Cached' = Rows
    BY <1>2 DEF LoadKept, Rows, Cached
<1>10. /\ Waits \subseteq Prompts /\ Indexed \subseteq Prompts /\ Rows \subseteq Messages /\ Cached \subseteq Messages
      /\ accepted \subseteq Prompts /\ sent \subseteq Prompts /\ Prompts \subseteq Futures /\ Nobody \notin Futures
      /\ \A g \in Futures : Hand(g) \subseteq Prompts /\ Found(g) \subseteq Prompts /\ (hand[g] = <<>> <=> Hand(g) = {})
      /\ \A m \in Messages : m.text \subseteq Prompts
    BY Sets, PromptsAreFutures DEF Typed, Messages
<1>11. ~loaded => Waits = {} /\ \A g \in Futures : Hand(g) = {} /\ run[g] \in Unloaded
    BY <1>10, Sets DEF LoadKept, HandKept, Unloaded, Holding
<1>12. Typed'
    BY <1>1, <1>2, <1>3, <1>4, <1>5, <1>6, <1>7, <1>8, <1>9, <1>10, <1>11 DEF Typed, RunPcs
<1>13. Chains'
    <2>1. ~raced' => Ordered(stack', Distinct)
        BY <1>9 DEF Chains
    <2>. QED BY <1>2, <1>3, <1>6, <1>7, <1>8, <2>1 DEF Chains
<1>14. TableKept'
    BY <1>2, <1>3, <1>7, <1>8, <1>9, <1>10, <1>11 DEF TableKept, Unstored
<1>15. IndexKept'
    BY <1>2, <1>3, <1>7, <1>8, <1>9, <1>10, <1>11 DEF IndexKept, Stored, Taken
<1>16. HandKept'
    BY <1>2, <1>3, <1>7, <1>8, <1>9, <1>10, <1>11 DEF HandKept, Stored, Holding
<1>17. LoadKept'
    BY <1>2, <1>3, <1>7, <1>8, <1>9, <1>10, <1>11 DEF LoadKept, Unloaded
<1>18. StackKept'
    BY <1>2, <1>3, <1>7, <1>8, <1>9, <1>10, <1>11 DEF StackKept, Unloaded, TableKept
<1>19. Apart'
    BY <1>2, <1>3, <1>7, <1>8, <1>9, <1>10, <1>11 DEF Apart
<1>20. ComesIn'
    BY <1>2, <1>3, <1>7, <1>8, <1>9, <1>10, <1>11 DEF ComesIn, Stored
<1>21. Placed'
    BY <1>2, <1>3, <1>7, <1>8, <1>9, <1>10, <1>11 DEF Placed, Taken
<1>22. SentOnce'
    BY <1>2, <1>3, <1>7, <1>8, <1>9, <1>10, <1>11 DEF SentOnce, Unstored
<1>. QED BY <1>12, <1>13, <1>14, <1>15, <1>16, <1>17, <1>18, <1>19, <1>20, <1>21, <1>22

\* The index loses rows, and nothing is done but the purge of a load.
LEMMA ShrinkIndexKeeps ==
    ASSUME IInv, NEW S, index' = Kept(index, S), UNCHANGED <<log, stack, waiting, loaded, latch, slice, found, hand, accepted, sent, missed, raced>>,
           run' \in [Futures -> RunPcs],
           \A f \in Futures : \/ run'[f] = run[f]
                              \/ run[f] = "purge" /\ run'[f] = "rebuild" /\ S = Prompts \ found[f].stale
    PROVE  IInv'
<1>. USE DEF IInv
<1>1. UNCHANGED <<log, stack, waiting, loaded, latch, slice, found, hand, accepted, sent, missed, raced>>
    OBVIOUS
<1>2. \A f \in Futures : \/ run'[f] = run[f]
                         \/ run[f] = "purge" /\ run'[f] = "rebuild" /\ Indexed' \subseteq Indexed \ found[f].stale
    <2>1. ToSet(Kept(index, S)) = Indexed \cap S
        BY Shorter DEF Typed, Chains, Indexed
    <2>. QED BY <2>1 DEF Indexed
<1>3. Indexed' \subseteq Indexed
    BY Shorter DEF Typed, Chains, Indexed
<1>4. index' \in Seq(Prompts) /\ Ordered(index', Differ(Prompts)) /\ run' \in [Futures -> RunPcs]
    BY Shorter DEF Typed, Chains
<1>5. /\ Rows' = Rows /\ Cached' = Cached /\ Waits' = Waits
      /\ \A g \in Futures : Hand(g)' = Hand(g) /\ Found(g)' = Found(g)
    BY <1>1, SameSets
<1>6. /\ Waits \subseteq Prompts /\ Indexed \subseteq Prompts /\ Rows \subseteq Messages /\ Cached \subseteq Messages
      /\ accepted \subseteq Prompts /\ sent \subseteq Prompts /\ Prompts \subseteq Futures /\ Nobody \notin Futures
      /\ \A g \in Futures : Hand(g) \subseteq Prompts /\ Found(g) \subseteq Prompts /\ (hand[g] = <<>> <=> Hand(g) = {})
      /\ \A m \in Messages : m.text \subseteq Prompts
    BY Sets, PromptsAreFutures DEF Typed, Messages
<1>7. Typed'
    BY <1>1, <1>2, <1>3, <1>4, <1>5, <1>6 DEF Typed
<1>8. Chains'
    BY <1>1, <1>2, <1>3, <1>4, <1>5, <1>6 DEF Chains
<1>9. TableKept'
    BY <1>1, <1>2, <1>3, <1>5, <1>6 DEF TableKept, Unstored
<1>10. IndexKept'
    BY <1>1, <1>2, <1>3, <1>5, <1>6 DEF IndexKept, Stored, Taken
<1>11. HandKept'
    BY <1>1, <1>2, <1>3, <1>5, <1>6 DEF HandKept, Stored, Holding
<1>12. LoadKept'
    BY <1>1, <1>2, <1>3, <1>5, <1>6 DEF LoadKept, Unloaded
<1>13. StackKept'
    BY <1>1, <1>2, <1>3, <1>5, <1>6 DEF StackKept
<1>14. Apart'
    BY <1>1, <1>2, <1>3, <1>5, <1>6 DEF Apart
<1>15. ComesIn'
    BY <1>1, <1>2, <1>3, <1>5, <1>6 DEF ComesIn, Stored
<1>16. Placed'
    BY <1>1, <1>2, <1>3, <1>5, <1>6 DEF Placed, Taken
<1>17. SentOnce'
    BY <1>1, <1>2, <1>3, <1>5, <1>6 DEF SentOnce, Unstored
<1>. QED BY <1>7, <1>8, <1>9, <1>10, <1>11, <1>12, <1>13, <1>14, <1>15, <1>16, <1>17

\* The waiters leave the messages for the queue.
LEMMA RebuildKeeps ==
    ASSUME IInv, NEW f \in Futures, Rebuild(f)
    PROVE  IInv'
<1>. USE DEF IInv
<1>1. run' \in [Futures -> RunPcs] /\ NoneFound \in FoundSets /\ found' \in [Futures -> FoundSets]
    BY GotoFacts, NoneFoundTyped DEF Rebuild, RunPcs, Typed
<1>2. /\ run[f] = "rebuild" /\ loaded' = TRUE /\ latch' = Nobody
      /\ \A g \in Futures : \/ run'[g] = run[g] /\ g # f /\ found'[g] = found[g] /\ Found(g)' = Found(g)
                            \/ run[g] = "rebuild" /\ run'[g] \in {"route", "queue"} /\ g = f /\ Found(g)' = {}
    BY GotoFacts, NoneFoundTyped, SameSets DEF Rebuild, RunPcs, Typed
<1>3. UNCHANGED <<log, index, hand, slice, accepted, sent, missed, raced>>
    BY DEF Rebuild, disk, history
<1>4. found[f].waiters \in Seq(Prompts) /\ stack \in Seq(Messages) /\ Ordered(found[f].waiters, Differ(Prompts))
      /\ Ordered(found'[f].waiters, Differ(Prompts))
    BY Sets, NoneFoundTyped, SmallSets DEF Typed, Chains, Rebuild
<1>5. waiting' = found[f].waiters /\ stack' \in Seq(Messages) /\ (~raced' => Ordered(stack', Distinct))
    BY <1>3, <1>4, WithoutMessages DEF Rebuild, Chains
<1>6. Waits' = Found(f) /\ Cached' = {m \in Cached : m.id \notin Found(f)}
    BY <1>4, WithoutMessages DEF Rebuild, Waits, Found, Cached
<1>7. /\ Rows' = Rows /\ Indexed' = Indexed
      /\ \A g \in Futures : Hand(g)' = Hand(g) /\ hand'[g] = hand[g]
    BY <1>3, SameSets
<1>8. latch = f /\ (~raced => ~loaded /\ Cached = Rows)
    <2>1. latch = f /\ f # Nobody
        BY <1>2, PromptsAreFutures DEF LoadKept
    <2>. QED BY <2>1 DEF LoadKept, Rows, Cached
<1>9. /\ Waits \subseteq Prompts /\ Indexed \subseteq Prompts /\ Rows \subseteq Messages /\ Cached \subseteq Messages
      /\ accepted \subseteq Prompts /\ sent \subseteq Prompts /\ Prompts \subseteq Futures /\ Nobody \notin Futures
      /\ \A g \in Futures : Hand(g) \subseteq Prompts /\ Found(g) \subseteq Prompts /\ (hand[g] = <<>> <=> Hand(g) = {})
      /\ \A m \in Messages : m.text \subseteq Prompts
    BY Sets, PromptsAreFutures DEF Typed, Messages
<1>10. ~loaded => Waits = {} /\ \A g \in Futures : Hand(g) = {} /\ run[g] \in Unloaded
    BY <1>9, Sets DEF LoadKept, HandKept, Unloaded, Holding
<1>11. Typed'
    BY <1>1, <1>2, <1>3, <1>4, <1>5, <1>6, <1>7, <1>8, <1>9, <1>10 DEF Typed, RunPcs
<1>12. Chains'
    BY <1>1, <1>2, <1>3, <1>4, <1>5, <1>6, <1>7, <1>8, <1>9, <1>10 DEF Chains
<1>13. TableKept'
    BY <1>2, <1>3, <1>6, <1>7, <1>8, <1>9, <1>10 DEF TableKept, Unstored
<1>14. IndexKept'
    BY <1>2, <1>3, <1>6, <1>7, <1>8, <1>9, <1>10 DEF IndexKept, Stored, Taken
<1>15. HandKept'
    BY <1>2, <1>3, <1>6, <1>7, <1>8, <1>9, <1>10 DEF HandKept, Stored, Holding
<1>16. LoadKept'
    BY <1>2, <1>3, <1>6, <1>7, <1>8, <1>9, <1>10 DEF LoadKept, Unloaded
<1>17. StackKept'
    BY <1>2, <1>3, <1>6, <1>7, <1>8, <1>9, <1>10 DEF StackKept, Unloaded, TableKept
<1>18. Apart'
    BY <1>2, <1>3, <1>6, <1>7, <1>8, <1>9, <1>10 DEF Apart
<1>19. ComesIn'
    BY <1>2, <1>3, <1>6, <1>7, <1>8, <1>9, <1>10 DEF ComesIn, Stored
<1>20. Placed'
    BY <1>2, <1>3, <1>6, <1>7, <1>8, <1>9, <1>10 DEF Placed, Taken, TableKept
<1>21. SentOnce'
    BY <1>2, <1>3, <1>6, <1>7, <1>8, <1>9, <1>10 DEF SentOnce, Unstored, LoadKept
<1>. QED BY <1>11, <1>12, <1>13, <1>14, <1>15, <1>16, <1>17, <1>18, <1>19, <1>20, <1>21

-----------------------------------------------------------------------------
(* A prompt comes in.                                                       *)

\* A prompt that is not stored is nowhere but on the stack, when it is about to
\* be stored, or in the queue, when it was routed there.
LEMMA Nowhere ==
    ASSUME IInv, NEW p \in Prompts, run[p] \in Unstored
    PROVE  /\ \A m \in Rows : m.id # p /\ p \notin m.text
           /\ p \notin Indexed /\ p \notin accepted
           /\ run[p] # "persist" /\ ~raced => \A m \in Cached : m.id # p /\ p \notin m.text
           /\ run[p] # "insertRow" => ~Taken(p)
           /\ ~Stored(p)
<1>. USE DEF IInv
<1>1. \A m \in Rows : m.id # p /\ p \notin m.text
    BY DEF TableKept, Says
<1>2. p \notin Indexed /\ p \notin accepted
    BY <1>1 DEF TableKept, IndexKept, Unstored
<1>3. ASSUME run[p] # "persist", ~raced, NEW m \in Cached PROVE m.id # p /\ p \notin m.text
    BY <1>1, <1>3 DEF StackKept, Says
<1>4. run[p] # "insertRow" => ~Taken(p)
    BY DEF IndexKept, Unstored
<1>. QED BY <1>1, <1>2, <1>3, <1>4 DEF Stored
\* A prompt is put into the queue.
LEMMA WaitKeeps ==
    ASSUME IInv, NEW p \in Prompts, Route(p), run'[p] = "insertRow"
    PROVE  IInv'
<1>. USE DEF IInv
<1>1. run' \in [Futures -> RunPcs] /\ p \in Futures
    BY GotoFacts, PromptsAreFutures DEF Route, RunPcs
<1>2. /\ run[p] = "route"
      /\ \A g \in Futures : \/ run'[g] = run[g] /\ g # p
                            \/ run[g] = "route" /\ run'[g] = "insertRow" /\ g = p
    <2>1. run[p] = "route" /\ Goto(p, run'[p])
        BY <1>1, GotoFacts DEF Route, RunPcs
    <2>. QED BY <1>1, <2>1, GotoFacts DEF RunPcs
<1>3. UNCHANGED <<log, index, stack, loaded, latch, slice, found, hand, accepted, sent, missed, raced>>
    BY DEF Route, bounds, history
<1>4. /\ \A m \in Rows : m.id # p /\ p \notin m.text
      /\ p \notin Indexed /\ p \notin accepted
      /\ ~raced => \A m \in Cached : m.id # p /\ p \notin m.text
      /\ p \notin Waits /\ \A f \in Futures : p \notin Hand(f)
    BY <1>2, Nowhere DEF Unstored, Taken
<1>5. waiting' = Append(waiting, p)
    <2>1. run'[p] # "append"
        OBVIOUS
    <2>. QED BY <1>1, <2>1, GotoFacts DEF Route, RunPcs
<1>6. waiting' \in Seq(Prompts) /\ Ordered(waiting', Differ(Prompts))
    BY <1>4, <1>5, LongerQueue DEF Typed, Chains, Waits
<1>7. Waits' = Waits \cup {p} /\ loaded
    <2>1. Waits' = Waits \cup {p}
        BY <1>4, <1>5, LongerQueue DEF Typed, Chains, Waits
    <2>. QED BY <1>1, <1>2, <2>1 DEF LoadKept, Unloaded
<1>8. /\ Rows' = Rows /\ Cached' = Cached /\ Indexed' = Indexed
      /\ \A g \in Futures : Hand(g)' = Hand(g) /\ Found(g)' = Found(g)
    BY <1>3, SameSets
<1>9. /\ Waits \subseteq Prompts /\ Indexed \subseteq Prompts /\ Rows \subseteq Messages /\ Cached \subseteq Messages
      /\ accepted \subseteq Prompts /\ sent \subseteq Prompts /\ Prompts \subseteq Futures /\ Nobody \notin Futures
      /\ \A g \in Futures : Hand(g) \subseteq Prompts /\ Found(g) \subseteq Prompts /\ (hand[g] = <<>> <=> Hand(g) = {})
      /\ \A m \in Messages : m.text \subseteq Prompts
    BY Sets, PromptsAreFutures DEF Typed, Messages
<1>10. Typed'
    BY <1>1, <1>2, <1>3, <1>4, <1>5, <1>6, <1>7, <1>8, <1>9 DEF Typed
<1>11. Chains'
    BY <1>1, <1>2, <1>3, <1>4, <1>5, <1>6, <1>7, <1>8, <1>9 DEF Chains
<1>12. TableKept'
    BY <1>2, <1>3, <1>4, <1>7, <1>8, <1>9 DEF TableKept, Unstored
<1>13. IndexKept'
    BY <1>2, <1>3, <1>4, <1>7, <1>8, <1>9 DEF IndexKept, Stored, Taken
<1>14. HandKept'
    BY <1>2, <1>3, <1>4, <1>7, <1>8, <1>9 DEF HandKept, Stored, Holding
<1>15. LoadKept'
    BY <1>2, <1>3, <1>4, <1>7, <1>8, <1>9 DEF LoadKept, Unloaded
<1>16. StackKept'
    BY <1>2, <1>3, <1>4, <1>7, <1>8, <1>9 DEF StackKept
<1>17. Apart'
    BY <1>2, <1>3, <1>4, <1>7, <1>8, <1>9 DEF Apart
<1>18. ComesIn'
    BY <1>2, <1>3, <1>4, <1>7, <1>8, <1>9 DEF ComesIn, Stored
<1>19. Placed'
    BY <1>2, <1>3, <1>4, <1>7, <1>8, <1>9 DEF Placed, Taken
<1>20. SentOnce'
    BY <1>2, <1>3, <1>4, <1>7, <1>8, <1>9 DEF SentOnce, Unstored
<1>. QED BY <1>10, <1>11, <1>12, <1>13, <1>14, <1>15, <1>16, <1>17, <1>18, <1>19, <1>20

\* Its row is stored.
LEMMA InsertRowKeeps ==
    ASSUME IInv, NEW p \in Prompts, InsertRow(p)
    PROVE  IInv'
<1>. USE DEF IInv
<1>1. run' \in [Futures -> RunPcs] /\ p \in Futures
    BY GotoFacts, PromptsAreFutures DEF InsertRow, RunPcs
<1>2. /\ run[p] = "insertRow" /\ p \in Prompts
      /\ \A g \in Futures : \/ run'[g] = run[g] /\ g # p
                            \/ run[g] = "insertRow" /\ run'[g] = "insertIndex" /\ g = p
    BY GotoFacts, PromptsAreFutures DEF InsertRow, RunPcs
<1>3. UNCHANGED <<index, waiting, stack, loaded, latch, slice, found, hand, accepted, sent, missed, raced>>
    BY DEF InsertRow, session, history
<1>4. /\ \A m \in Rows : m.id # p /\ p \notin m.text
      /\ p \notin Indexed /\ p \notin accepted /\ ~Stored(p)
      /\ ~raced => \A m \in Cached : m.id # p /\ p \notin m.text
    BY <1>2, Nowhere DEF Unstored
<1>5. Prompt(p).id = p /\ Prompt(p).text = {p}
    BY NewMessages
<1>6. Append(log, Prompt(p)) \in Seq(Messages) /\ Ordered(Append(log, Prompt(p)), Distinct) /\ log' = Append(log, Prompt(p))
    <2>1. \A m \in Rows : Unlike(m, Prompt(p))
        BY <1>4, <1>5 DEF Unlike
    <2>. QED BY <2>1, NewMessages, Longer DEF Typed, Chains, Rows, InsertRow
<1>7. Rows' = Rows \cup {Prompt(p)} /\ loaded
    <2>1. ToSet(Append(log, Prompt(p))) = Rows \cup {Prompt(p)}
        BY NewMessages, AppendSet DEF Typed, Rows
    <2>. QED BY <1>1, <1>2, <1>6, <2>1 DEF LoadKept, Unloaded, Rows
<1>8. /\ Waits' = Waits /\ Cached' = Cached /\ Indexed' = Indexed
      /\ \A g \in Futures : Hand(g)' = Hand(g) /\ Found(g)' = Found(g)
    BY <1>3, SameSets
<1>9. /\ Waits \subseteq Prompts /\ Indexed \subseteq Prompts /\ Rows \subseteq Messages /\ Cached \subseteq Messages
      /\ accepted \subseteq Prompts /\ sent \subseteq Prompts /\ Prompts \subseteq Futures /\ Nobody \notin Futures
      /\ \A g \in Futures : Hand(g) \subseteq Prompts /\ Found(g) \subseteq Prompts /\ (hand[g] = <<>> <=> Hand(g) = {})
      /\ \A m \in Messages : m.text \subseteq Prompts
    BY Sets, PromptsAreFutures DEF Typed, Messages
<1>10. Typed'
    BY <1>1, <1>2, <1>3, <1>4, <1>5, <1>6, <1>7, <1>8, <1>9 DEF Typed
<1>11. Chains'
    BY <1>1, <1>2, <1>3, <1>4, <1>5, <1>6, <1>7, <1>8, <1>9 DEF Chains
<1>12. TableKept'
    BY <1>2, <1>3, <1>4, <1>5, <1>7, <1>8, <1>9 DEF TableKept, Unstored, Says
<1>13. IndexKept'
    BY <1>2, <1>3, <1>4, <1>5, <1>7, <1>8, <1>9 DEF IndexKept, Stored, Taken
<1>14. HandKept'
    BY <1>2, <1>3, <1>4, <1>5, <1>7, <1>8, <1>9 DEF HandKept, Stored, Holding
<1>15. LoadKept'
    BY <1>2, <1>3, <1>4, <1>5, <1>7, <1>8, <1>9 DEF LoadKept, Unloaded
<1>16. StackKept'
    BY <1>2, <1>3, <1>4, <1>5, <1>7, <1>8, <1>9 DEF StackKept
<1>17. Apart'
    BY <1>2, <1>3, <1>4, <1>5, <1>7, <1>8, <1>9 DEF Apart
<1>18. ComesIn'
    BY <1>2, <1>3, <1>4, <1>5, <1>7, <1>8, <1>9 DEF ComesIn, Stored
<1>19. Placed'
    BY <1>2, <1>3, <1>4, <1>5, <1>7, <1>8, <1>9 DEF Placed, Taken
<1>20. SentOnce'
    BY <1>2, <1>3, <1>4, <1>5, <1>7, <1>8, <1>9 DEF SentOnce, Unstored
<1>. QED BY <1>10, <1>11, <1>12, <1>13, <1>14, <1>15, <1>16, <1>17, <1>18, <1>19, <1>20

\* Its index row is stored, or the call undone.
LEMMA InsertIndexKeeps ==
    ASSUME IInv, NEW p \in Prompts, InsertIndex(p)
    PROVE  IInv'
<1>. USE DEF IInv
<1>1. run' \in [Futures -> RunPcs] /\ p \in Futures
    BY GotoFacts, PromptsAreFutures DEF InsertIndex, RunPcs
<1>2. /\ run[p] = "insertIndex" /\ p \in Prompts
      /\ \A g \in Futures : \/ run'[g] = run[g] /\ g # p
                            \/ run[g] = "insertIndex" /\ run'[g] = "end" /\ g = p
    BY GotoFacts, PromptsAreFutures DEF InsertIndex, RunPcs
<1>3. UNCHANGED <<log, stack, loaded, latch, slice, found, hand, sent, missed, raced>>
    BY DEF InsertIndex, bounds
<1>4. p \notin Indexed /\ p \notin accepted
    BY <1>2 DEF IndexKept, TableKept
<1>5. Stored(p) <=> p \in Ids(log)
    BY DEF Stored, Rows, Ids
<1>6. /\ waiting \in Seq(Prompts) /\ index \in Seq(Prompts)
       /\ Ordered(waiting, Differ(Prompts)) /\ Ordered(index, Differ(Prompts))
    BY DEF Typed, Chains
<1>7. /\ index' \in Seq(Prompts) /\ Ordered(index', Differ(Prompts))
       /\ waiting' \in Seq(Prompts) /\ Ordered(waiting', Differ(Prompts))
    <2>1. CASE p \in Ids(log)
        <3>1. index' = Append(index, p) /\ waiting' = waiting
            BY <2>1 DEF InsertIndex
        <3>. QED BY <1>4, <1>6, <3>1, LongerQueue DEF Indexed
    <2>2. CASE p \notin Ids(log)
        <3>1. waiting' = Kept(waiting, Prompts \ {p}) /\ index' = index
            BY <2>2 DEF InsertIndex
        <3>. QED BY <1>6, <3>1, Shorter
    <2>. QED BY <2>1, <2>2
<1>8. \/ /\ Stored(p) /\ Indexed' = Indexed \cup {p} /\ accepted' = accepted \cup {p} /\ Waits' = Waits
      \/ ~Stored(p) /\ Indexed' = Indexed /\ accepted' = accepted /\ Waits' = Waits \ {p}
    <2>1. CASE p \in Ids(log)
        <3>1. index' = Append(index, p) /\ accepted' = accepted \cup {p} /\ UNCHANGED waiting
            BY <2>1 DEF InsertIndex
        <3>2. Indexed' = Indexed \cup {p} /\ Waits' = Waits
            BY <1>4, <1>6, <3>1, LongerQueue, SameSets DEF Indexed
        <3>. QED BY <1>5, <2>1, <3>1, <3>2
    <2>2. CASE p \notin Ids(log)
        <3>1. waiting' = Kept(waiting, Prompts \ {p}) /\ UNCHANGED <<index, accepted>>
            BY <2>2 DEF InsertIndex
        <3>2. Indexed' = Indexed /\ Waits' = Waits \cap (Prompts \ {p})
            BY <1>6, <3>1, Shorter, SameSets DEF Waits
        <3>. QED BY <1>5, <2>2, <3>1, <3>2, Sets
    <2>. QED BY <2>1, <2>2
<1>9. /\ Rows' = Rows /\ Cached' = Cached /\ loaded
      /\ \A g \in Futures : Hand(g)' = Hand(g) /\ Found(g)' = Found(g)
    BY <1>1, <1>2, <1>3, SameSets DEF LoadKept, Unloaded
<1>10. /\ Waits \subseteq Prompts /\ Indexed \subseteq Prompts /\ Rows \subseteq Messages /\ Cached \subseteq Messages
      /\ accepted \subseteq Prompts /\ sent \subseteq Prompts /\ Prompts \subseteq Futures /\ Nobody \notin Futures
      /\ \A g \in Futures : Hand(g) \subseteq Prompts /\ Found(g) \subseteq Prompts /\ (hand[g] = <<>> <=> Hand(g) = {})
      /\ \A m \in Messages : m.text \subseteq Prompts
    BY Sets, PromptsAreFutures DEF Typed, Messages
<1>11. Typed'
    BY <1>1, <1>2, <1>3, <1>4, <1>5, <1>6, <1>7, <1>8, <1>9, <1>10 DEF Typed
<1>12. Chains'
    BY <1>1, <1>2, <1>3, <1>4, <1>5, <1>6, <1>7, <1>8, <1>9, <1>10 DEF Chains
<1>13. TableKept'
    BY <1>2, <1>3, <1>4, <1>5, <1>8, <1>9, <1>10 DEF TableKept, Unstored, Says, Stored
<1>14. IndexKept'
    BY <1>2, <1>3, <1>4, <1>5, <1>8, <1>9, <1>10 DEF IndexKept, Stored, Taken
<1>15. HandKept'
    BY <1>2, <1>3, <1>4, <1>5, <1>8, <1>9, <1>10 DEF HandKept, Stored, Holding
<1>16. LoadKept'
    BY <1>2, <1>3, <1>4, <1>5, <1>8, <1>9, <1>10 DEF LoadKept, Unloaded
<1>17. StackKept'
    BY <1>2, <1>3, <1>4, <1>5, <1>8, <1>9, <1>10 DEF StackKept
<1>18. Apart'
    BY <1>2, <1>3, <1>4, <1>5, <1>8, <1>9, <1>10 DEF Apart
<1>19. ComesIn'
    BY <1>2, <1>3, <1>4, <1>5, <1>8, <1>9, <1>10 DEF ComesIn, Stored
<1>20. Placed'
    BY <1>2, <1>3, <1>4, <1>5, <1>8, <1>9, <1>10 DEF Placed, Taken, Stored, ComesIn, TableKept, Says
<1>21. SentOnce'
    <2>1. ASSUME NEW g \in Futures, run[g] = "push" PROVE Head(hand[g]) \in Hand(g)
        BY <2>1, Sets DEF HandKept, Holding
    <2>2. ~raced /\ p \notin missed => p \in Waits /\ p \notin sent
        BY <1>2 DEF ComesIn, SentOnce
    <2>3. ASSUME ~raced, p \in Waits PROVE (\A g \in Futures : p \notin Hand(g)) /\ \A m \in Cached : m.id # p
        BY <2>3 DEF Apart
    <2>. QED BY <1>2, <1>3, <1>8, <1>9, <1>10, <2>1, <2>2, <2>3 DEF SentOnce, Unstored
<1>. QED BY <1>11, <1>12, <1>13, <1>14, <1>15, <1>16, <1>17, <1>18, <1>19, <1>20, <1>21

\* The prompt of a new workflow reaches the stack.
LEMMA AppendPromptKeeps ==
    ASSUME IInv, NEW p \in Prompts, AppendPrompt(p)
    PROVE  IInv'
<1>. USE DEF IInv
<1>1. run' \in [Futures -> RunPcs] /\ p \in Futures
    BY GotoFacts, PromptsAreFutures DEF AppendPrompt, RunPcs
<1>2. /\ run[p] = "append" /\ p \in Prompts
      /\ \A g \in Futures : \/ run'[g] = run[g] /\ g # p
                            \/ run[g] = "append" /\ run'[g] = "persist" /\ g = p
    BY GotoFacts, PromptsAreFutures DEF AppendPrompt, RunPcs
<1>3. UNCHANGED <<log, index, waiting, loaded, latch, slice, found, hand, accepted, sent, missed, raced>>
    BY DEF AppendPrompt, disk, history
<1>4. /\ \A m \in Rows : m.id # p /\ p \notin m.text
      /\ p \notin Indexed /\ p \notin accepted
      /\ ~raced => \A m \in Cached : m.id # p /\ p \notin m.text
      /\ p \notin Waits /\ \A f \in Futures : p \notin Hand(f)
    BY <1>2, Nowhere DEF Unstored, Taken
<1>5. Prompt(p).id = p /\ Prompt(p).text = {p}
    BY NewMessages
<1>6. stack' \in Seq(Messages) /\ (~raced' => Ordered(stack', Distinct))
    <2>1. Append(stack, Prompt(p)) \in Seq(Messages)
        BY NewMessages, AppendSet DEF Typed
    <2>2. ASSUME ~raced PROVE Ordered(Append(stack, Prompt(p)), Distinct)
        <3>1. \A m \in Cached : Unlike(m, Prompt(p))
            BY <1>4, <1>5, <2>2 DEF Unlike
        <3>. QED BY <2>2, <3>1, NewMessages, Longer DEF Typed, Chains, Cached
    <2>. QED BY <1>3, <2>1, <2>2 DEF AppendPrompt
<1>7. Cached' = Cached \cup {Prompt(p)} /\ loaded
    <2>1. ToSet(Append(stack, Prompt(p))) = Cached \cup {Prompt(p)}
        BY NewMessages, AppendSet DEF Typed, Cached
    <2>. QED BY <1>1, <1>2, <2>1 DEF LoadKept, Unloaded, Cached, AppendPrompt
<1>8. /\ Waits' = Waits /\ Rows' = Rows /\ Indexed' = Indexed
      /\ \A g \in Futures : Hand(g)' = Hand(g) /\ Found(g)' = Found(g)
    BY <1>3, SameSets
<1>9. /\ Waits \subseteq Prompts /\ Indexed \subseteq Prompts /\ Rows \subseteq Messages /\ Cached \subseteq Messages
      /\ accepted \subseteq Prompts /\ sent \subseteq Prompts /\ Prompts \subseteq Futures /\ Nobody \notin Futures
      /\ \A g \in Futures : Hand(g) \subseteq Prompts /\ Found(g) \subseteq Prompts /\ (hand[g] = <<>> <=> Hand(g) = {})
      /\ \A m \in Messages : m.text \subseteq Prompts
    BY Sets, PromptsAreFutures DEF Typed, Messages
<1>10. Typed'
    BY <1>1, <1>2, <1>3, <1>4, <1>5, <1>6, <1>7, <1>8, <1>9 DEF Typed
<1>11. Chains'
    BY <1>1, <1>2, <1>3, <1>4, <1>5, <1>6, <1>7, <1>8, <1>9 DEF Chains
<1>12. TableKept'
    BY <1>2, <1>3, <1>4, <1>5, <1>7, <1>8, <1>9 DEF TableKept, Unstored, Says
<1>13. IndexKept'
    BY <1>2, <1>3, <1>4, <1>5, <1>7, <1>8, <1>9 DEF IndexKept, Stored, Taken
<1>14. HandKept'
    BY <1>2, <1>3, <1>4, <1>5, <1>7, <1>8, <1>9 DEF HandKept, Stored, Holding
<1>15. LoadKept'
    BY <1>2, <1>3, <1>4, <1>5, <1>7, <1>8, <1>9 DEF LoadKept, Unloaded
<1>16. StackKept'
    BY <1>2, <1>3, <1>4, <1>5, <1>7, <1>8, <1>9 DEF StackKept, Says
<1>17. Apart'
    BY <1>2, <1>3, <1>4, <1>5, <1>7, <1>8, <1>9 DEF Apart
<1>18. ComesIn'
    BY <1>2, <1>3, <1>4, <1>5, <1>7, <1>8, <1>9 DEF ComesIn, Stored
<1>19. Placed'
    BY <1>2, <1>3, <1>4, <1>5, <1>7, <1>8, <1>9 DEF Placed, Taken
<1>20. SentOnce'
    BY <1>2, <1>3, <1>4, <1>5, <1>7, <1>8, <1>9 DEF SentOnce, Unstored
<1>. QED BY <1>10, <1>11, <1>12, <1>13, <1>14, <1>15, <1>16, <1>17, <1>18, <1>19, <1>20

\* Its row is stored.
LEMMA PersistKeeps ==
    ASSUME IInv, NEW p \in Prompts, Persist(p)
    PROVE  IInv'
<1>. USE DEF IInv
<1>1. run' \in [Futures -> RunPcs] /\ p \in Futures
    BY GotoFacts, PromptsAreFutures DEF Persist, RunPcs
<1>2. /\ run[p] = "persist" /\ p \in Prompts
      /\ \A g \in Futures : \/ run'[g] = run[g] /\ g # p
                            \/ run[g] = "persist" /\ run'[g] = "place" /\ g = p
    BY GotoFacts, PromptsAreFutures DEF Persist, RunPcs
<1>3. UNCHANGED <<index, waiting, stack, loaded, latch, slice, found, hand, sent, missed, raced>> /\ accepted' = accepted \cup {p}
    BY DEF Persist, session
<1>4. /\ \A m \in Rows : m.id # p /\ p \notin m.text
      /\ p \notin Indexed /\ p \notin accepted /\ p \notin Waits /\ \A f \in Futures : p \notin Hand(f)
    BY <1>2, Nowhere DEF Unstored, Taken
<1>5. Prompt(p).id = p /\ Prompt(p).text = {p} /\ Prompt(p) \in Messages
    BY NewMessages
<1>6. Append(log, Prompt(p)) \in Seq(Messages) /\ Ordered(Append(log, Prompt(p)), Distinct) /\ log' = Append(log, Prompt(p))
    <2>1. \A m \in Rows : Unlike(m, Prompt(p))
        BY <1>4, <1>5 DEF Unlike
    <2>. QED BY <2>1, NewMessages, Longer DEF Typed, Chains, Rows, Persist
<1>7. Rows' = Rows \cup {Prompt(p)} /\ loaded
    <2>1. ToSet(Append(log, Prompt(p))) = Rows \cup {Prompt(p)}
        BY NewMessages, AppendSet DEF Typed, Rows
    <2>. QED BY <1>1, <1>2, <1>6, <2>1 DEF LoadKept, Unloaded, Rows
<1>8. /\ Waits' = Waits /\ Cached' = Cached /\ Indexed' = Indexed
      /\ \A g \in Futures : Hand(g)' = Hand(g) /\ Found(g)' = Found(g)
    BY <1>3, SameSets
<1>9. ~raced => \E m \in Cached : m.id = p /\ m = Prompt(p)
    <2>1. ASSUME ~raced PROVE \E m \in Cached : m.id = p /\ m.text = {p} /\ m \in Messages
        BY <1>2, <1>4, <2>1, Sets DEF StackKept
    <2>. QED BY <2>1, <1>5 DEF Messages, Prompt, Message
<1>10. /\ Waits \subseteq Prompts /\ Indexed \subseteq Prompts /\ Rows \subseteq Messages /\ Cached \subseteq Messages
      /\ accepted \subseteq Prompts /\ sent \subseteq Prompts /\ Prompts \subseteq Futures /\ Nobody \notin Futures
      /\ \A g \in Futures : Hand(g) \subseteq Prompts /\ Found(g) \subseteq Prompts /\ (hand[g] = <<>> <=> Hand(g) = {})
      /\ \A m \in Messages : m.text \subseteq Prompts
    BY Sets, PromptsAreFutures DEF Typed, Messages
<1>11. Typed'
    BY <1>1, <1>2, <1>3, <1>4, <1>5, <1>6, <1>7, <1>8, <1>9, <1>10 DEF Typed
<1>12. Chains'
    BY <1>1, <1>2, <1>3, <1>4, <1>5, <1>6, <1>7, <1>8, <1>9, <1>10 DEF Chains
<1>13. TableKept'
    BY <1>2, <1>3, <1>4, <1>5, <1>7, <1>8, <1>9, <1>10 DEF TableKept, Unstored, Says
<1>14. IndexKept'
    BY <1>2, <1>3, <1>4, <1>5, <1>7, <1>8, <1>9, <1>10 DEF IndexKept, Stored, Taken, Unstored
<1>15. HandKept'
    BY <1>2, <1>3, <1>4, <1>5, <1>7, <1>8, <1>9, <1>10 DEF HandKept, Stored, Holding
<1>16. LoadKept'
    BY <1>2, <1>3, <1>4, <1>5, <1>7, <1>8, <1>9, <1>10 DEF LoadKept, Unloaded
<1>17. StackKept'
    <2>1. ASSUME ~raced, NEW m \in Cached, m.id = p PROVE m = Prompt(p)
        <3>1. \A n \in Cached : m # n => Unlike(m, n)
            BY <2>1, Once
        <3>. QED BY <1>2, <1>9, <2>1, <3>1 DEF Unlike
    <2>. QED BY <1>2, <1>3, <1>4, <1>5, <1>7, <1>8, <1>10, <2>1 DEF StackKept, Says
<1>18. Apart'
    BY <1>2, <1>3, <1>4, <1>5, <1>7, <1>8, <1>9, <1>10 DEF Apart
<1>19. ComesIn'
    BY <1>2, <1>3, <1>4, <1>5, <1>7, <1>8, <1>9, <1>10 DEF ComesIn, Stored
<1>20. Placed'
    BY <1>2, <1>3, <1>4, <1>5, <1>7, <1>8, <1>9, <1>10 DEF Placed, Taken
<1>21. SentOnce'
    BY <1>2, <1>3, <1>4, <1>5, <1>7, <1>8, <1>9, <1>10 DEF SentOnce, Unstored
<1>. QED BY <1>11, <1>12, <1>13, <1>14, <1>15, <1>16, <1>17, <1>18, <1>19, <1>20, <1>21
-----------------------------------------------------------------------------
(* A loop claims what waits.                                                *)

\* The queue is drained.
LEMMA ClaimKeeps ==
    ASSUME IInv, NEW f \in Futures, Claim(f), run'[f] # "fail"
    PROVE  IInv'
<1>. USE DEF IInv
<1>1. run[f] = "claim" /\ run'[f] \in {"emit", "takeIndex", "merge"}
      /\ \A g \in Futures : run'[g] = run[g] \/ g = f
    BY GotoFacts DEF Claim, RunPcs
<1>2. run' \in [Futures -> RunPcs]
    BY GotoFacts DEF Claim, RunPcs
<1>3. UNCHANGED <<log, index, stack, loaded, latch, slice, found, accepted, sent, raced>>
    BY DEF Claim, disk, bounds
<1>4. waiting' = <<>> /\ hand' = [hand EXCEPT ![f] = waiting] /\ missed' = missed \cup (Waits \ accepted)
      /\ Goto(f, CASE waiting = <<>> -> "emit" [] Len(waiting) = 1 -> "takeIndex" [] OTHER -> "merge")
    BY GotoFacts DEF Claim, RunPcs, Waits
<1>5. /\ hand' \in [Futures -> Seq(Prompts)] /\ waiting' \in Seq(Prompts)
      /\ Ordered(waiting', Differ(Prompts)) /\ \A g \in Futures : Ordered(hand'[g], Differ(Prompts))
    BY <1>4, EmptySeq, SmallSets DEF Typed, Chains
<1>6. /\ hand'[f] = waiting /\ Hand(f)' = Waits /\ Waits' = {} /\ waiting' = <<>> /\ missed' = missed \cup (Waits \ accepted)
      /\ \A g \in Futures : g # f => hand'[g] = hand[g] /\ Hand(g)' = Hand(g)
    BY <1>4, SmallSets DEF Typed, Hand, Waits
<1>7. /\ waiting = <<>> <=> run'[f] = "emit"
      /\ run'[f] = "takeIndex" => Len(waiting) = 1
      /\ loaded
    <2>1. Len(<<>>) = 0 /\ loaded
        BY <1>1 DEF LoadKept, Unloaded
    <2>. QED BY <1>4, <2>1, GotoFacts DEF RunPcs
<1>8. Hand(f) = {} /\ hand[f] = <<>>
    BY <1>1, Sets DEF HandKept, Holding
<1>9. /\ Rows' = Rows /\ Cached' = Cached /\ Indexed' = Indexed
      /\ \A g \in Futures : Found(g)' = Found(g) /\ found'[g] = found[g]
    BY <1>3, SameSets
<1>10. /\ Waits \subseteq Prompts /\ Indexed \subseteq Prompts /\ Rows \subseteq Messages /\ Cached \subseteq Messages
      /\ accepted \subseteq Prompts /\ sent \subseteq Prompts /\ Prompts \subseteq Futures /\ Nobody \notin Futures
      /\ \A g \in Futures : Hand(g) \subseteq Prompts /\ Found(g) \subseteq Prompts /\ (hand[g] = <<>> <=> Hand(g) = {})
      /\ \A m \in Messages : m.text \subseteq Prompts
    BY Sets, PromptsAreFutures DEF Typed, Messages
<1>11. Typed'
    BY <1>1, <1>2, <1>3, <1>4, <1>5, <1>6, <1>7, <1>8, <1>9, <1>10 DEF Typed
<1>12. Chains'
    BY <1>1, <1>2, <1>3, <1>4, <1>5, <1>6, <1>7, <1>8, <1>9, <1>10 DEF Chains
<1>13. TableKept'
    BY <1>1, <1>3, <1>6, <1>7, <1>8, <1>9, <1>10 DEF TableKept, Unstored
<1>14. IndexKept'
    BY <1>1, <1>3, <1>6, <1>7, <1>8, <1>9, <1>10 DEF IndexKept, Stored, Taken
<1>15. HandKept'
    BY <1>1, <1>3, <1>6, <1>7, <1>8, <1>9, <1>10 DEF HandKept, Stored, Holding
<1>16. LoadKept'
    BY <1>1, <1>3, <1>6, <1>7, <1>8, <1>9, <1>10 DEF LoadKept, Unloaded
<1>17. StackKept'
    BY <1>1, <1>3, <1>6, <1>7, <1>8, <1>9, <1>10 DEF StackKept
<1>18. Apart'
    BY <1>1, <1>3, <1>6, <1>7, <1>8, <1>9, <1>10 DEF Apart
<1>19. ComesIn'
    BY <1>1, <1>3, <1>6, <1>7, <1>8, <1>9, <1>10 DEF ComesIn, Stored, TableKept, Unstored
<1>20. Placed'
    BY <1>1, <1>3, <1>6, <1>7, <1>8, <1>9, <1>10 DEF Placed, Taken
<1>21. SentOnce'
    BY <1>1, <1>3, <1>6, <1>7, <1>8, <1>9, <1>10 DEF SentOnce, Unstored
<1>. QED BY <1>11, <1>12, <1>13, <1>14, <1>15, <1>16, <1>17, <1>18, <1>19, <1>20, <1>21

\* A single claim deletes its index row, or passes over the prompt.
LEMMA TakeIndexKeeps ==
    ASSUME IInv, NEW f \in Futures, TakeIndex(f)
    PROVE  IInv'
<1>. USE DEF IInv
<1>1. /\ run[f] = "takeIndex"
      /\ \A g \in Futures : \/ run'[g] = run[g] /\ g # f
                            \/ run[g] = "takeIndex" /\ run'[g] \in {"push", "emit"} /\ g = f
    BY GotoFacts DEF TakeIndex, RunPcs
<1>2. run' \in [Futures -> RunPcs]
    BY GotoFacts DEF TakeIndex, RunPcs
<1>3. UNCHANGED <<log, stack, waiting, loaded, latch, slice, found, accepted, sent, raced>>
    BY DEF TakeIndex, session, bounds
<1>4. PICK p \in Prompts : p = Head(hand[f]) /\ Hand(f) = {p} /\ hand[f] # <<>> /\ Len(hand[f]) = 1
    BY <1>1, Sets DEF HandKept
<1>5. \/ p \in Indexed /\ index' = Kept(index, Prompts \ {p}) /\ run'[f] = "push" /\ UNCHANGED <<hand, missed>>
      \/ /\ p \notin Indexed /\ hand' = [hand EXCEPT ![f] = <<>>] /\ missed' = missed \cup {p} \cup Said({p})
         /\ run'[f] = "emit" /\ UNCHANGED index
    BY <1>4, GotoFacts DEF TakeIndex, Indexed, RunPcs
<1>6. Said({p}) \subseteq Prompts /\ \A m \in Rows : m.id = p => m.text \subseteq Said({p})
    <2>1. Said({p}) = UNION {m.text : m \in {r \in Rows : r.id = p}}
        BY DEF Said, Rows
    <2>. QED BY <2>1, Sets DEF Messages
<1>7. /\ index' \in Seq(Prompts) /\ Ordered(index', Differ(Prompts)) /\ missed' \subseteq Prompts
      /\ hand' \in [Futures -> Seq(Prompts)] /\ \A g \in Futures : Ordered(hand'[g], Differ(Prompts))
    <2>1. index' \in Seq(Prompts) /\ Ordered(index', Differ(Prompts))
        BY <1>5, Shorter DEF Typed, Chains
    <2>2. /\ missed' \subseteq Prompts
          /\ hand' \in [Futures -> Seq(Prompts)] /\ \A g \in Futures : Ordered(hand'[g], Differ(Prompts))
        <3>1. <<>> \in Seq(Prompts) /\ \A R : Ordered(<<>>, R)
            BY EmptySeq, SmallSets
        <3>2. missed \subseteq Prompts /\ hand \in [Futures -> Seq(Prompts)]
              /\ \A g \in Futures : Ordered(hand[g], Differ(Prompts))
            BY DEF Typed, Chains
        <3>. QED BY <1>5, <1>6, <3>1, <3>2
    <2>. QED BY <2>1, <2>2
<1>8. /\ \A g \in Futures : g # f => hand'[g] = hand[g] /\ Hand(g)' = Hand(g)
      /\ \/ Indexed' = Indexed \ {p} /\ run'[f] = "push" /\ missed' = missed /\ hand'[f] = hand[f] /\ Hand(f)' = Hand(f)
         \/ /\ Indexed' = Indexed /\ run'[f] = "emit" /\ missed' = missed \cup {p} \cup Said({p})
            /\ hand'[f] = <<>> /\ Hand(f)' = {}
    <2>1. \A g \in Futures : g # f => hand'[g] = hand[g] /\ Hand(g)' = Hand(g)
        BY <1>5, SameSets DEF Typed
    <2>2. CASE p \in Indexed
        <3>1. ToSet(Kept(index, Prompts \ {p})) = Indexed \cap (Prompts \ {p})
            BY Shorter DEF Typed, Chains, Indexed
        <3>2. Indexed' = Indexed \cap (Prompts \ {p})
            BY <1>5, <2>2, <3>1 DEF Indexed
        <3>. QED BY <1>5, <2>1, <2>2, <3>2, Sets, SameSets
    <2>3. CASE p \notin Indexed
        BY <1>5, <2>1, <2>3, SameSets DEF Typed
    <2>. QED BY <2>2, <2>3
<1>9. /\ Rows' = Rows /\ Cached' = Cached /\ Waits' = Waits /\ loaded
      /\ \A g \in Futures : Found(g)' = Found(g) /\ found'[g] = found[g]
    BY <1>1, <1>3, SameSets DEF LoadKept, Unloaded
<1>10. /\ Waits \subseteq Prompts /\ Indexed \subseteq Prompts /\ Rows \subseteq Messages /\ Cached \subseteq Messages
      /\ accepted \subseteq Prompts /\ sent \subseteq Prompts /\ Prompts \subseteq Futures /\ Nobody \notin Futures
      /\ \A g \in Futures : Hand(g) \subseteq Prompts /\ Found(g) \subseteq Prompts /\ (hand[g] = <<>> <=> Hand(g) = {})
      /\ \A m \in Messages : m.text \subseteq Prompts
    BY Sets, PromptsAreFutures DEF Typed, Messages
<1>11. Typed'
    BY <1>1, <1>2, <1>3, <1>4, <1>5, <1>6, <1>7, <1>8, <1>9, <1>10 DEF Typed
<1>12. Chains'
    BY <1>1, <1>2, <1>3, <1>4, <1>5, <1>6, <1>7, <1>8, <1>9, <1>10 DEF Chains
<1>13. TableKept'
    BY <1>1, <1>3, <1>4, <1>6, <1>8, <1>9, <1>10 DEF TableKept, Unstored
<1>14. IndexKept'
    BY <1>1, <1>3, <1>4, <1>6, <1>8, <1>9, <1>10 DEF IndexKept, Stored, Taken
<1>15. HandKept'
    BY <1>1, <1>3, <1>4, <1>6, <1>8, <1>9, <1>10 DEF HandKept, Stored, Holding
<1>16. LoadKept'
    BY <1>1, <1>3, <1>4, <1>6, <1>8, <1>9, <1>10 DEF LoadKept, Unloaded
<1>17. StackKept'
    BY <1>1, <1>3, <1>4, <1>6, <1>8, <1>9, <1>10 DEF StackKept
<1>18. Apart'
    BY <1>1, <1>3, <1>4, <1>6, <1>8, <1>9, <1>10 DEF Apart
<1>19. ComesIn'
    BY <1>1, <1>3, <1>4, <1>6, <1>8, <1>9, <1>10 DEF ComesIn, Stored
<1>20. Placed'
    <2>1. SUFFICES ASSUME ~raced, NEW q \in accepted, q \notin missed'
          PROVE  \/ \E m \in Cached : q \in m.text
                 \/ \E m \in Rows : q \in m.text /\ Taken(m.id)'
        BY <1>3, <1>9 DEF Placed
    <2>2. q \notin missed
        BY <1>8, <2>1
    <2>3. CASE \E m \in Cached : q \in m.text
        BY <2>3
    <2>4. ASSUME NEW m \in Rows, q \in m.text, Taken(m.id) PROVE Taken(m.id)'
        <3>1. m.id # p \/ Hand(f)' = Hand(f)
            BY <1>6, <1>8, <2>1, <2>4
        <3>. QED BY <1>4, <1>8, <1>9, <2>4, <3>1 DEF Taken
    <2>. QED BY <1>9, <2>1, <2>2, <2>3, <2>4 DEF Placed
<1>21. SentOnce'
    BY <1>1, <1>3, <1>4, <1>6, <1>8, <1>9, <1>10 DEF SentOnce, Unstored
<1>. QED BY <1>11, <1>12, <1>13, <1>14, <1>15, <1>16, <1>17, <1>18, <1>19, <1>20, <1>21
\* The message of prompt k gets another text.
Rewrite(s, k, text) == [i \in DOMAIN s |-> IF s[i].id = k THEN Message(k, text) ELSE s[i]]

\* It stays a chain when that text repeats nothing else.
LEMMA Rewritten ==
    ASSUME NEW s \in Seq(Messages), Ordered(s, Distinct), NEW k \in Prompts, NEW text \in SUBSET Prompts,
           \E m \in ToSet(s) : m.id = k,
           \A m \in ToSet(s) : m.id # k => m.text \cap text = {}
    PROVE  /\ Rewrite(s, k, text) \in Seq(Messages) /\ Ordered(Rewrite(s, k, text), Distinct)
           /\ ToSet(Rewrite(s, k, text)) = {m \in ToSet(s) : m.id # k} \cup {Message(k, text)}
<1>. DEFINE n == Message(k, text)
            t == Rewrite(s, k, text)
<1>0. /\ n \in Messages /\ n.id = k /\ (\A m \in ToSet(s) : m.id # k => m.text \cap n.text = {})
      /\ t = [i \in DOMAIN s |-> IF s[i].id = k THEN n ELSE s[i]]
    BY DEF Message, Messages, Rewrite
<1>. HIDE DEF n, t
<1>1. /\ Len(s) \in Nat /\ DOMAIN s = 1..Len(s) /\ \A i \in 1..Len(s) : s[i] \in Messages /\ s[i] \in ToSet(s)
      /\ ToSet(s) = {s[i] : i \in 1..Len(s)}
    BY LenProperties DEF ToSet
<1>2. /\ t \in Seq(Messages) /\ Len(t) = Len(s) /\ DOMAIN t = 1..Len(s)
      /\ \A i \in 1..Len(s) : t[i] = IF s[i].id = k THEN n ELSE s[i]
    BY <1>0, <1>1
<1>3. ASSUME NEW i \in 1..Len(s), NEW j \in 1..Len(s), i < j PROVE <<t[i], t[j]>> \in Distinct
    <2>1. <<s[i], s[j]>> \in Distinct /\ s[i] \in Messages /\ s[j] \in Messages
        BY <1>1, <1>3 DEF Ordered
    <2>2. (s[i].id = s[j].id => s[i].id \notin Prompts) /\ s[i].text \cap s[j].text = {}
        BY <2>1 DEF Distinct, Unlike
    <2>3. Unlike(t[i], t[j]) /\ t[i] \in Messages /\ t[j] \in Messages
        BY <1>0, <1>1, <1>2, <2>1, <2>2 DEF Unlike
    <2>. QED BY <2>3 DEF Distinct
<1>4. Ordered(t, Distinct)
    BY <1>2, <1>3 DEF Ordered
<1>5. ToSet(t) = {t[i] : i \in 1..Len(s)}
    BY <1>2 DEF ToSet
<1>6. \A m \in ToSet(t) : m = n \/ (m \in ToSet(s) /\ m.id # k)
    BY <1>1, <1>2, <1>5
<1>7. n \in ToSet(t)
    BY <1>1, <1>2, <1>5
<1>8. \A m \in ToSet(s) : m.id # k => m \in ToSet(t)
    BY <1>1, <1>2, <1>5
<1>. QED BY <1>2, <1>4, <1>6, <1>7, <1>8 DEF n, t

\* What a merge does to the table: the keeper's row says what all of them said.
LEMMA MergedTable ==
    ASSUME Typed, Chains, NEW R \in SUBSET Prompts, NEW k \in Prompts, k \in R,
           \A p \in R : Stored(p), \A m \in Rows : Says(m),
           log' = Rewrite(Without(log, R \ {k}), k, Said(R))
    PROVE  /\ log' \in Seq(Messages) /\ Ordered(log', Distinct)
           /\ \E new \in Messages :
                 /\ new.id = k
                 /\ Rows' = {m \in Rows : m.id \notin R} \cup {new}
                 /\ k \in new.text
                 /\ \A p \in new.text : \E m \in Rows : m.id \in R /\ p \in m.text
                 /\ \A m \in Rows : m.id \in R => m.text \subseteq new.text
<1>. DEFINE text == Said(R)
            left == Without(log, R \ {k})
<1>0. log' = Rewrite(left, k, text)
    OBVIOUS
<1>1. text = UNION {m.text : m \in {r \in Rows : r.id \in R}}
    BY DEF Said, Rows
<1>2. Rows \subseteq Messages /\ \A m \in Messages : m.text \subseteq Prompts
    BY Sets DEF Messages
<1>. HIDE DEF text
<1>3. /\ \A p \in text : \E m \in Rows : m.id \in R /\ p \in m.text
      /\ \A m \in Rows : m.id \in R => m.text \subseteq text
    BY <1>1
<1>4. k \in text
    BY <1>3 DEF Stored, Says
<1>5. /\ Message(k, text) \in Messages /\ Message(k, text).id = k /\ Message(k, text).text = text
    BY <1>2, <1>3 DEF Message, Messages
<1>6. left \in Seq(Messages) /\ ToSet(left) = {m \in Rows : m.id \notin R \ {k}} /\ Ordered(left, Distinct)
    BY WithoutMessages DEF Typed, Chains, Rows
<1>. HIDE DEF left
<1>7. \E m \in ToSet(left) : m.id = k
    BY <1>6 DEF Stored
<1>8. ASSUME NEW m \in ToSet(left), m.id # k PROVE m.text \cap text = {}
    <2>1. m \in Rows /\ m.id \notin R
        BY <1>6, <1>8
    <2>2. \A n \in Rows : n.id \in R => m.text \cap n.text = {}
        BY <2>1, Once DEF Unlike
    <2>. QED BY <1>3, <2>2
<1>9. /\ log' \in Seq(Messages) /\ Ordered(log', Distinct)
      /\ ToSet(log') = {m \in ToSet(left) : m.id # k} \cup {Message(k, text)}
    <2>1. text \in SUBSET Prompts
        BY <1>2, <1>3
    <2>2. \A m \in ToSet(left) : m.id # k => m.text \cap text = {}
        BY <1>8
    <2>3. /\ Rewrite(left, k, text) \in Seq(Messages) /\ Ordered(Rewrite(left, k, text), Distinct)
          /\ ToSet(Rewrite(left, k, text)) = {m \in ToSet(left) : m.id # k} \cup {Message(k, text)}
        BY <1>6, <1>7, <2>1, <2>2, Rewritten
    <2>. QED BY <1>0, <2>3
<1>10. Rows' = {m \in Rows : m.id \notin R} \cup {Message(k, text)}
    BY <1>6, <1>9 DEF Rows
<1>. QED BY <1>3, <1>4, <1>5, <1>9, <1>10

\* The three cases of a merge.
LEMMA MergeCases ==
    ASSUME NEW f \in Futures, Merge(f), NEW rows, rows = Kept(hand[f], Ids(log))
    PROVE  /\ run[f] = "merge" /\ hand' = [hand EXCEPT ![f] = rows]
           /\ UNCHANGED <<stack, waiting, loaded, latch, slice, found, accepted, sent, missed, raced>>
           /\ \/ /\ Len(rows) > 1 /\ Goto(f, "push") /\ index' = Kept(index, Prompts \ ToSet(rows))
                 /\ log' = Rewrite(Without(log, ToSet(Tail(rows))), Head(rows), Said(ToSet(rows)))
              \/ Len(rows) = 1 /\ Goto(f, "takeIndex") /\ UNCHANGED <<log, index>>
              \/ Len(rows) = 0 /\ Goto(f, "emit") /\ UNCHANGED <<log, index>>
BY DEF Merge, Rewrite, session, history

\* Several prompts are merged into the first one's row.
LEMMA MergeKeeps ==
    ASSUME IInv, NEW f \in Futures, Merge(f), Len(Kept(hand[f], Ids(log))) > 1
    PROVE  IInv'
<1>. USE DEF IInv
<1>1. PICK rows \in Seq(Prompts) : rows = Kept(hand[f], Ids(log)) /\ Len(rows) > 1
    BY Shorter DEF Typed, Chains
<1>2. /\ run[f] = "merge" /\ Goto(f, "push") /\ hand' = [hand EXCEPT ![f] = rows]
      /\ index' = Kept(index, Prompts \ ToSet(rows))
      /\ log' = Rewrite(Without(log, ToSet(Tail(rows))), Head(rows), Said(ToSet(rows)))
    <2>1. ~(1 > 1) /\ ~(0 > 1)
        OBVIOUS
    <2>. QED BY <1>1, <2>1, MergeCases, Zenon
<1>3. UNCHANGED <<stack, waiting, loaded, latch, slice, found, accepted, sent, missed, raced>>
    BY <1>1, MergeCases
<1>4. run' \in [Futures -> RunPcs]
    BY <1>2, GotoFacts DEF RunPcs
<1>5. /\ run[f] = "merge" /\ loaded
      /\ \A g \in Futures : \/ run'[g] = run[g] /\ g # f
                            \/ run[g] = "merge" /\ run'[g] = "push" /\ g = f
    BY <1>2, GotoFacts DEF RunPcs, LoadKept, Unloaded
<1>6. /\ ToSet(rows) = Hand(f) \cap Ids(log) /\ Ordered(rows, Differ(Prompts))
      /\ rows # <<>> /\ Head(rows) \in ToSet(rows) /\ ToSet(rows) \subseteq Prompts
    <2>1. ToSet(rows) = Hand(f) \cap Ids(log) /\ Ordered(rows, Differ(Prompts))
        BY <1>1, Shorter DEF Typed, Chains, Hand
    <2>2. rows # <<>>
        BY <1>1
    <2>. QED BY <2>1, <2>2, SmallSets
<1>7. PICK R \in SUBSET Prompts, k \in Prompts : k \in R /\ R = ToSet(rows) /\ k = Head(rows) /\ R = {p \in Hand(f) : Stored(p)}
    <2>1. \A p \in Prompts : p \in Ids(log) <=> Stored(p)
        BY DEF Ids, Stored, Rows
    <2>. QED BY <1>6, <2>1, Sets
<1>8. ToSet(Tail(rows)) = R \ {k}
    BY <1>6, <1>7, HeadAndTail
<1>9. /\ log' \in Seq(Messages) /\ Ordered(log', Distinct)
      /\ \E new \in Messages :
            /\ new.id = k
            /\ Rows' = {m \in Rows : m.id \notin R} \cup {new}
            /\ k \in new.text
            /\ \A p \in new.text : \E m \in Rows : m.id \in R /\ p \in m.text
            /\ \A m \in Rows : m.id \in R => m.text \subseteq new.text
    <2>1. log' = Rewrite(Without(log, R \ {k}), k, Said(R))
        BY <1>2, <1>7, <1>8
    <2>2. (\A p \in R : Stored(p)) /\ \A m \in Rows : Says(m)
        BY <1>7 DEF TableKept
    <2>. QED BY <1>7, <2>1, <2>2, MergedTable
<1>10. PICK new \in Messages :
            /\ new.id = k
            /\ Rows' = {m \in Rows : m.id \notin R} \cup {new}
            /\ k \in new.text
            /\ \A p \in new.text : \E m \in Rows : m.id \in R /\ p \in m.text
            /\ \A m \in Rows : m.id \in R => m.text \subseteq new.text
    BY <1>9
<1>11. /\ index' \in Seq(Prompts) /\ Ordered(index', Differ(Prompts)) /\ ToSet(index') = Indexed \ R
       /\ hand' \in [Futures -> Seq(Prompts)] /\ \A g \in Futures : Ordered(hand'[g], Differ(Prompts))
    <2>1. index' \in Seq(Prompts) /\ Ordered(index', Differ(Prompts)) /\ ToSet(index') = Indexed \cap (Prompts \ R)
        BY <1>2, <1>7, Shorter DEF Typed, Chains, Indexed
    <2>2. hand' \in [Futures -> Seq(Prompts)] /\ \A g \in Futures : Ordered(hand'[g], Differ(Prompts))
        BY <1>2, <1>6 DEF Typed, Chains
    <2>. QED BY <2>1, <2>2, Sets
<1>12. /\ Indexed' = Indexed \ R /\ hand'[f] # <<>> /\ Head(hand'[f]) = k /\ Hand(f)' = R
       /\ \A g \in Futures : g # f => hand'[g] = hand[g] /\ Hand(g)' = Hand(g)
    BY <1>2, <1>6, <1>7, <1>11 DEF Typed, Hand, Indexed
<1>13. /\ Cached' = Cached /\ Waits' = Waits
       /\ \A g \in Futures : Found(g)' = Found(g) /\ found'[g] = found[g]
    BY <1>3, SameSets
<1>14. /\ Waits \subseteq Prompts /\ Indexed \subseteq Prompts /\ Rows \subseteq Messages /\ Cached \subseteq Messages
      /\ accepted \subseteq Prompts /\ sent \subseteq Prompts /\ Prompts \subseteq Futures /\ Nobody \notin Futures
      /\ \A g \in Futures : Hand(g) \subseteq Prompts /\ Found(g) \subseteq Prompts /\ (hand[g] = <<>> <=> Hand(g) = {})
      /\ \A m \in Messages : m.text \subseteq Prompts
    BY Sets, PromptsAreFutures DEF Typed, Messages
<1>15. Typed'
    BY <1>1, <1>2, <1>3, <1>4, <1>5, <1>6, <1>7, <1>8, <1>9, <1>10, <1>11, <1>12, <1>13, <1>14 DEF Typed
<1>16. Chains'
    BY <1>1, <1>2, <1>3, <1>4, <1>5, <1>6, <1>7, <1>8, <1>9, <1>10, <1>11, <1>12, <1>13, <1>14 DEF Chains
<1>17. TableKept'
    BY <1>3, <1>5, <1>7, <1>8, <1>10, <1>12, <1>13, <1>14 DEF TableKept, Unstored, Says
<1>18. IndexKept'
    BY <1>3, <1>5, <1>7, <1>8, <1>10, <1>12, <1>13, <1>14 DEF IndexKept, Stored, Taken
<1>19. HandKept'
    BY <1>3, <1>5, <1>7, <1>8, <1>10, <1>12, <1>13, <1>14 DEF HandKept, Stored, Holding, TableKept, Unstored, Says
<1>20. LoadKept'
    BY <1>3, <1>5, <1>7, <1>8, <1>10, <1>12, <1>13, <1>14 DEF LoadKept, Unloaded
<1>21. StackKept'
    BY <1>3, <1>5, <1>7, <1>8, <1>10, <1>12, <1>13, <1>14 DEF StackKept, Apart
<1>22. Apart'
    BY <1>3, <1>5, <1>7, <1>8, <1>10, <1>12, <1>13, <1>14 DEF Apart
<1>23. ComesIn'
    BY <1>3, <1>5, <1>7, <1>8, <1>10, <1>12, <1>13, <1>14 DEF ComesIn, Stored, Apart
<1>24. Placed'
    <2>1. SUFFICES ASSUME ~raced, NEW q \in accepted, q \notin missed
          PROVE  \/ \E m \in Cached : q \in m.text
                 \/ \E m \in Rows' : q \in m.text /\ Taken(m.id)'
        BY <1>3, <1>13 DEF Placed
    <2>2. CASE \E m \in Cached : q \in m.text
        BY <2>2
    <2>3. ASSUME NEW m \in Rows, q \in m.text, Taken(m.id) PROVE \E n \in Rows' : q \in n.text /\ Taken(n.id)'
        <3>1. CASE m.id \in R
            BY <1>7, <1>10, <1>12, <2>3, <3>1 DEF Taken
        <3>2. CASE m.id \notin R
            <4>1. m.id \notin Hand(f)
                BY <1>7, <2>3, <3>2 DEF Stored
            <4>2. m \in Rows' /\ Taken(m.id)'
                BY <1>10, <1>12, <1>13, <2>3, <3>2, <4>1 DEF Taken
            <4>. QED BY <2>3, <4>2
        <3>. QED BY <3>1, <3>2
    <2>. QED BY <1>5, <2>1, <2>2, <2>3 DEF Placed
<1>25. SentOnce'
    BY <1>3, <1>5, <1>7, <1>8, <1>10, <1>12, <1>13, <1>14 DEF SentOnce, Unstored
<1>. QED BY <1>15, <1>16, <1>17, <1>18, <1>19, <1>20, <1>21, <1>22, <1>23, <1>24, <1>25

\* Nothing is merged when at most one prompt is stored.
LEMMA FewKeeps ==
    ASSUME IInv, NEW f \in Futures, Merge(f), ~(Len(Kept(hand[f], Ids(log))) > 1)
    PROVE  IInv'
<1>. USE DEF IInv
<1>1. PICK rows \in Seq(Prompts) : rows = Kept(hand[f], Ids(log)) /\ ~(Len(rows) > 1)
    BY Shorter DEF Typed, Chains
<1>2. /\ run[f] = "merge" /\ hand' = [hand EXCEPT ![f] = rows]
      /\ \/ Len(rows) = 1 /\ Goto(f, "takeIndex")
         \/ Len(rows) = 0 /\ Goto(f, "emit")
    BY <1>1, MergeCases, Zenon
<1>3. UNCHANGED <<log, index, stack, waiting, loaded, latch, slice, found, accepted, sent, missed, raced>>
    BY <1>1, MergeCases
<1>4. run' \in [Futures -> RunPcs]
    BY <1>2, GotoFacts DEF RunPcs
<1>5. /\ run[f] = "merge" /\ loaded
      /\ \A g \in Futures : \/ run'[g] = run[g] /\ g # f
                            \/ run[g] = "merge" /\ run'[g] \in {"takeIndex", "emit"} /\ g = f
    BY <1>2, GotoFacts DEF RunPcs, LoadKept, Unloaded
<1>6. /\ ToSet(rows) = Hand(f) \cap Ids(log) /\ hand'[f] = rows
      /\ hand' \in [Futures -> Seq(Prompts)] /\ \A g \in Futures : Ordered(hand'[g], Differ(Prompts))
    <2>1. ToSet(rows) = Hand(f) \cap Ids(log) /\ Ordered(rows, Differ(Prompts))
        BY <1>1, Shorter DEF Typed, Chains, Hand
    <2>. QED BY <1>2, <2>1 DEF Typed, Chains
<1>7. /\ Hand(f)' = {p \in Hand(f) : Stored(p)}
      /\ \A g \in Futures : g # f => hand'[g] = hand[g] /\ Hand(g)' = Hand(g)
    <2>1. \A p \in Prompts : p \in Ids(log) <=> Stored(p)
        BY DEF Ids, Stored, Rows
    <2>. QED BY <1>2, <1>6, <2>1, Sets DEF Typed, Hand
<1>8. hand'[f] # <<>> <=> run'[f] = "takeIndex"
    <2>1. (rows = <<>> <=> Len(rows) = 0) /\ Len(rows) \in Nat
        BY <1>1, EmptySeq, LenProperties
    <2>2. Goto(f, "takeIndex") => run'[f] = "takeIndex"
        BY GotoFacts DEF RunPcs
    <2>3. Goto(f, "emit") => run'[f] = "emit"
        BY GotoFacts DEF RunPcs
    <2>4. CASE Len(rows) = 1 /\ Goto(f, "takeIndex")
        <3>1. rows # <<>>
            BY <2>1, <2>4
        <3>. QED BY <1>6, <2>2, <2>4, <3>1, Zenon
    <2>5. CASE Len(rows) = 0 /\ Goto(f, "emit")
        <3>1. "takeIndex" # "emit" /\ rows = <<>>
            BY <2>1, <2>5
        <3>. QED BY <1>6, <2>3, <2>5, <3>1, Zenon
    <2>. QED BY <1>2, <2>4, <2>5
<1>9. run'[f] = "takeIndex" => Len(hand'[f]) = 1
    BY <1>2, <1>6, GotoFacts DEF RunPcs
<1>10. /\ Rows' = Rows /\ Indexed' = Indexed /\ Cached' = Cached /\ Waits' = Waits
       /\ \A g \in Futures : Found(g)' = Found(g) /\ found'[g] = found[g]
    BY <1>3, SameSets
<1>11. /\ Waits \subseteq Prompts /\ Indexed \subseteq Prompts /\ Rows \subseteq Messages /\ Cached \subseteq Messages
      /\ accepted \subseteq Prompts /\ sent \subseteq Prompts /\ Prompts \subseteq Futures /\ Nobody \notin Futures
      /\ \A g \in Futures : Hand(g) \subseteq Prompts /\ Found(g) \subseteq Prompts /\ (hand[g] = <<>> <=> Hand(g) = {})
      /\ \A m \in Messages : m.text \subseteq Prompts
    BY Sets, PromptsAreFutures DEF Typed, Messages
<1>12. Typed'
    BY <1>1, <1>2, <1>3, <1>4, <1>5, <1>6, <1>7, <1>8, <1>9, <1>10, <1>11 DEF Typed
<1>13. Chains'
    BY <1>1, <1>2, <1>3, <1>4, <1>5, <1>6, <1>7, <1>8, <1>9, <1>10, <1>11 DEF Chains
<1>14. TableKept'
    BY <1>3, <1>5, <1>7, <1>8, <1>9, <1>10, <1>11 DEF TableKept, Unstored, Says
<1>15. IndexKept'
    BY <1>3, <1>5, <1>7, <1>8, <1>9, <1>10, <1>11 DEF IndexKept, Stored, Taken
<1>16. HandKept'
    BY <1>3, <1>5, <1>7, <1>8, <1>9, <1>10, <1>11 DEF HandKept, Stored, Holding
<1>17. LoadKept'
    BY <1>3, <1>5, <1>7, <1>8, <1>9, <1>10, <1>11 DEF LoadKept, Unloaded
<1>18. StackKept'
    BY <1>3, <1>5, <1>7, <1>8, <1>9, <1>10, <1>11 DEF StackKept
<1>19. Apart'
    BY <1>3, <1>5, <1>7, <1>8, <1>9, <1>10, <1>11 DEF Apart
<1>20. ComesIn'
    BY <1>3, <1>5, <1>7, <1>8, <1>9, <1>10, <1>11 DEF ComesIn, Stored
<1>21. Placed'
    BY <1>3, <1>5, <1>7, <1>8, <1>9, <1>10, <1>11 DEF Placed, Taken, Stored
<1>22. SentOnce'
    BY <1>3, <1>5, <1>7, <1>8, <1>9, <1>10, <1>11 DEF SentOnce, Unstored
<1>. QED BY <1>12, <1>13, <1>14, <1>15, <1>16, <1>17, <1>18, <1>19, <1>20, <1>21, <1>22

\* A merge takes the rows of prompts that were claimed.
LEMMA MergedAway ==
    ASSUME IInv, NEW f \in Futures, Merge(f)
    PROVE  \A p \in Prompts : Stored(p) => Stored(p)' \/ p \in Hand(f)
<1>. USE DEF IInv
<1>1. PICK rows \in Seq(Prompts) : rows = Kept(hand[f], Ids(log))
    BY Shorter DEF Typed, Chains
<1>2. ToSet(rows) = Hand(f) \cap Ids(log) /\ Ordered(rows, Differ(Prompts))
    BY <1>1, Shorter DEF Typed, Chains, Hand
<1>3. CASE UNCHANGED log
    BY <1>3, SameSets DEF Stored
<1>4. CASE Len(rows) > 1 /\ log' = Rewrite(Without(log, ToSet(Tail(rows))), Head(rows), Said(ToSet(rows)))
    <2>1. rows # <<>>
        BY <1>4
    <2>2. ToSet(Tail(rows)) = ToSet(rows) \ {Head(rows)} /\ Head(rows) \in ToSet(rows) /\ ToSet(rows) \subseteq Prompts
        BY <1>1, <1>2, <2>1, HeadAndTail, SmallSets
    <2>3. PICK R \in SUBSET Prompts, k \in Prompts : k \in R /\ R = ToSet(rows) /\ k = Head(rows)
        BY <2>2
    <2>4. log' = Rewrite(Without(log, R \ {k}), k, Said(R))
        BY <1>4, <2>2, <2>3
    <2>5. (\A p \in R : Stored(p)) /\ \A m \in Rows : Says(m)
        BY <1>2, <2>3 DEF TableKept, Ids, Stored, Rows
    <2>6. PICK new : Rows' = {m \in Rows : m.id \notin R} \cup {new}
        BY <2>3, <2>4, <2>5, MergedTable
    <2>. QED BY <1>2, <2>3, <2>6 DEF Stored
<1>. QED BY <1>1, <1>3, <1>4, MergeCases
-----------------------------------------------------------------------------
(* What was claimed reaches the stack and the LLM.                          *)

\* What a push does to the stack: the row of the claimed prompt is added, or
\* there is none to add.
LEMMA PushedStack ==
    ASSUME IInv, NEW f \in Futures, run[f] = "push", NEW p \in Prompts, p \in Hand(f),
           stack' = IF p \in Ids(log) \ Ids(stack) THEN Append(stack, RowOf(p)) ELSE stack
    PROVE  /\ stack' \in Seq(Messages) /\ (~raced => Ordered(stack', Distinct))
           /\ \/ Cached' = Cached /\ (~raced => ~Stored(p))
              \/ \E r \in Rows : r.id = p /\ Cached' = Cached \cup {r}
<1>. USE DEF IInv
<1>1. /\ p \in Ids(log) <=> Stored(p)
      /\ p \in Ids(stack) <=> \E m \in Cached : m.id = p
    BY DEF Ids, Stored, Rows, Cached
<1>2. CASE p \in Ids(log) \ Ids(stack)
    <2>1. PICK r \in Messages : r = RowOf(p) /\ r \in Rows /\ r.id = p
        BY <1>1, <1>2, Sets DEF RowOf, Stored, Rows
    <2>2. \A m \in Cached : m.id # p
        BY <1>1, <1>2
    <2>3. Append(stack, r) \in Seq(Messages) /\ ToSet(Append(stack, r)) = Cached \cup {r}
        BY AppendSet DEF Typed, Cached
    <2>4. ASSUME ~raced PROVE Ordered(Append(stack, r), Distinct)
        <3>1. ASSUME NEW m \in Cached PROVE Unlike(m, r)
            <4>1. CASE m \in Rows
                BY <2>1, <2>2, <4>1, Once
            <4>2. CASE m.id \notin Prompts
                BY <2>4, <4>2 DEF StackKept, Says, Unlike
            <4>3. CASE run[m.id] = "persist" /\ m.text = {m.id} /\ m.id \in Prompts
                BY <2>1, <2>2, <4>3 DEF TableKept, Unstored, Unlike
            <4>. QED BY <2>4, <4>1, <4>2, <4>3 DEF StackKept
        <3>. QED BY <2>4, <3>1, Longer DEF Typed, Chains, Cached
    <2>5. stack' = Append(stack, r)
        BY <1>2, <2>1
    <2>6. Cached' = Cached \cup {r}
        BY <2>3, <2>5 DEF Cached
    <2>. QED BY <2>1, <2>3, <2>4, <2>5, <2>6
<1>3. CASE p \notin Ids(log) \ Ids(stack)
    <2>1. stack' = stack
        BY <1>3
    <2>2. ~raced => \A m \in Cached : m.id # p
        BY DEF Apart
    <2>. QED BY <1>1, <1>3, <2>1, <2>2, SameSets DEF Typed, Chains
<1>. QED BY <1>2, <1>3

\* The claimed message reaches the stack.
LEMMA PushKeeps ==
    ASSUME IInv, NEW f \in Futures, Push(f)
    PROVE  IInv'
<1>. USE DEF IInv
<1>1. /\ run[f] = "push" /\ run' \in [Futures -> RunPcs]
      /\ \A g \in Futures : \/ run'[g] = run[g] /\ g # f
                            \/ run[g] = "push" /\ run'[g] = "emit" /\ g = f
    BY GotoFacts DEF Push, RunPcs
<1>2. UNCHANGED <<log, index, waiting, loaded, latch, slice, found, accepted, sent, missed, raced>>
    BY DEF Push, disk, history
<1>3. PICK p \in Prompts : p = Head(hand[f]) /\ p \in Hand(f)
    BY <1>1, Sets DEF HandKept, Holding
<1>4. /\ stack' \in Seq(Messages) /\ (~raced' => Ordered(stack', Distinct))
      /\ hand' \in [Futures -> Seq(Prompts)] /\ \A g \in Futures : Ordered(hand'[g], Differ(Prompts))
    <2>1. stack' \in Seq(Messages) /\ (~raced => Ordered(stack', Distinct))
        BY <1>1, <1>3, PushedStack DEF Push
    <2>2. <<>> \in Seq(Prompts) /\ \A R : Ordered(<<>>, R)
        BY EmptySeq, SmallSets
    <2>3. hand \in [Futures -> Seq(Prompts)] /\ \A g \in Futures : Ordered(hand[g], Differ(Prompts))
        BY DEF Typed, Chains
    <2>4. hand' = [hand EXCEPT ![f] = <<>>]
        BY DEF Push
    <2>. QED BY <1>2, <2>1, <2>2, <2>3, <2>4
<1>5. \/ Cached' = Cached /\ (~raced => ~Stored(p))
      \/ \E r \in Rows : r.id = p /\ Cached' = Cached \cup {r}
    BY <1>1, <1>3, PushedStack DEF Push
<1>6. /\ hand'[f] = <<>> /\ Hand(f)' = {}
      /\ \A g \in Futures : g # f => hand'[g] = hand[g] /\ Hand(g)' = Hand(g)
    <2>1. hand'[f] = <<>> /\ \A g \in Futures : g # f => hand'[g] = hand[g]
        BY DEF Push, Typed
    <2>. QED BY <2>1, SameSets
<1>7. /\ Rows' = Rows /\ Indexed' = Indexed /\ Waits' = Waits /\ loaded
      /\ \A g \in Futures : Found(g)' = Found(g) /\ found'[g] = found[g]
    BY <1>1, <1>2, SameSets DEF LoadKept, Unloaded
<1>8. \A m, n \in Rows : m.id = n.id => m.id \notin Prompts \/ m = n
    BY Once DEF Unlike
<1>9. /\ Waits \subseteq Prompts /\ Indexed \subseteq Prompts /\ Rows \subseteq Messages /\ Cached \subseteq Messages
      /\ accepted \subseteq Prompts /\ sent \subseteq Prompts /\ Prompts \subseteq Futures /\ Nobody \notin Futures
      /\ \A g \in Futures : Hand(g) \subseteq Prompts /\ Found(g) \subseteq Prompts /\ (hand[g] = <<>> <=> Hand(g) = {})
      /\ \A m \in Messages : m.text \subseteq Prompts
    BY Sets, PromptsAreFutures DEF Typed, Messages
<1>10. Typed'
    BY <1>1, <1>2, <1>3, <1>4, <1>5, <1>6, <1>7, <1>8, <1>9 DEF Typed
<1>11. Chains'
    BY <1>1, <1>2, <1>3, <1>4, <1>5, <1>6, <1>7, <1>8, <1>9 DEF Chains
<1>12. TableKept'
    BY <1>1, <1>2, <1>3, <1>5, <1>6, <1>7, <1>8, <1>9 DEF TableKept, Unstored
<1>13. IndexKept'
    BY <1>1, <1>2, <1>3, <1>5, <1>6, <1>7, <1>8, <1>9 DEF IndexKept, Stored, Taken
<1>14. HandKept'
    BY <1>1, <1>2, <1>3, <1>5, <1>6, <1>7, <1>8, <1>9 DEF HandKept, Stored, Holding
<1>15. LoadKept'
    BY <1>1, <1>2, <1>3, <1>5, <1>6, <1>7, <1>8, <1>9 DEF LoadKept, Unloaded
<1>16. StackKept'
    BY <1>1, <1>2, <1>3, <1>5, <1>6, <1>7, <1>8, <1>9 DEF StackKept, TableKept
<1>17. Apart'
    BY <1>1, <1>2, <1>3, <1>5, <1>6, <1>7, <1>8, <1>9 DEF Apart
<1>18. ComesIn'
    BY <1>1, <1>2, <1>3, <1>5, <1>6, <1>7, <1>8, <1>9 DEF ComesIn, Stored
<1>19. Placed'
    <2>1. SUFFICES ASSUME ~raced, NEW q \in accepted, q \notin missed
          PROVE  \/ \E m \in Cached' : q \in m.text
                 \/ \E m \in Rows : q \in m.text /\ Taken(m.id)'
        BY <1>2, <1>7 DEF Placed
    <2>2. Cached \subseteq Cached'
        BY <1>5
    <2>3. ASSUME NEW m \in Rows, q \in m.text, Taken(m.id)
          PROVE  \/ \E n \in Cached' : q \in n.text
                 \/ Taken(m.id)'
        <3>1. CASE m.id = p
            BY <1>3, <1>5, <1>8, <2>1, <2>3, <3>1 DEF Stored
        <3>2. CASE m.id # p /\ m.id \in Hand(f)
            BY <1>1, <1>3, <2>3, <3>2 DEF HandKept, Stored
        <3>3. CASE m.id \notin Hand(f)
            BY <1>6, <1>7, <2>3, <3>3 DEF Taken
        <3>. QED BY <3>1, <3>2, <3>3
    <2>. QED BY <1>7, <2>1, <2>2, <2>3 DEF Placed
<1>20. SentOnce'
    BY <1>1, <1>2, <1>3, <1>5, <1>6, <1>7, <1>8, <1>9 DEF SentOnce, Unstored
<1>. QED BY <1>10, <1>11, <1>12, <1>13, <1>14, <1>15, <1>16, <1>17, <1>18, <1>19, <1>20

\* What is on the stack is about to be stored, or a row says it, and no other row.
LEMMA OnTheStack ==
    ASSUME IInv, ~raced, NEW m \in Cached, NEW q \in m.text, q \in Prompts
    PROVE  \/ run[q] = "persist"
           \/ m \in Rows /\ run[q] \notin Unstored /\ (Stored(q) => m.id = q)
<1>. USE DEF IInv
<1>1. \A a, b \in Rows : a.text \cap b.text # {} => a = b
    BY Once DEF Unlike
<1>2. \A n \in Rows : n.id \in Prompts => n.id \in n.text
    BY DEF TableKept, Says
<1>3. m.id \in Prompts
    BY DEF StackKept, Says
<1>4. CASE m \in Rows
    <2>1. run[q] \notin Unstored
        BY <1>4 DEF TableKept
    <2>2. Stored(q) => m.id = q
        BY <1>1, <1>2, <1>4 DEF Stored
    <2>. QED BY <1>4, <2>1, <2>2
<1>5. CASE run[m.id] = "persist" /\ m.text = {m.id}
    BY <1>5
<1>. QED BY <1>3, <1>4, <1>5 DEF StackKept

\* The request carries the stack.
LEMMA EmitKeeps ==
    ASSUME IInv, NEW f \in Futures, Emit(f)
    PROVE  IInv'
<1>. USE DEF IInv
<1>1. /\ run[f] = "emit" /\ run' \in [Futures -> RunPcs]
      /\ \A g \in Futures : \/ run'[g] = run[g] /\ g # f
                            \/ run[g] = "emit" /\ run'[g] = "answer" /\ g = f
    BY GotoFacts DEF Emit, RunPcs
<1>2. UNCHANGED <<log, index, stack, waiting, loaded, latch, slice, found, hand, accepted, missed, raced>>
    BY DEF Emit, disk
<1>3. /\ Rows' = Rows /\ Indexed' = Indexed /\ Waits' = Waits /\ Cached' = Cached /\ loaded
      /\ \A g \in Futures : Hand(g)' = Hand(g) /\ Found(g)' = Found(g)
    BY <1>1, <1>2, SameSets DEF LoadKept, Unloaded
<1>4. \A q \in sent' : q \in Prompts /\ (q \in sent \/ \E m \in Cached : q \in m.text)
    <2>1. sent' = sent \cup UNION {m.text : m \in Cached}
        BY DEF Emit, Texts, Cached
    <2>. QED BY <2>1, Sets DEF Typed, Messages
<1>5. ASSUME ~raced, NEW m \in Cached, NEW q \in m.text, q \in Prompts
      PROVE  \/ run[q] = "persist"
             \/ m \in Rows /\ run[q] \notin Unstored /\ (Stored(q) => m.id = q)
    BY <1>5, OnTheStack
<1>6. /\ Waits \subseteq Prompts /\ Indexed \subseteq Prompts /\ Rows \subseteq Messages /\ Cached \subseteq Messages
      /\ accepted \subseteq Prompts /\ sent \subseteq Prompts /\ Prompts \subseteq Futures /\ Nobody \notin Futures
      /\ \A g \in Futures : Hand(g) \subseteq Prompts /\ Found(g) \subseteq Prompts /\ (hand[g] = <<>> <=> Hand(g) = {})
      /\ \A m \in Messages : m.text \subseteq Prompts
    BY Sets, PromptsAreFutures DEF Typed, Messages
<1>7. Typed'
    BY <1>1, <1>2, <1>3, <1>4, <1>5, <1>6 DEF Typed
<1>8. Chains'
    BY <1>1, <1>2, <1>3, <1>4, <1>5, <1>6 DEF Chains
<1>9. TableKept'
    BY <1>1, <1>2, <1>3, <1>4, <1>5, <1>6 DEF TableKept, Unstored
<1>10. IndexKept'
    BY <1>1, <1>2, <1>3, <1>4, <1>5, <1>6 DEF IndexKept, Stored, Taken
<1>11. HandKept'
    BY <1>1, <1>2, <1>3, <1>4, <1>5, <1>6 DEF HandKept, Stored, Holding
<1>12. LoadKept'
    BY <1>1, <1>2, <1>3, <1>4, <1>5, <1>6 DEF LoadKept, Unloaded
<1>13. StackKept'
    BY <1>1, <1>2, <1>3, <1>4, <1>5, <1>6 DEF StackKept
<1>14. Apart'
    BY <1>1, <1>2, <1>3, <1>4, <1>5, <1>6 DEF Apart
<1>15. ComesIn'
    BY <1>1, <1>2, <1>3, <1>4, <1>5, <1>6 DEF ComesIn, Stored
<1>16. Placed'
    BY <1>1, <1>2, <1>3, <1>4, <1>5, <1>6 DEF Placed, Taken
<1>17. SentOnce'
    <2>1. ASSUME ~raced, NEW q \in sent', q \in Indexed PROVE q \in missed
        <3>1. CASE q \in sent
            BY <2>1, <3>1 DEF SentOnce
        <3>2. ASSUME NEW m \in Cached, q \in m.text PROVE q \in missed
            BY <1>3, <1>4, <1>5, <2>1, <3>2 DEF IndexKept, SentOnce
        <3>. QED BY <1>4, <3>1, <3>2
    <2>2. ASSUME ~raced, NEW q \in sent', q \notin missed
          PROVE  run[q] \notin (Unstored \ {"persist"}) \cup {"insertIndex"}
        <3>1. CASE q \in sent
            BY <2>2, <3>1 DEF SentOnce
        <3>2. ASSUME NEW m \in Cached, q \in m.text
              PROVE  run[q] \notin (Unstored \ {"persist"}) \cup {"insertIndex"}
            <4>1. q \in Prompts
                BY <1>4
            <4>2. run[q] = "insertIndex" => Stored(q) /\ q \in Waits
                BY <2>2, <4>1 DEF ComesIn
            <4>3. run[q] # "insertIndex"
                BY <1>5, <2>2, <3>2, <4>1, <4>2 DEF Apart
            <4>. QED BY <1>5, <2>2, <3>2, <4>1, <4>3
        <3>. QED BY <1>4, <3>1, <3>2
    <2>3. /\ \A q \in Prompts : run'[q] = run[q] \/ run'[q] = "answer"
          /\ \A g \in Futures : run'[g] = "push" => run[g] = "push"
        BY <1>1, <1>6
    <2>4. ~raced => sent' \cap Indexed \subseteq missed
        BY <2>1
    <2>5. ~raced => \A q \in sent' : q \in missed \/ run'[q] \notin (Unstored \ {"persist"}) \cup {"insertIndex"}
        BY <1>4, <2>2, <2>3 DEF Unstored
    <2>. QED BY <1>2, <1>3, <2>3, <2>4, <2>5 DEF SentOnce
<1>. QED BY <1>7, <1>8, <1>9, <1>10, <1>11, <1>12, <1>13, <1>14, <1>15, <1>16, <1>17

\* The application stops: the tables are what is left.
LEMMA CrashKeeps ==
    ASSUME IInv, Crash
    PROVE  IInv'
<1>. USE DEF IInv
<1>1. /\ run' \in [Futures -> RunPcs]
      /\ \A g \in Futures : \/ run[g] = "ready" /\ run'[g] = "ready"
                            \/ run[g] # "ready" /\ run'[g] = "end"
    BY DEF Crash, RunPcs, Typed
<1>2. /\ UNCHANGED <<log, index, accepted, sent, missed, raced>>
      /\ loaded' = FALSE /\ latch' = Nobody /\ stack' = <<>> /\ waiting' = <<>>
    BY DEF Crash, disk, history
<1>3. \A g \in Futures : hand'[g] = <<>> /\ slice'[g] = <<>> /\ found'[g] = NoneFound
    BY DEF Crash
<1>4. /\ <<>> \in Seq(Messages) /\ <<>> \in Seq(Prompts) /\ (\A R : Ordered(<<>>, R)) /\ NoneFound \in FoundSets
      /\ NoneFound.waiters = <<>>
      /\ slice' \in [Futures -> Seq(Messages)] /\ found' \in [Futures -> FoundSets] /\ hand' \in [Futures -> Seq(Prompts)]
    <2>1. <<>> \in Seq(Messages) /\ <<>> \in Seq(Prompts) /\ (\A R : Ordered(<<>>, R)) /\ NoneFound \in FoundSets
        BY EmptySeq, SmallSets, NoneFoundTyped
    <2>. QED BY <2>1, NoneFoundTyped DEF Crash
<1>5. /\ Rows' = Rows /\ Indexed' = Indexed /\ Waits' = {} /\ Cached' = {}
      /\ \A g \in Futures : Hand(g)' = {} /\ Found(g)' = {}
    BY <1>2, <1>3, SameSets, NoneFoundTyped
<1>6. /\ Waits \subseteq Prompts /\ Indexed \subseteq Prompts /\ Rows \subseteq Messages /\ Cached \subseteq Messages
      /\ accepted \subseteq Prompts /\ sent \subseteq Prompts /\ Prompts \subseteq Futures /\ Nobody \notin Futures
      /\ \A g \in Futures : Hand(g) \subseteq Prompts /\ Found(g) \subseteq Prompts /\ (hand[g] = <<>> <=> Hand(g) = {})
      /\ \A m \in Messages : m.text \subseteq Prompts
    BY Sets, PromptsAreFutures DEF Typed, Messages
<1>7. Typed'
    BY <1>1, <1>2, <1>3, <1>4, <1>5, <1>6 DEF Typed
<1>8. Chains'
    BY <1>1, <1>2, <1>3, <1>4, <1>5, <1>6 DEF Chains
<1>9. TableKept'
    BY <1>1, <1>2, <1>3, <1>5, <1>6 DEF TableKept, Unstored
<1>10. IndexKept'
    BY <1>1, <1>2, <1>3, <1>5, <1>6 DEF IndexKept, Stored, Taken
<1>11. HandKept'
    BY <1>1, <1>2, <1>3, <1>5, <1>6 DEF HandKept, Stored, Holding
<1>12. LoadKept'
    BY <1>1, <1>2, <1>3, <1>5, <1>6 DEF LoadKept, Unloaded
<1>13. StackKept'
    BY <1>1, <1>2, <1>3, <1>5, <1>6 DEF StackKept
<1>14. Apart'
    BY <1>1, <1>2, <1>3, <1>5, <1>6 DEF Apart
<1>15. ComesIn'
    BY <1>1, <1>2, <1>3, <1>5, <1>6 DEF ComesIn, Stored
<1>16. Placed'
    BY <1>1, <1>2, <1>3, <1>5, <1>6 DEF Placed, Taken
<1>17. SentOnce'
    BY <1>1, <1>2, <1>3, <1>5, <1>6 DEF SentOnce, Unstored
<1>. QED BY <1>7, <1>8, <1>9, <1>10, <1>11, <1>12, <1>13, <1>14, <1>15, <1>16, <1>17
-----------------------------------------------------------------------------
(* Every step.                                                              *)

\* A loop that goes from one place to another, and may add a message of the LLM.
LEMMA LoopQuiet ==
    ASSUME Typed, NEW f \in Futures, run[f] \in Looping, NEW l \in Looping \cup {"end"}, Goto(f, l),
           UNCHANGED <<index, loaded, waiting, latch, slice, found, hand, accepted, sent, missed, raced>>,
           NEW m \in {Answer, Result}, log' \in {log, Append(log, m)}, stack' \in {stack, Append(stack, m)}
    PROVE  Quiet
<1>1. l \in RunPcs
    BY DEF Looping, RunPcs
<1>2. run' \in [Futures -> RunPcs] /\ run'[f] = l /\ \A g \in Futures : g # f => run'[g] = run[g]
    BY <1>1, GotoFacts
<1>. QED BY <1>2 DEF Quiet

\* The steps that are quiet.
LEMMA QuietSteps ==
    ASSUME IInv,
           \/ \E p \in Prompts : Send(p) \/ (Route(p) /\ run'[p] = "append")
           \/ \E r \in Resumers : Resume(r) \/ QueueResume(r)
           \/ \E f \in Futures : \/ Place(f) \/ Receive(f) \/ StoreTools(f) \/ MarkBusy(f) \/ Tools(f) \/ Final(f)
                                 \/ Settle(f) \/ (Claim(f) /\ run'[f] = "fail")
           \/ Pause \/ OpenStart \/ OpenSlice \/ OpenProtect \/ OpenList \/ Recover \/ UNCHANGED vars
    PROVE  Quiet
<1>. USE DEF IInv
<1>1. Typed /\ Prompts \subseteq Futures /\ Resumers \subseteq Futures
    BY DEF Futures
<1>2. ASSUME NEW f \in Futures, NEW next \in {"route", "queue"}, Begin(f, next) PROVE Quiet
    <2>1. run' \in [Futures -> RunPcs] /\ run'[f] = (IF loaded THEN next ELSE "slice")
          /\ \A g \in Futures : g # f => run'[g] = run[g]
        BY <1>2, GotoFacts DEF Begin, RunPcs
    <2>2. /\ UNCHANGED <<log, stack, index, loaded, waiting, latch, slice, found, hand, accepted, sent, missed, raced>>
          /\ run[f] = "ready"
        BY <1>2 DEF Begin, disk, session, history
    <2>3. loaded \in BOOLEAN
        BY DEF Typed
    <2>. QED BY <2>1, <2>2, <2>3 DEF Quiet
<1>3. ASSUME NEW p \in Prompts, Route(p), run'[p] = "append" PROVE Quiet
    <2>1. run' \in [Futures -> RunPcs] /\ run[p] = "route" /\ waiting' = waiting
          /\ \A g \in Futures : g # p => run'[g] = run[g]
        BY <1>1, <1>3, GotoFacts DEF Route, RunPcs
    <2>2. UNCHANGED <<log, stack, index, loaded, latch, slice, found, hand, accepted, sent, missed, raced>>
        BY <1>3 DEF Route, history
    <2>. QED BY <1>1, <1>3, <2>1, <2>2 DEF Quiet
<1>4. ASSUME NEW r \in Resumers, QueueResume(r) PROVE Quiet
    <2>1. /\ r \in Futures /\ run[r] \in Looping /\ Goto(r, "place") /\ "place" \in Looping
          /\ UNCHANGED <<log, stack, index, loaded, waiting, latch, slice, found, hand, accepted, sent, missed, raced>>
        BY <1>1, <1>4 DEF QueueResume, Looping, history
    <2>. QED BY <1>1, <2>1, LoopQuiet
<1>5. ASSUME NEW f \in Futures, Place(f) PROVE Quiet
    <2>1. PICK l \in Looping \cup {"end"} : Goto(f, l)
        BY <1>5 DEF Place, Looping
    <2>2. run[f] \in Looping /\ UNCHANGED <<log, stack, index, loaded, waiting, latch, slice, found, hand, accepted, sent, missed, raced>>
        BY <1>5 DEF Place, Looping, history
    <2>. QED BY <1>1, <2>1, <2>2, LoopQuiet
<1>6. ASSUME NEW f \in Futures, Receive(f) PROVE Quiet
    <2>1. PICK l \in Looping \cup {"end"} : Goto(f, l)
        BY <1>6 DEF Receive, Looping
    <2>2. /\ run[f] \in Looping /\ stack' \in {stack, Append(stack, Answer)}
          /\ UNCHANGED <<log, index, loaded, waiting, latch, slice, found, hand, accepted, sent, missed, raced>>
        BY <1>6 DEF Receive, Looping, disk, history
    <2>. QED BY <1>1, <2>1, <2>2, LoopQuiet
<1>7. ASSUME NEW f \in Futures, StoreTools(f) PROVE Quiet
    <2>1. /\ run[f] \in Looping /\ log' = Append(log, Answer) /\ Goto(f, "busy") /\ "busy" \in Looping
          /\ UNCHANGED <<stack, index, loaded, waiting, latch, slice, found, hand, accepted, sent, missed, raced>>
        BY <1>7 DEF StoreTools, Looping, session, history
    <2>. QED BY <1>1, <2>1, LoopQuiet
<1>8. ASSUME NEW f \in Futures, MarkBusy(f) PROVE Quiet
    <2>1. /\ run[f] \in Looping /\ Goto(f, "tools") /\ "tools" \in Looping
          /\ UNCHANGED <<log, stack, index, loaded, waiting, latch, slice, found, hand, accepted, sent, missed, raced>>
        BY <1>8 DEF MarkBusy, Looping, history
    <2>. QED BY <1>1, <2>1, LoopQuiet
<1>9. ASSUME NEW f \in Futures, Tools(f) PROVE Quiet
    <2>1. PICK l \in Looping \cup {"end"} : Goto(f, l)
        BY <1>9 DEF Tools, Looping
    <2>2. /\ run[f] \in Looping /\ stack' = Append(stack, Result) /\ log' = Append(log, Result)
          /\ UNCHANGED <<index, loaded, waiting, latch, slice, found, hand, accepted, sent, missed, raced>>
        BY <1>9 DEF Tools, Looping, history
    <2>. QED BY <1>1, <2>1, <2>2, LoopQuiet
<1>10. ASSUME NEW f \in Futures, Final(f) PROVE Quiet
    <2>1. PICK l \in Looping \cup {"end"} : Goto(f, l)
        BY <1>10 DEF Final, Looping
    <2>2. /\ run[f] \in Looping /\ log' = Append(log, Answer)
          /\ UNCHANGED <<stack, index, loaded, waiting, latch, slice, found, hand, accepted, sent, missed, raced>>
        BY <1>10 DEF Final, Looping, session, history
    <2>. QED BY <1>1, <2>1, <2>2, LoopQuiet
<1>11. ASSUME NEW f \in Futures, Settle(f) PROVE Quiet
    <2>1. /\ run[f] \in Looping /\ Goto(f, "end")
          /\ UNCHANGED <<log, stack, index, loaded, waiting, latch, slice, found, hand, accepted, sent, missed, raced>>
        BY <1>11 DEF Settle, Looping, history
    <2>. QED BY <1>1, <2>1, LoopQuiet
<1>12. ASSUME NEW f \in Futures, Claim(f), run'[f] = "fail" PROVE Quiet
    <2>1. run[f] \in Looping /\ "fail" \in Looping /\ UNCHANGED <<log, stack, index, loaded, latch, slice, found, accepted, sent, raced>>
        BY <1>12 DEF Claim, Looping, disk
    <2>2. Goto(f, "fail") /\ UNCHANGED <<waiting, hand, missed>>
        BY <1>1, <1>12, GotoFacts DEF Claim, RunPcs
    <2>. QED BY <1>1, <2>1, <2>2, LoopQuiet
<1>13. CASE \/ Pause \/ OpenStart \/ OpenSlice \/ OpenProtect \/ OpenList \/ Recover \/ UNCHANGED vars
    <2>1. UNCHANGED <<run, log, stack, index, loaded, waiting, latch, slice, found, hand, accepted, sent, missed, raced>>
        BY <1>13 DEF Pause, OpenStart, OpenSlice, OpenProtect, OpenList, Recover, vars, disk, session, locals, history
    <2>. QED BY <2>1 DEF Quiet, Typed
<1>. QED BY <1>1, <1>2, <1>3, <1>4, <1>5, <1>6, <1>7, <1>8, <1>9, <1>10, <1>11, <1>12, <1>13 DEF Send, Resume

\* An open loses only stale index rows.
LEMMA OpenPurgeKeeps ==
    ASSUME IInv, OpenPurge
    PROVE  IInv'
<1>1. index' = Kept(index, Prompts \ protect)
    BY DEF OpenPurge
<1>2. UNCHANGED <<run, log, stack, waiting, loaded, latch, slice, found, hand, accepted, sent, missed, raced>>
    BY DEF OpenPurge, session, locals, history
<1>3. run' \in [Futures -> RunPcs] /\ \A f \in Futures : run'[f] = run[f]
    BY <1>2 DEF IInv, Typed
<1>. QED BY <1>1, <1>2, <1>3, ShrinkIndexKeeps

LEMMA PurgeIndexKeeps ==
    ASSUME IInv, NEW f \in Futures, PurgeIndex(f)
    PROVE  IInv'
<1>1. index' = Kept(index, Prompts \ found[f].stale)
    BY DEF PurgeIndex
<1>2. UNCHANGED <<log, stack, waiting, loaded, latch, slice, found, hand, accepted, sent, missed, raced>>
    BY DEF PurgeIndex, session, history
<1>3. run' \in [Futures -> RunPcs] /\ \A g \in Futures : \/ run'[g] = run[g]
                                                         \/ run[g] = "purge" /\ run'[g] = "rebuild" /\ g = f
    BY GotoFacts DEF PurgeIndex, RunPcs, IInv
<1>. QED BY <1>1, <1>2, <1>3, ShrinkIndexKeeps
-----------------------------------------------------------------------------
(* Who waits.  This part of the invariant rests on the others.              *)

\* A step that lets nobody wait, sends nothing and takes no waiter's row.
LEMMA WaitersStay ==
    ASSUME Typed, WaitersKept, UNCHANGED <<sent, raced>>, missed \subseteq missed', Waits' \subseteq Waits,
           \A f \in Futures : Found(f)' \subseteq Found(f) /\ (latch' = latch \/ Found(f)' = {}),
           ~raced => \A p \in Prompts :
               /\ Stored(p) => Stored(p)' \/ (p \notin Waits' /\ \A f \in Futures : p \notin Found(f)')
               /\ run[p] = "insertRow" => run'[p] = "insertRow" \/ Stored(p)' \/ p \notin Waits'
    PROVE  WaitersKept'
<1>1. Waits \subseteq Prompts /\ \A f \in Futures : Found(f) \subseteq Prompts
    BY Sets
<1>. QED BY <1>1 DEF WaitersKept

LEMMA QuietWaiters ==
    ASSUME IInv, WaitersKept, Quiet
    PROVE  WaitersKept'
<1>1. Rows \subseteq Rows'
    BY QuietMessages
<1>2. Typed /\ \A p \in Prompts : Stored(p) => Stored(p)'
    BY <1>1 DEF IInv, Stored
<1>3. UNCHANGED <<waiting, latch, found, sent, missed, raced>>
    BY DEF Quiet
<1>4. Waits' = Waits /\ \A f \in Futures : Found(f)' = Found(f)
    BY <1>3, SameSets
<1>5. \A p \in Prompts : run[p] = "insertRow" => run'[p] = "insertRow"
    BY <1>2, QuietMoves, PromptsAreFutures DEF Looping
<1>. QED BY <1>2, <1>3, <1>4, <1>5, WaitersStay

\* The load of the cache.
LEMMA LoadWaiters ==
    ASSUME IInv, WaitersKept, NEW f \in Futures, Load(f)
    PROVE  WaitersKept'
<1>. USE DEF IInv
<1>1. Waits \subseteq Prompts /\ Indexed \subseteq Prompts /\ Prompts \subseteq Futures /\ \A g \in Futures : Found(g) \subseteq Prompts
    BY Sets, PromptsAreFutures
<1>2. UNCHANGED <<log, sent, missed>> /\ (raced => raced') /\ Rows' = Rows
    BY SameSets DEF Load, ReadSlice, Install, PurgeIndex, Rebuild, disk, history, Typed
<1>3. /\ \A p \in Prompts : Stored(p)' = Stored(p)
      /\ \A p \in Prompts : run[p] = "insertRow" => run'[p] = "insertRow"
    <2>1. run[f] # "insertRow" /\ \A g \in Futures : g # f => run'[g] = run[g]
        BY GotoFacts DEF Load, ReadSlice, Install, PurgeIndex, Rebuild, RunPcs
    <2>. QED BY <1>1, <1>2, <2>1 DEF Stored
<1>4. CASE ReadSlice(f) \/ PurgeIndex(f)
    <2>1. UNCHANGED <<waiting, latch, found, raced>>
        BY <1>4 DEF ReadSlice, PurgeIndex, session, history
    <2>2. Waits' = Waits /\ \A g \in Futures : Found(g)' = Found(g)
        BY <2>1, SameSets
    <2>. QED BY <1>2, <1>3, <2>1, <2>2, WaitersStay
<1>5. CASE Install(f)
    <2>1. UNCHANGED waiting /\ latch = Nobody /\ latch' = f /\ \A g \in Futures : g # f => found'[g] = found[g]
        BY <1>5 DEF Install, Typed
    <2>2. Found(f)' \subseteq Indexed
        <3>1. PICK S : found'[f].waiters = Kept(index, S)
            BY <1>5 DEF Install, Typed
        <3>2. ToSet(Kept(index, S)) = Indexed \cap S
            BY Shorter DEF Typed, Chains, Indexed
        <3>. QED BY <3>1, <3>2 DEF Found
    <2>3. Waits' = Waits /\ \A g \in Futures : g # f => Found(g)' = Found(g)
        BY <2>1, SameSets
    <2>4. ~raced => \A g \in Futures : Found(g) = {}
        BY <2>1, PromptsAreFutures DEF WaitersKept
    <2>. QED BY <1>1, <1>2, <1>3, <2>1, <2>2, <2>3, <2>4 DEF WaitersKept, IndexKept, SentOnce
<1>6. CASE Rebuild(f)
    <2>1. waiting' = found[f].waiters /\ UNCHANGED raced /\ run[f] = "rebuild" /\ latch' = Nobody
          /\ found' = [found EXCEPT ![f] = NoneFound]
        BY <1>6 DEF Rebuild, history
    <2>2. Waits' = Found(f) /\ Found(f)' = {} /\ \A g \in Futures : g # f => Found(g)' = Found(g)
        <3>1. found'[f].waiters = <<>> /\ \A g \in Futures : g # f => found'[g] = found[g]
            BY <2>1, NoneFoundTyped DEF Typed
        <3>. QED BY <2>1, <3>1, SameSets DEF Waits, Found
    <2>3. latch = f
        BY <2>1 DEF LoadKept
    <2>. QED BY <1>1, <1>2, <1>3, <2>1, <2>2, <2>3 DEF WaitersKept
<1>. QED BY <1>4, <1>5, <1>6 DEF Load

\* A prompt that comes in.
LEMMA EnterWaiters ==
    ASSUME IInv, WaitersKept, NEW p \in Prompts, Enter(p), ~Quiet
    PROVE  WaitersKept'
<1>. USE DEF IInv
<1>1. p \in Futures /\ Waits \subseteq Prompts /\ Prompts \subseteq Futures /\ \A g \in Futures : Found(g) \subseteq Prompts
    BY Sets, PromptsAreFutures
<1>2. UNCHANGED <<latch, found, sent, missed, raced>>
    <2>1. ~Send(p)
        BY QuietSteps
    <2>. QED BY <2>1 DEF Enter, Route, InsertRow, InsertIndex, AppendPrompt, Persist, session, locals, history
<1>3. \A g \in Futures : Found(g)' = Found(g)
    BY <1>2, SameSets
<1>4. CASE Route(p)
    <2>1. run'[p] = "insertRow" /\ run[p] = "route" /\ \A g \in Futures : g # p => run'[g] = run[g]
        BY <1>1, <1>4, QuietSteps, GotoFacts DEF Route, RunPcs
    <2>2. Waits' = Waits \cup {p} /\ Rows' = Rows
        <3>1. waiting' = Append(waiting, p) /\ UNCHANGED log
            BY <1>1, <1>4, <2>1, GotoFacts DEF Route, RunPcs
        <3>2. ToSet(Append(waiting, p)) = Waits \cup {p}
            BY AppendSet DEF Typed, Waits
        <3>. QED BY <3>1, <3>2, SameSets DEF Waits
    <2>3. ~raced => p \notin sent \/ p \in missed
        BY <2>1 DEF SentOnce, Unstored
    <2>. QED BY <1>1, <1>2, <1>3, <2>1, <2>2, <2>3 DEF WaitersKept, Stored
<1>5. CASE InsertRow(p) \/ Persist(p)
    <2>1. /\ UNCHANGED waiting /\ run[p] # "place" /\ \A g \in Futures : g # p => run'[g] = run[g]
          /\ log' = Append(log, Prompt(p)) /\ (run[p] = "insertRow" \/ run[p] = "persist")
        BY <1>1, <1>5, GotoFacts DEF InsertRow, Persist, session, RunPcs
    <2>2. Rows' = Rows \cup {Prompt(p)} /\ Prompt(p).id = p
        <3>1. ToSet(Append(log, Prompt(p))) = Rows \cup {Prompt(p)}
            BY NewMessages, AppendSet DEF Typed, Rows
        <3>. QED BY <2>1, <3>1, NewMessages DEF Rows
    <2>3. Waits' = Waits
        BY <2>1, SameSets
    <2>4. \A q \in Prompts : (Stored(q) => Stored(q)') /\ (run[q] = "insertRow" => run'[q] = "insertRow" \/ Stored(q)')
        BY <1>1, <2>1, <2>2 DEF Stored
    <2>. QED BY <1>1, <1>2, <1>3, <2>3, <2>4, WaitersStay
<1>6. CASE InsertIndex(p) \/ AppendPrompt(p)
    <2>1. /\ run[p] # "insertRow" /\ (\A g \in Futures : g # p => run'[g] = run[g]) /\ UNCHANGED log
          /\ UNCHANGED waiting \/ waiting' = Kept(waiting, Prompts \ {p})
        BY <1>1, <1>6, GotoFacts DEF InsertIndex, AppendPrompt, disk, RunPcs
    <2>2. Waits' \subseteq Waits /\ Rows' = Rows
        <3>1. ToSet(Kept(waiting, Prompts \ {p})) \subseteq Waits
            BY Shorter DEF Typed, Chains, Waits
        <3>. QED BY <2>1, <3>1, SameSets DEF Waits
    <2>3. \A q \in Prompts : (Stored(q) => Stored(q)') /\ (run[q] = "insertRow" => run'[q] = "insertRow")
        BY <1>1, <2>1, <2>2 DEF Stored
    <2>. QED BY <1>1, <1>2, <1>3, <2>2, <2>3, WaitersStay
<1>. QED BY <1>4, <1>5, <1>6, QuietSteps DEF Enter

\* A loop takes waiters away and sends what is on the stack.
LEMMA LoopWaiters ==
    ASSUME IInv, WaitersKept, NEW f \in Futures, Loop(f), ~Quiet
    PROVE  WaitersKept'
<1>. USE DEF IInv
<1>1. Waits \subseteq Prompts /\ Prompts \subseteq Futures /\ \A g \in Futures : Found(g) \subseteq Prompts
    BY Sets, PromptsAreFutures
<1>2. Claim(f) \/ TakeIndex(f) \/ Merge(f) \/ Push(f) \/ Emit(f)
    BY QuietSteps DEF Loop
<1>3. UNCHANGED <<latch, found, raced>> /\ missed \subseteq missed' /\ \A g \in Futures : Found(g)' = Found(g)
    BY <1>2, SameSets DEF Claim, TakeIndex, Merge, Push, Emit, session, history
<1>4. Waits' \subseteq Waits
    BY <1>2, SameSets DEF Claim, TakeIndex, Merge, Push, Emit, session
<1>5. run[f] # "insertRow" /\ \A g \in Futures : g # f => run'[g] = run[g]
    BY <1>2, GotoFacts DEF Claim, TakeIndex, Merge, Push, Emit, RunPcs
<1>6. \A p \in Prompts : run[p] = "insertRow" => run'[p] = "insertRow"
    BY <1>1, <1>5
<1>7. CASE Claim(f) \/ TakeIndex(f) \/ Push(f)
    <2>1. UNCHANGED <<log, sent>>
        BY <1>7 DEF Claim, TakeIndex, Push, disk, history
    <2>2. \A p \in Prompts : Stored(p)' = Stored(p)
        BY <2>1, SameSets DEF Stored
    <2>. QED BY <1>3, <1>4, <1>6, <2>1, <2>2, WaitersStay
<1>8. CASE Merge(f)
    <2>1. UNCHANGED sent /\ run[f] = "merge"
        BY <1>8 DEF Merge, history
    <2>2. \A g \in Futures : ~raced => Found(g) = {}
        BY <2>1, PromptsAreFutures DEF WaitersKept, LoadKept, Unloaded
    <2>3. \A p \in Prompts : Stored(p) => Stored(p)' \/ p \in Hand(f)
        BY <1>8, MergedAway
    <2>4. ~raced => Hand(f) \cap Waits = {}
        BY DEF Apart
    <2>. QED BY <1>3, <1>4, <1>6, <2>1, <2>2, <2>3, <2>4, WaitersStay
<1>9. CASE Emit(f)
    <2>1. UNCHANGED <<log, waiting, missed>> /\ latch = Nobody /\ sent' = sent \cup Texts(stack)
        BY <1>9 DEF Emit, disk
    <2>2. Rows' = Rows /\ Waits' = Waits
        BY <2>1, SameSets
    <2>3. ~raced => \A g \in Futures : Found(g) = {}
        BY <2>1, PromptsAreFutures DEF WaitersKept
    <2>4. ASSUME ~raced, NEW q \in Waits, NEW m \in Cached, q \in m.text PROVE FALSE
        BY <1>1, <2>4, OnTheStack DEF WaitersKept, IndexKept, Taken, Apart, Unstored
    <2>5. ~raced => sent' \cap Waits \subseteq missed
        BY <2>1, <2>4 DEF WaitersKept, Texts, Cached
    <2>. QED BY <1>1, <1>3, <1>6, <2>1, <2>2, <2>3, <2>5 DEF WaitersKept, Stored
<1>. QED BY <1>2, <1>7, <1>8, <1>9

\* A crash leaves nobody waiting.
LEMMA CrashWaiters ==
    ASSUME IInv, Crash
    PROVE  WaitersKept'
<1>1. waiting' = <<>> /\ \A f \in Futures : found'[f].waiters = <<>>
    BY NoneFoundTyped DEF Crash
<1>2. Waits' = {} /\ \A f \in Futures : Found(f)' = {}
    BY <1>1, SameSets
<1>. QED BY <1>2 DEF WaitersKept
-----------------------------------------------------------------------------
(* The invariant holds in every state.                                      *)

\* What only the runs of opens, pauses and status read keeps its type as well.
LEMMA StaysTyped ==
    ASSUME Typed, RestTyped, [Next]_vars
    PROVE  RestTyped'
<1>. DEFINE Same == UNCHANGED <<saved, status, mood, up, live, open, view, protect, crashes, opens, pauses, batches>>
            Set(s) == s \in Moods /\ saved' = s /\ status' = s
            Others == UNCHANGED <<mood, up, live, open, view, protect, crashes, opens, pauses, batches>>
<1>1. ASSUME NEW s \in SUBSET Prompts, NEW t \in Seq(Messages), NEW m PROVE TipAtRest(m, t) \subseteq Prompts
    BY DEF TipAtRest, Tip
<1>2. \A f \in Futures : Load(f) => Same /\ UNCHANGED expected
    BY DEF Load, ReadSlice, Install, PurgeIndex, Rebuild, disk, session, opening, bounds
<1>3. ASSUME NEW p \in Prompts, Enter(p) PROVE UNCHANGED expected /\ Others /\ (UNCHANGED <<saved, status>> \/ Set("Queued"))
    BY <1>3 DEF Enter, Send, Begin, Route, InsertRow, InsertIndex, AppendPrompt, Persist, disk, session, opening, bounds, SetStatus, Moods
<1>4. ASSUME NEW r \in Resumers, Resume(r) \/ QueueResume(r) PROVE UNCHANGED expected /\ Others /\ (UNCHANGED <<saved, status>> \/ Set("Queued"))
    BY <1>4 DEF Resume, Begin, QueueResume, disk, session, opening, bounds, SetStatus, Moods
<1>5. ASSUME NEW f \in Futures,
             Place(f) \/ Claim(f) \/ TakeIndex(f) \/ Merge(f) \/ Push(f) \/ StoreTools(f) \/ MarkBusy(f) \/ Tools(f) \/ Final(f) \/ Settle(f)
      PROVE  UNCHANGED expected /\ Others /\ (UNCHANGED <<saved, status>> \/ \E s \in Moods : saved' = s /\ status' = s)
    BY <1>5 DEF Place, Claim, TakeIndex, Merge, Push, StoreTools, MarkBusy, Tools, Final, Settle,
                disk, session, opening, bounds, SetStatus, Moods
<1>6. ASSUME NEW f \in Futures, Emit(f) PROVE Same /\ expected' = f
    BY <1>6 DEF Emit, disk, opening, bounds
<1>7. ASSUME NEW f \in Futures, Receive(f) PROVE RestTyped'
    <2>1. /\ UNCHANGED <<saved, status, mood, up, live, open, view, protect, crashes, opens, pauses>>
          /\ expected' \in {expected, Nobody}
          /\ batches' = batches \/ (batches < MaxBatches /\ batches' = batches + 1)
        BY <1>7 DEF Receive, disk, opening
    <2>. QED BY <2>1, ReopenAssumption DEF RestTyped
<1>8. CASE Pause
    <2>1. /\ UNCHANGED <<mood, up, live, open, view, protect, crashes, opens, batches, expected>>
          /\ saved' = "Paused" /\ status' = "Paused" /\ pauses < MaxPauses /\ pauses' = pauses + 1
        BY <1>8 DEF Pause, SetStatus, opening
    <2>. QED BY <2>1, ReopenAssumption DEF RestTyped, Moods
<1>9. CASE OpenStart
    <2>1. /\ UNCHANGED <<saved, up, view, protect, crashes, pauses, batches, expected>>
          /\ live' = TRUE /\ status' \in {status, saved} /\ mood' = status' /\ open' = "slice"
          /\ opens < MaxOpens /\ opens' = opens + 1
        BY <1>9 DEF OpenStart, disk
    <2>. QED BY <2>1, ReopenAssumption DEF RestTyped
<1>10. CASE OpenSlice
    <2>1. /\ UNCHANGED <<saved, status, up, live, mood, protect, crashes, opens, pauses, batches, expected>> /\ open' = "protect"
        BY <1>10 DEF OpenSlice, disk, session, bounds
    <2>2. view' \in Seq(Messages)
        <3>1. log \in Seq(Messages) /\ Len(log) \in Nat
            BY DEF Typed
        <3>. DEFINE L == Len(log)
                    n == IF L > OpenWindow THEN L - OpenWindow + 1 ELSE 1
        <3>2. view' = SubSeq(log, n, L)
            BY <1>10 DEF OpenSlice
        <3>. HIDE DEF L
        <3>3. n \in Nat /\ n >= 1
            BY <3>1, ReopenAssumption DEF L
        <3>. HIDE DEF n
        <3>4. SubSeq(log, n, L) \in Seq(Messages)
            BY <3>1, <3>3, SubSeqProperties DEF L
        <3>. QED BY <3>2, <3>4
    <2>. QED BY <2>1, <2>2 DEF RestTyped
<1>11. CASE OpenProtect
    <2>1. UNCHANGED <<saved, status, up, live, mood, view, crashes, opens, pauses, batches, expected>> /\ open' = "list"
        BY <1>11 DEF OpenProtect, disk, session, bounds
    <2>2. protect' \subseteq Prompts
        BY <1>1, <1>11 DEF OpenProtect, RestTyped
    <2>. QED BY <2>1, <2>2 DEF RestTyped
<1>12. CASE OpenList
    <2>1. UNCHANGED <<saved, status, up, live, mood, crashes, opens, pauses, batches, expected>> /\ open' = "purge" /\ view' = <<>>
        BY <1>12 DEF OpenList, disk, session, bounds
    <2>2. protect' \subseteq Prompts
        BY <1>12, SmallSets DEF OpenList, Stale, Typed
    <2>. QED BY <2>1, <2>2, EmptySeq DEF RestTyped
<1>13. CASE OpenPurge
    <2>1. /\ UNCHANGED <<saved, status, up, live, view, crashes, opens, pauses, batches, expected>>
          /\ protect' = {} /\ mood' = "Idle" /\ open' = "none"
        BY <1>13 DEF OpenPurge, session, bounds
    <2>. QED BY <2>1 DEF RestTyped, Moods
<1>14. CASE Crash
    <2>1. /\ UNCHANGED <<saved, opens, pauses, batches>> /\ crashes < MaxCrashes /\ crashes' = crashes + 1
          /\ up' = FALSE /\ live' = FALSE /\ status' = saved /\ expected' = Nobody
          /\ open' = "none" /\ mood' = "Idle" /\ view' = <<>> /\ protect' = {}
        BY <1>14 DEF Crash, disk
    <2>2. crashes' \in 0..MaxCrashes
        BY <2>1, ReopenAssumption DEF RestTyped
    <2>3. <<>> \in Seq(Messages)
        OBVIOUS
    <2>. QED BY <2>1, <2>2, <2>3 DEF RestTyped, Moods
<1>15. CASE Recover
    <2>1. /\ UNCHANGED <<mood, open, view, protect, crashes, opens, pauses, batches, expected>>
          /\ up' = TRUE /\ live' \in BOOLEAN /\ status' = saved'
          /\ saved' \in {saved, "Paused", "Idle"}
        BY <1>15 DEF Recover, opening, bounds
    <2>. QED BY <2>1 DEF RestTyped, Moods
<1>16. CASE UNCHANGED vars
    BY <1>16 DEF RestTyped, vars, disk, session, opening, bounds
<1>17. ASSUME Others, UNCHANGED expected \/ expected' \in Futures, UNCHANGED <<saved, status>> \/ \E s \in Moods : saved' = s /\ status' = s
       PROVE  RestTyped'
    BY <1>17 DEF RestTyped
<1>. HIDE DEF Same, Others, Set
<1>. QED BY <1>2, <1>3, <1>4, <1>5, <1>6, <1>7, <1>8, <1>9, <1>10, <1>11, <1>12, <1>13, <1>14, <1>15, <1>16, <1>17
         DEF Next, Loop, Open, Same, Others, Set

LEMMA InitInvariant == Init => IInv /\ RestTyped /\ WaitersKept
<1>1. SUFFICES ASSUME Init PROVE IInv /\ RestTyped /\ WaitersKept
    OBVIOUS
<1>2. /\ Rows = {} /\ Indexed = {} /\ Cached = {} /\ Waits = {}
      /\ \A f \in Futures : Hand(f) = {} /\ Found(f) = {}
    BY <1>1, SmallSets, EmptySeq, NoneFoundTyped DEF Init, Rows, Indexed, Cached, Waits, Hand, Found
<1>3. /\ \A f \in Futures : run[f] = "ready" /\ hand[f] = <<>> /\ slice[f] = <<>> /\ found[f] = NoneFound
      /\ accepted = {} /\ sent = {} /\ missed = {} /\ raced = FALSE /\ loaded = FALSE /\ latch = Nobody
      /\ log = <<>> /\ stack = <<>> /\ waiting = <<>> /\ index = <<>>
    BY <1>1 DEF Init
<1>4. /\ <<>> \in Seq(Messages) /\ <<>> \in Seq(Prompts) /\ (\A R : Ordered(<<>>, R)) /\ NoneFound \in FoundSets
      /\ NoneFound.waiters = <<>>
    BY EmptySeq, SmallSets, NoneFoundTyped
<1>5. Typed
    BY <1>1, <1>4 DEF Init, Typed, RunPcs
<1>10. RestTyped
    <2>1. 0 \in 0..MaxCrashes /\ 0 \in 0..MaxOpens /\ 0 \in 0..MaxPauses /\ 0 \in 0..MaxBatches
        BY ReopenAssumption
    <2>. QED BY <1>1, <1>4, <2>1 DEF Init, RestTyped, Moods
<1>6. Chains
    BY <1>3, <1>4 DEF Chains
<1>7. TableKept /\ IndexKept /\ HandKept
    BY <1>2, <1>3, PromptsAreFutures DEF TableKept, IndexKept, HandKept, Taken, Holding
<1>8. LoadKept
    BY <1>2, <1>3, PromptsAreFutures DEF LoadKept, Unloaded
<1>9. StackKept /\ Apart /\ ComesIn /\ Placed /\ SentOnce
    BY <1>2, <1>3, PromptsAreFutures DEF StackKept, Apart, ComesIn, Placed, SentOnce
<1>11. WaitersKept
    BY <1>2 DEF WaitersKept
<1>. QED BY <1>5, <1>6, <1>7, <1>8, <1>9, <1>10, <1>11 DEF IInv

\* Every step keeps it.
LEMMA InvariantKept == IInv /\ [Next]_vars => IInv'
<1>1. SUFFICES ASSUME IInv, [Next]_vars PROVE IInv'
    OBVIOUS
<1>2. ASSUME NEW f \in Futures, Load(f) PROVE IInv'
    BY <1>1, <1>2, ReadSliceKeeps, InstallKeeps, PurgeIndexKeeps, RebuildKeeps DEF Load
<1>3. ASSUME NEW p \in Prompts, Enter(p) PROVE IInv'
    <2>1. CASE Route(p)
        <3>1. run'[p] \in {"insertRow", "append"}
            BY <1>1, <2>1, GotoFacts, PromptsAreFutures DEF Route, RunPcs, IInv
        <3>. QED BY <1>1, <2>1, <3>1, WaitKeeps, QuietSteps, QuietKeeps
    <2>. QED BY <1>1, <1>3, <2>1, InsertRowKeeps, InsertIndexKeeps, AppendPromptKeeps, PersistKeeps, QuietSteps, QuietKeeps
             DEF Enter
<1>4. ASSUME NEW f \in Futures, Loop(f) PROVE IInv'
    <2>1. CASE Claim(f) \/ TakeIndex(f) \/ Merge(f) \/ Push(f) \/ Emit(f)
        BY <1>1, <2>1, ClaimKeeps, TakeIndexKeeps, MergeKeeps, FewKeeps, PushKeeps, EmitKeeps, QuietSteps, QuietKeeps
    <2>. QED BY <1>1, <1>4, <2>1, QuietSteps, QuietKeeps DEF Loop
<1>5. ASSUME NEW r \in Resumers, Resume(r) \/ QueueResume(r) PROVE IInv'
    BY <1>1, <1>5, QuietSteps, QuietKeeps
<1>6. CASE Pause \/ Open \/ Crash \/ Recover \/ UNCHANGED vars
    BY <1>1, <1>6, OpenPurgeKeeps, CrashKeeps, QuietSteps, QuietKeeps DEF Open
<1>. QED BY <1>1, <1>2, <1>3, <1>4, <1>5, <1>6 DEF Next

\* The part about the waiters too.
LEMMA WaitersKeptOn == IInv /\ WaitersKept /\ [Next]_vars => WaitersKept'
<1>1. SUFFICES ASSUME IInv, WaitersKept, [Next]_vars PROVE WaitersKept'
    OBVIOUS
<1>2. CASE Quiet
    BY <1>1, <1>2, QuietWaiters
<1>3. CASE OpenPurge
    <2>1. UNCHANGED <<run, log, waiting, latch, found, sent, missed, raced>>
        BY <1>3 DEF OpenPurge, session, locals, history
    <2>2. Rows' = Rows /\ Waits' = Waits /\ \A f \in Futures : Found(f)' = Found(f)
        BY <2>1, SameSets
    <2>. QED BY <1>1, <2>1, <2>2, WaitersStay DEF IInv, Stored
<1>4. CASE Crash
    BY <1>1, <1>4, CrashWaiters
<1>5. \/ Quiet \/ OpenPurge \/ Crash \/ (\E f \in Futures : Load(f) \/ Loop(f)) \/ (\E p \in Prompts : Enter(p))
    BY <1>1, QuietSteps DEF Next, Open
<1>. QED BY <1>1, <1>2, <1>3, <1>4, <1>5, LoadWaiters, LoopWaiters, EnterWaiters

LEMMA Invariant == Spec => [](IInv /\ RestTyped /\ WaitersKept)
<1>1. IInv /\ RestTyped /\ WaitersKept /\ [Next]_vars => (IInv /\ RestTyped /\ WaitersKept)'
    BY InvariantKept, StaysTyped, WaitersKeptOn DEF IInv
<1>. QED BY InitInvariant, <1>1, PTL DEF Spec
-----------------------------------------------------------------------------
(* The theorems.                                                            *)

\* Tables, cache, queue and the places of the futures keep their types
\* (pending_queue.rs, cache.rs, recovery.rs).
THEOREM TypeCorrect == Spec => []TypeOK
<1>1. IInv /\ RestTyped => TypeOK
    BY DEF IInv, Typed, RestTyped, Moods, RunPcs, TypeOK
<1>. QED BY <1>1, Invariant, PTL

\* A prompt whose call has succeeded is in the messages table, and once the cache
\* is loaded on the stack, in the queue or in the hands of a loop, for any number
\* of crashes, openings and pauses, however they meet the load, the claims and
\* the merges (cache.rs, pending_queue.rs:754).
THEOREM NothingForgotten == Spec => []NoneForgotten
<1>1. ASSUME IInv PROVE NoneForgotten
    <2>. USE DEF IInv
    <2>1. Texts(log) = UNION {m.text : m \in Rows} /\ Texts(stack) = UNION {m.text : m \in Cached}
        BY DEF Texts, Rows, Cached
    <2>2. accepted \subseteq Texts(log)
        BY <1>1, <2>1 DEF TableKept
    <2>3. ASSUME loaded, ~raced, NEW p \in accepted, p \notin missed
          PROVE  p \in Texts(stack) \/ p \in Said(ToSet(waiting) \cup InHand)
        <3>1. CASE \E m \in Cached : p \in m.text
            BY <2>1, <3>1
        <3>2. ASSUME NEW m \in Rows, p \in m.text, Taken(m.id) PROVE p \in Said(ToSet(waiting) \cup InHand)
            <4>1. m.id \in ToSet(waiting) \cup InHand
                BY <3>2 DEF Taken, Waits, Hand, InHand
            <4>. QED BY <3>2, <4>1 DEF Said, Rows
        <3>. QED BY <1>1, <2>3, <3>1, <3>2 DEF Placed
    <2>. QED BY <2>2, <2>3 DEF NoneForgotten
<1>. QED BY <1>1, Invariant, PTL

\* No prompt is on the stack twice, nor both there and in the queue or in the
\* hands of a loop (pending_queue.rs:745-753).
THEOREM AtOnePlace == Spec => []OnePlace
<1>1. ASSUME IInv, ~raced
      PROVE  \A i, j \in DOMAIN stack : i # j => stack[i].text \cap stack[j].text = {}
    <2>1. stack \in Seq(Messages) /\ Ordered(stack, Distinct) /\ DOMAIN stack = 1..Len(stack) /\ Len(stack) \in Nat
        BY <1>1 DEF IInv, Typed, Chains
    <2>2. ASSUME NEW i \in 1..Len(stack), NEW j \in 1..Len(stack), i < j PROVE stack[i].text \cap stack[j].text = {}
        BY <2>1, <2>2 DEF Ordered, Distinct, Unlike
    <2>3. ASSUME NEW i \in 1..Len(stack), NEW j \in 1..Len(stack), i # j PROVE i < j \/ j < i
        BY <2>1, <2>3
    <2>. QED BY <2>1, <2>2, <2>3
<1>2. ASSUME IInv, ~raced, NEW q \in Texts(stack), q \in Said(ToSet(waiting) \cup InHand)
      PROVE  FALSE
    <2>. USE DEF IInv
    <2>1. PICK m \in Cached : q \in m.text
        BY <1>2 DEF Texts, Cached
    <2>2. PICK n \in Rows : Taken(n.id) /\ q \in n.text
        BY <1>2 DEF Said, Rows, Taken, Waits, Hand, InHand
    <2>3. q \in Prompts /\ n \in Messages /\ n.text \subseteq Prompts
        BY <1>2, <2>2, Sets DEF Messages
    <2>4. run[q] \notin Unstored
        BY <1>2, <2>2 DEF TableKept
    <2>5. m \in Rows
        BY <1>2, <2>1, <2>3, <2>4, OnTheStack DEF Unstored
    <2>6. m = n
        BY <1>2, <2>1, <2>2, <2>5, Once DEF Unlike
    <2>. QED BY <1>2, <2>1, <2>2, <2>6 DEF Apart, Taken
<1>3. IInv => OnePlace
    BY <1>1, <1>2 DEF OnePlace
<1>. QED BY <1>3, Invariant, PTL

\* A prompt that was sent neither waits nor has an index row from which a restart
\* would let it wait again (pending_queue.rs:622-624).
THEOREM NeverSentAgain == Spec => []SentNeverWaits
<1>1. IInv /\ WaitersKept => SentNeverWaits
    BY DEF IInv, SentOnce, WaitersKept, SentNeverWaits, Waits, Indexed
<1>. QED BY <1>1, Invariant, PTL
=============================================================================
