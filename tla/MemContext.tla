----------------------------- MODULE MemContext -----------------------------
(***************************************************************************)
(* Memory contexts and errors.  Contexts form a tree; freeing one calls    *)
(* the destructors of its subtree and frees it.  The context stack has an  *)
(* entry for every context that is current, or was created and not kept    *)
(* yet.  TRY blocks nest; an error jumps to the innermost one and, before  *)
(* it is handled, the stack is cleaned back to where the block began.  A   *)
(* destructor may throw, wherever a context is freed.                      *)
(*                                                                         *)
(* The program is any code made of well-nested blocks: TRY, contexts that  *)
(* are created and kept or discarded, contexts that are switched to.       *)
(***************************************************************************)
EXTENDS Integers, Sequences, FiniteSets, SequencesExt

CONSTANTS
    Contexts,     \* contexts a run may create, 1 is the top context
    MaxTry,       \* bound on nested TRY blocks
    MaxBlock,     \* bound on nested blocks
    MaxList,      \* bound on the list of children of a context
    InitialSize,  \* MEM_CONTEXT_INITIAL_SIZE
    None

VARIABLES
    ctx,     \* ctx[c]: a context
    stack,   \* memContextStack: [c, type, depth], the last entry being memContextMaxStackIdx
    cur,     \* memContextCurrentStackIdx
    tries,   \* tryList: [kind, state, uncaught], and the stack when the block began
    block,   \* the blocks the program is in, innermost last
    error,   \* errorContext.error
    pc,      \* "run", "jump" to a TRY block, "clean" the stack, "caught" or "exit"
    twice    \* the contexts that were freed again (history)

vars == <<ctx, stack, cur, tries, block, error, pc, twice>>

Top == 1
Unused == [st |-> "unused", parent |-> None, idx |-> 0, list |-> <<>>, free |-> 1,
           callback |-> FALSE, ran |-> 0, kept |-> FALSE, missed |-> FALSE, left |-> FALSE]
Try(kind) == [kind |-> kind, state |-> "try", uncaught |-> FALSE, stack |-> stack, cur |-> cur]

Init ==
    /\ ctx = [c \in Contexts |-> IF c = Top THEN [Unused EXCEPT !.st = "live", !.kept = TRUE] ELSE Unused]
    /\ stack = <<[c |-> Top, type |-> "switch", depth |-> 0]>>
    /\ cur = 1
    /\ tries = <<[kind |-> "fatal", state |-> "try", uncaught |-> FALSE, stack |-> stack, cur |-> cur]>>
    /\ block = <<"try">>
    /\ error = None /\ pc = "run" /\ twice = {}

Live == {c \in Contexts : ctx[c].st = "live"}
Current == stack[cur].c
Depth == Len(tries)
Inner == block[Len(block)]
Pop(s) == SubSeq(s, 1, Len(s) - 1)
Running == pc \in {"run", "caught"}
Goto(p) == pc' = p
mem == <<ctx, stack, cur, twice>>
err == <<tries, error>>

(***************************************************************************)
(* The list of children of a context.                                      *)
(***************************************************************************)
\* memContextNewIndex(): the first free place from freeIdx on, in a list that doubles.
NewIndex(p) == CHOOSE i \in p.free..(Len(p.list) + 1) :
    /\ i > Len(p.list) \/ p.list[i] = None
    /\ \A j \in p.free..(i - 1) : j <= Len(p.list) /\ p.list[j] # None

Grown(list, i) == IF i <= Len(list) THEN list
                  ELSE list \o [j \in 1..(IF list = <<>> THEN InitialSize ELSE Len(list)) |-> None]

Placed(p, i, c) == [p EXCEPT !.list = [Grown(@, i) EXCEPT ![i] = c], !.free = i]

\* memContextNew(): a child of the current context, on the stack until it is kept.
New(c, callback) ==
    LET p == Current  i == NewIndex(ctx[p]) IN
    /\ ctx' = [ctx EXCEPT ![p] = [Placed(@, i, c) EXCEPT !.free = i + 1],
                          ![c] = [Unused EXCEPT !.st = "live", !.parent = p, !.idx = i, !.callback = callback]]
    /\ stack' = stack \o <<[c |-> c, type |-> "new", depth |-> Depth], [c |-> c, type |-> "switch", depth |-> Depth]>>
    /\ cur' = Len(stack) + 2

\* MEM_CONTEXT_NEW_BEGIN() and MEM_CONTEXT_TEMP_BEGIN(), whose contexts have no destructor.
NewBegin(c, kind, callback) ==
    /\ Running /\ Len(block) < MaxBlock /\ ctx[c].st = "unused" /\ (kind = "temp" => ~callback)
    /\ \A d \in Contexts : d < c => ctx[d].st # "unused"
    /\ New(c, callback)
    /\ block' = Append(block, kind) /\ Goto("run")
    /\ UNCHANGED <<err, twice>>

\* memContextSwitch(), to a context the program has.
Switch(c) ==
    /\ Running /\ Len(block) < MaxBlock /\ c \in Live
    /\ stack' = Append(stack, [c |-> c, type |-> "switch", depth |-> Depth])
    /\ cur' = Len(stack) + 1
    /\ block' = Append(block, "switch") /\ Goto("run")
    /\ UNCHANGED <<ctx, err, twice>>

\* The next entry below that can be current.
Prior(i) == CHOOSE j \in 1..(i - 1) : stack[j].type = "switch" /\ \A k \in (j + 1)..(i - 1) : stack[k].type = "new"

\* memContextSwitchBack()
SwitchEnd ==
    /\ Running /\ Inner = "switch"
    /\ stack' = Pop(stack) /\ cur' = Prior(cur)
    /\ block' = Pop(block) /\ Goto("run")
    /\ UNCHANGED <<ctx, err, twice>>

\* MEM_CONTEXT_NEW_END(): memContextSwitchBack() and memContextKeep().
NewEnd ==
    /\ Running /\ Inner = "new"
    /\ ctx' = [ctx EXCEPT ![Current].kept = TRUE]
    /\ stack' = Pop(Pop(stack)) /\ cur' = Prior(cur)
    /\ block' = Pop(block) /\ Goto("run")
    /\ UNCHANGED <<err, twice>>

(***************************************************************************)
(* memContextMove()                                                        *)
(***************************************************************************)
Children(S) == UNION {Range(ctx[c].list) : c \in S} \ {None}
Subtree(c) ==
    LET down[n \in 0..Cardinality(Contexts)] == IF n = 0 THEN {c} ELSE down[n - 1] \union Children(down[n - 1])
    IN down[Cardinality(Contexts)]

Moved(c, p) ==
    LET i == NewIndex(ctx[p]) IN
    [ctx EXCEPT ![ctx[c].parent].list[ctx[c].idx] = None, ![p] = Placed(@, i, c),
                ![c] = [@ EXCEPT !.parent = p, !.idx = i]]

Move(c) ==
    LET p == stack[Prior(cur)].c IN
    /\ Running /\ cur > 1 /\ c \in Live \ {Top} /\ ctx[c].kept /\ ctx[c].parent # p /\ p \notin Subtree(c)
    /\ ctx[p].free < MaxList
    /\ ctx' = Moved(c, p)
    /\ Goto("run")
    /\ UNCHANGED <<stack, cur, err, block, twice>>

(***************************************************************************)
(* Errors                                                                  *)
(***************************************************************************)
\* TRY_BEGIN().  CATCH_ANY(), CATCH_FATAL(), a CATCH() of another type, or FINALLY() only.
TryBegin(kind) ==
    /\ Running /\ Depth < MaxTry /\ Len(block) < MaxBlock
    /\ tries' = Append(tries, Try(kind))
    /\ block' = Append(block, "try") /\ Goto("run")
    /\ UNCHANGED <<mem, error>>

\* The blocks inside of the innermost TRY are left.
Unwound(b) == LET n == CHOOSE i \in DOMAIN b : b[i] = "try" /\ \A j \in (i + 1)..Len(b) : b[j] # "try"
              IN SubSeq(b, 1, n)

\* errorInternalPropagate(), to the innermost block of t.
Propagate(t) ==
    /\ tries' = [t EXCEPT ![Len(t)].uncaught = TRUE]
    /\ Goto("jump")

\* errorInternalThrow()
Throw(fatal) ==
    /\ Running
    /\ error' = IF fatal THEN "fatal" ELSE "error"
    /\ block' = Unwound(block)
    /\ Propagate(tries)
    /\ UNCHANGED mem

(***************************************************************************)
(* memContextFree(): the destructors of the subtree, then the subtree.  A  *)
(* destructor that throws ends the first part only, and the error is       *)
(* thrown on when everything is freed.                                     *)
(***************************************************************************)
\* memContextCallbackRecurse(): a context before its children, these in the order of the list.
Preorder(c) ==
    LET walk[n \in 0..Cardinality(Contexts)] == [d \in Contexts |->
            IF n = 0 THEN <<>>
            ELSE <<d>> \o FlattenSeq([i \in DOMAIN ctx[d].list |->
                                        IF ctx[d].list[i] = None THEN <<>> ELSE walk[n - 1][ctx[d].list[i]]])]
    IN walk[Cardinality(Contexts)][c]

Destructors(c) == SelectSeq(Preorder(c), LAMBDA d : ctx[d].callback)

\* The contexts after the destructors of D were called and c was freed.
Freed(c, D) ==
    [d \in Contexts |->
        IF d \in Subtree(c)
        THEN [ctx[d] EXCEPT !.st = "freed", !.ran = IF d \in D THEN @ + 1 ELSE @, !.missed = ctx[d].callback /\ d \notin D]
        ELSE IF d = ctx[c].parent
        THEN [ctx[d] EXCEPT !.list[ctx[c].idx] = None, !.free = IF ctx[c].idx < @ THEN ctx[c].idx ELSE @]
        ELSE ctx[d]]

\* Memory that is freed again is not looked at further.
Frees(c) ==
    IF ctx[c].st = "freed" THEN twice' = twice \union {c} /\ UNCHANGED ctx
    ELSE ctx' = Freed(c, Range(Destructors(c))) /\ UNCHANGED twice

\* The k-th destructor throws; left says whether c stays on the stack.
FreeThrows(c, k, left) ==
    /\ ctx[c].st # "freed" /\ k \in DOMAIN Destructors(c)
    /\ ctx' = [Freed(c, Range(SubSeq(Destructors(c), 1, k))) EXCEPT ![c].left = left]
    /\ error' = "error"
    /\ block' = Unwound(block)
    /\ Propagate(tries)
    /\ UNCHANGED twice

\* The program frees an object that is not in use.
InUse(c) == \E i \in DOMAIN stack : stack[i].c \in Subtree(c)

Free(c) ==
    /\ Running /\ c \in Live \ {Top} /\ ~InUse(c)
    /\ UNCHANGED <<stack, cur>>
    /\ \/ Frees(c) /\ Goto("run") /\ UNCHANGED <<err, block>>
       \/ \E k \in 1..Cardinality(Contexts) : FreeThrows(c, k, FALSE)

\* MEM_CONTEXT_TEMP_END(): memContextSwitchBack() and memContextDiscard(), which takes the
\* context from the stack only after it is freed.
TempEnd ==
    /\ Running /\ Inner = "temp"
    /\ cur' = Prior(cur)
    /\ \/ Frees(Current) /\ stack' = Pop(Pop(stack)) /\ block' = Pop(block) /\ Goto("run") /\ UNCHANGED err
       \/ stack' = Pop(stack) /\ \E k \in 1..Cardinality(Contexts) : FreeThrows(Current, k, TRUE)

(***************************************************************************)
(* An error arrives.                                                       *)
(***************************************************************************)
\* errorInternalCatch(), when the block has one: the stack is cleaned the first time.
Catch ==
    LET t == tries[Depth] IN
    /\ pc = "jump"
    /\ IF t.kind # "finally" /\ t.state = "try" THEN Goto("clean") /\ UNCHANGED <<tries, error, block>>
       ELSE block' = Unwound(Pop(block)) /\ Propagate(Pop(tries)) /\ UNCHANGED error
    /\ UNCHANGED mem

\* memContextClean(): entries of the block, the last first.
AboveTryOnly == stack[Len(stack)].depth > Depth
AboveTry == stack[Len(stack)].depth >= Depth
CleanEntryNever(e) == UNCHANGED <<ctx, twice>>
\* When fatal errors are caught, what was created is left to its parent.
CleanEntry(e) == IF tries[Depth].kind = "fatal" THEN ctx' = [ctx EXCEPT ![e.c].kept = TRUE] /\ UNCHANGED twice
                 ELSE Frees(e.c)

Clean ==
    LET e == stack[Len(stack)] IN
    /\ pc = "clean" /\ AboveTry
    /\ IF e.type = "new" THEN CleanEntry(e) /\ UNCHANGED cur
       ELSE cur' = Prior(cur) /\ UNCHANGED <<ctx, twice>>
    /\ stack' = Pop(stack)
    /\ UNCHANGED <<err, block, pc>>

\* A destructor throws while the stack is cleaned: the entry stays, the error goes to the same
\* TRY block, which has not come to its CATCH yet and cleans again.
CleanThrows ==
    LET e == stack[Len(stack)] IN
    /\ pc = "clean" /\ AboveTry /\ e.type = "new" /\ tries[Depth].kind # "fatal"
    /\ \E k \in 1..Cardinality(Contexts) : FreeThrows(e.c, k, TRUE)
    /\ UNCHANGED <<stack, cur>>

\* Caught, or for an outer block.
Caught(t) == t.kind = "fatal" \/ (t.kind = "any" /\ error # "fatal")

Cleaned ==
    LET t == tries[Depth] IN
    /\ pc = "clean" /\ ~AboveTry
    /\ IF Caught(t)
       THEN /\ tries' = [tries EXCEPT ![Depth] = [@ EXCEPT !.state = "end", !.uncaught = FALSE]]
            /\ Goto(IF Depth = 1 THEN "exit" ELSE "caught") /\ UNCHANGED block
       ELSE block' = Unwound(Pop(block)) /\ Propagate(Pop(tries))
    /\ UNCHANGED <<mem, error>>

\* TRY_END() without an error, or after it was handled.
TryEnd ==
    /\ Running /\ Inner = "try" /\ Depth > 1
    /\ error' = IF tries[Depth].state = "end" THEN None ELSE error
    /\ tries' = Pop(tries) /\ block' = Pop(block) /\ Goto("run")
    /\ UNCHANGED mem

Next ==
    \/ \E c \in Contexts, callback \in BOOLEAN, kind \in {"new", "temp"} : NewBegin(c, kind, callback)
    \/ \E c \in Contexts : Switch(c) \/ Move(c) \/ Free(c)
    \/ SwitchEnd \/ NewEnd \/ TempEnd
    \/ \E kind \in {"any", "fatal", "other", "finally"} : TryBegin(kind)
    \/ \E fatal \in BOOLEAN : Throw(fatal)
    \/ Catch \/ Clean \/ CleanThrows \/ Cleaned \/ TryEnd

Spec == Init /\ [][Next]_vars

(* When an error is handled, the current context and the context stack are what they were
   when the TRY block began, however many blocks the error left: the code that handles it
   does not allocate in a context that is gone. *)
ErrorRestores ==
    pc = "caught" => stack = tries[Depth].stack /\ cur = tries[Depth].cur

(* No context is abandoned: one that was not kept is on the stack, from where it is
   discarded or freed by an error, unless a fatal error left it to its parent. *)
NothingAbandoned ==
    \A c \in Live : \/ ctx[c].kept
                    \/ \E i \in DOMAIN stack : stack[i].c = c /\ stack[i].type = "new"

(* The contexts are a tree: every live one but the top has a live parent that has it in
   the place it remembers, and it has no others, whatever was moved and freed before. *)
TreeIsSound ==
    /\ \A c \in Live \ {Top} : LET p == ctx[ctx[c].parent] IN
        p.st = "live" /\ ctx[c].idx \in DOMAIN p.list /\ p.list[ctx[c].idx] = c
    /\ \A p \in Live : \A i \in DOMAIN ctx[p].list : LET c == ctx[p].list[i] IN
        c = None \/ (c \in Live /\ ctx[c].parent = p /\ ctx[c].idx = i)

(* A context is freed once, its destructor is called once and before it is gone, unless one
   before it in the same subtree threw, and no entry of the stack stands for a context that is
   gone.  The exception is a context that a destructor of its subtree left on the stack: when
   it throws in memContextDiscard() or memContextClean() the entry is not removed
   (memContext.c:1090, 1239), and such a context, and no other, is freed again. *)
FreedOnce ==
    /\ twice \subseteq {c \in Contexts : ctx[c].left}
    /\ \A c \in Contexts : ctx[c].callback =>
           ctx[c].ran = IF ctx[c].st = "freed" /\ ~ctx[c].missed THEN 1 ELSE 0
    /\ \A i \in DOMAIN stack : stack[i].c \in Live \/ (ctx[stack[i].c].left /\ stack[i].type = "new")

(* Every context is freed exactly once, with its parent, by its owner or by an error: the
   three together. *)
FreedExactlyOnce == NothingAbandoned /\ TreeIsSound /\ FreedOnce
=============================================================================
