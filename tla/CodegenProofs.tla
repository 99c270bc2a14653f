--------------------------- MODULE CodegenProofs ---------------------------
(***************************************************************************)
(* Proofs about Codegen, for any programs.  Branches go to blocks that are *)
(* there, calls to functions that have been generated; and a module that   *)
(* LLVM's verifier takes never runs off the end of a block, because every  *)
(* block ends with its one terminator and branches stay in their function. *)
(***************************************************************************)
EXTENDS Codegen, SequenceTheorems, TLAPS

-----------------------------------------------------------------------------
(* Sequences, whatever they are of.                                        *)
Sequence(s) == s \in Seq({s[i] : i \in DOMAIN s})

LEMMA SequenceOf == \A S : \A s \in Seq(S) : Sequence(s)
<1> SUFFICES ASSUME NEW S, NEW s \in Seq(S) PROVE Sequence(s)
  OBVIOUS
<1>1. Len(s) \in Nat /\ DOMAIN s = 1..Len(s)
  OBVIOUS
<1>2. \A i \in 1..Len(s) : s[i] \in {s[k] : k \in DOMAIN s}
  BY <1>1
<1>3. s = [i \in 1..Len(s) |-> s[i]]
  OBVIOUS
<1>4. QED
  BY <1>1, <1>2, <1>3, IsASeq DEF Sequence

LEMMA SequenceIs == \A s : Sequence(s) => Len(s) \in Nat /\ DOMAIN s = 1..Len(s)
BY DEF Sequence

LEMMA Single == \A x : Sequence(<<x>>) /\ Len(<<x>>) = 1 /\ <<x>>[1] = x
<1> SUFFICES ASSUME NEW x PROVE Sequence(<<x>>) /\ Len(<<x>>) = 1 /\ <<x>>[1] = x
  OBVIOUS
<1>1. <<x>> \in Seq({x})
  OBVIOUS
<1>2. QED
  BY <1>1, SequenceOf

LEMMA Empty == Sequence(<<>>) /\ Len(<<>>) = 0
<1>1. <<>> \in Seq({})
  OBVIOUS
<1>2. QED
  BY <1>1, SequenceOf

(* What a function on the first numbers lists.                             *)
LEMMA Listed ==
    ASSUME NEW n \in Nat, NEW g, g = [i \in 1..n |-> g[i]]
    PROVE  Sequence(g) /\ Len(g) = n
<1>1. \A i \in 1..n : g[i] \in {g[k] : k \in 1..n}
  OBVIOUS
<1>2. g \in Seq({g[k] : k \in 1..n})
  BY <1>1, IsASeq
<1>3. DOMAIN g = 1..n
  OBVIOUS
<1>4. QED
  BY <1>2, <1>3, SequenceOf, LenProperties

Join(s, t) ==
    /\ Sequence(s \o t) /\ Len(s \o t) = Len(s) + Len(t)
    /\ \A i \in DOMAIN s : (s \o t)[i] = s[i]
    /\ \A i \in DOMAIN (s \o t) : i \in DOMAIN s \/ (i - Len(s) \in DOMAIN t /\ (s \o t)[i] = t[i - Len(s)])
    /\ \A i \in DOMAIN t : i + Len(s) \in DOMAIN (s \o t) /\ (s \o t)[i + Len(s)] = t[i]

LEMMA Joined ==
    ASSUME NEW s, NEW t, Sequence(s), Sequence(t)
    PROVE  Join(s, t)
<1> DEFINE S == {s[i] : i \in DOMAIN s} \cup {t[i] : i \in DOMAIN t}
<1>1. s \in Seq(S) /\ t \in Seq(S)
  BY SeqMonotonic DEF Sequence
<1> HIDE DEF S
<1>2. /\ s \o t \in Seq(S) /\ Len(s \o t) = Len(s) + Len(t)
      /\ \A i \in 1..Len(s) + Len(t) : (s \o t)[i] = IF i <= Len(s) THEN s[i] ELSE t[i - Len(s)]
  BY <1>1, ConcatProperties
<1>3. DOMAIN (s \o t) = 1..Len(s) + Len(t) /\ DOMAIN s = 1..Len(s) /\ DOMAIN t = 1..Len(t)
      /\ Len(s) \in Nat /\ Len(t) \in Nat
  BY <1>1, <1>2, LenProperties
<1>4. Sequence(s \o t)
  BY <1>2, SequenceOf
<1>5. \A i \in DOMAIN s : (s \o t)[i] = s[i]
  BY <1>2, <1>3
<1>6. \A i \in DOMAIN (s \o t) : i \in DOMAIN s \/ (i - Len(s) \in DOMAIN t /\ (s \o t)[i] = t[i - Len(s)])
  BY <1>2, <1>3
<1>7. \A i \in DOMAIN t : i + Len(s) \in DOMAIN (s \o t) /\ (s \o t)[i + Len(s)] = t[i]
  BY <1>2, <1>3
<1>8. QED
  BY <1>2, <1>4, <1>5, <1>6, <1>7 DEF Join

(* What is left of a sequence without its first member.                    *)
LEMMA Rested ==
    ASSUME NEW s, Sequence(s), s # <<>>
    PROVE  /\ Sequence(Tail(s)) /\ Len(Tail(s)) = Len(s) - 1 /\ 1 \in DOMAIN s
           /\ \A i \in DOMAIN Tail(s) : i + 1 \in DOMAIN s /\ Tail(s)[i] = s[i + 1]
<1> DEFINE S == {s[i] : i \in DOMAIN s}
<1>1. s \in Seq(S)
  BY DEF Sequence
<1> HIDE DEF S
<1>2. /\ Tail(s) \in Seq(S) /\ Len(Tail(s)) = Len(s) - 1
      /\ \A i \in 1..Len(Tail(s)) : Tail(s)[i] = s[i + 1]
  BY <1>1, HeadTailProperties
<1>3. DOMAIN s = 1..Len(s) /\ DOMAIN Tail(s) = 1..Len(Tail(s)) /\ Len(s) \in Nat /\ Len(s) # 0
  BY <1>1, <1>2, LenProperties, EmptySeq
<1>4. Sequence(Tail(s))
  BY <1>2, SequenceOf
<1>5. 1 \in DOMAIN s /\ \A i \in DOMAIN Tail(s) : i + 1 \in DOMAIN s /\ Tail(s)[i] = s[i + 1]
  BY <1>2, <1>3
<1>6. QED
  BY <1>2, <1>4, <1>5

-----------------------------------------------------------------------------
(* What is compiled.  Operations are those that the handlers emit.         *)
Operations == {"store", "print", "call", "br", "condbr", "ret", "retvoid", "unreachable"}

(* The then and the else of a branch are in one function: the verifier     *)
(* looks at the first only.                                                *)
Instruction(c, bs, fs) ==
    /\ c.op \in Operations
    /\ c.op = "br"     => c.to \in DOMAIN bs
    /\ c.op = "condbr" => {c.then, c.else} \subseteq DOMAIN bs /\ bs[c.then].fn = bs[c.else].fn
    /\ c.op = "call"   => c.fn \in DOMAIN fs

Block(b) == b = [fn |-> b.fn, name |-> b.name, code |-> b.code] /\ Sequence(b.code)
BlocksAre(bs, fs) ==
    /\ Sequence(bs)
    /\ MainBlock \in DOMAIN bs /\ bs[MainBlock].fn = "main"
    /\ \A b \in DOMAIN bs : Block(bs[b]) /\ \A i \in DOMAIN bs[b].code : Instruction(bs[b].code[i], bs, fs)

(* What compile still has to do is a statement, or the end of a body, of   *)
(* which the next block is there.                                          *)
ToCompile(t, bs) ==
    /\ t.do \in {"node", "else", "merge", "end"}
    /\ t.do \in {"node", "else"} => t.node \in Trees
    /\ t.do = "else"  => t.node.op = "if" /\ {t.block, t.block + 1} \subseteq DOMAIN bs
    /\ t.do = "merge" => t.block \in DOMAIN bs
TodoIs(ts, bs) == Sequence(ts) /\ \A i \in DOMAIN ts : ToCompile(ts[i], bs)

CodeInv ==
    /\ BlocksAre(blocks, funs) /\ insert \in DOMAIN blocks
    /\ TodoIs(todo, blocks)
    /\ \A f \in DOMAIN funs : funs[f].block \in DOMAIN blocks
    /\ \A a \in DOMAIN arrays : Sequence(arrays[a].values)
    /\ last \in {"none", "value", "ret"}
    /\ phase \in {"compile", "rejected", "run", "exited", "undefined", "thrown"}

(* What the verifier has seen of each block, as far as control goes.       *)
Checked(b) ==
    /\ blocks[b].code # <<>>
    /\ \A i \in DOMAIN blocks[b].code :
          LET c == blocks[b].code[i]
          IN  /\ c.op \in Terminators <=> i = Len(blocks[b].code)
              /\ c.op = "br"     => blocks[c.to].fn = blocks[b].fn
              /\ c.op = "condbr" => blocks[c.then].fn = blocks[b].fn
Stands(f) == f.block \in DOMAIN blocks /\ f.at \in DOMAIN blocks[f.block].code

RunInv ==
    /\ frames \in Seq([block : Nat, at : Nat])
    /\ \A i \in DOMAIN frames : Stands(frames[i])
    /\ phase = "compile" => frames = <<>>
    /\ phase = "run" =>
         /\ \A b \in DOMAIN blocks : Checked(b)
         /\ frames # <<>> /\ blocks[frames[Len(frames)].block].fn = "main"

-----------------------------------------------------------------------------
(* What the builder appends.                                               *)
LEMMA InstructionStays ==
    ASSUME NEW bs, NEW fs, NEW ds, NEW gs,
           DOMAIN bs \subseteq DOMAIN ds, \A b \in DOMAIN bs : ds[b].fn = bs[b].fn,
           DOMAIN fs \subseteq DOMAIN gs
    PROVE  \A c : Instruction(c, bs, fs) => Instruction(c, ds, gs)
BY DEF Instruction

LEMMA ToCompileStays ==
    ASSUME NEW ts, NEW bs, NEW ds, TodoIs(ts, bs), DOMAIN bs \subseteq DOMAIN ds
    PROVE  TodoIs(ts, ds)
BY DEF TodoIs, ToCompile

LEMMA EmitShape ==
    ASSUME BlocksAre(blocks, funs), NEW at \in DOMAIN blocks, NEW ins, Sequence(ins),
           NEW bs, bs = Emit(ins, at)
    PROVE  /\ Sequence(bs) /\ Len(bs) = Len(blocks) /\ DOMAIN bs = DOMAIN blocks
           /\ \A b \in DOMAIN blocks : bs[b].fn = blocks[b].fn /\ Block(bs[b])
           /\ \A b \in DOMAIN blocks : b # at => bs[b] = blocks[b]
           /\ bs[at].code = blocks[at].code \o ins
<1> DEFINE x == [blocks[at] EXCEPT !.code = blocks[at].code \o ins]
<1>1. bs = [blocks EXCEPT ![at] = x]
  BY DEF Emit
<1>2. Sequence(blocks) /\ \A b \in DOMAIN blocks : Block(blocks[b])
  BY DEF BlocksAre
<1>3. x.fn = blocks[at].fn /\ x.name = blocks[at].name /\ x.code = blocks[at].code \o ins
      /\ x = [fn |-> x.fn, name |-> x.name, code |-> x.code]
  <2>1. PICK n, m, k : blocks[at] = [fn |-> n, name |-> m, code |-> k]
    BY <1>2 DEF Block
  <2> DEFINE l == blocks[at].code \o ins
  <2> HIDE DEF l
  <2>2. x = [blocks[at] EXCEPT !.code = l]
    BY DEF l
  <2>3. x = [fn |-> n, name |-> m, code |-> l]
    BY <2>1, <2>2
  <2>4. QED
    BY <2>1, <2>3 DEF l
<1>4. Sequence(blocks[at].code \o ins)
  BY <1>2, Joined DEF Join, Block
<1>5. Block(x)
  BY <1>3, <1>4 DEF Block
<1> HIDE DEF x
<1>6. Sequence(bs) /\ Len(bs) = Len(blocks)
  <2>1. Len(blocks) \in Nat /\ DOMAIN blocks = 1..Len(blocks)
    BY <1>2, SequenceIs
  <2>2. bs = [k \in 1..Len(blocks) |-> bs[k]]
    BY <1>1, <2>1
  <2>3. QED
    BY <2>1, <2>2, Listed
<1>7. DOMAIN bs = DOMAIN blocks /\ bs[at] = x /\ \A b \in DOMAIN blocks : b # at => bs[b] = blocks[b]
  BY <1>1
<1>8. QED
  BY <1>2, <1>3, <1>5, <1>6, <1>7

(* So an instruction in the blocks after it was there before, or is new.   *)
LEMMA Emitted ==
    ASSUME BlocksAre(blocks, funs), NEW at \in DOMAIN blocks, NEW ins, Sequence(ins),
           NEW bs, bs = Emit(ins, at), NEW b \in DOMAIN blocks, NEW i \in DOMAIN bs[b].code
    PROVE  \/ \E j \in DOMAIN blocks[b].code : bs[b].code[i] = blocks[b].code[j]
           \/ \E j \in DOMAIN ins : bs[b].code[i] = ins[j]
<1>1. CASE b # at
  BY <1>1, EmitShape
<1>2. CASE b = at
  <2> DEFINE c == blocks[at].code
  <2>1. bs[b].code = c \o ins
    BY <1>2, EmitShape
  <2>2. Sequence(c)
    BY DEF BlocksAre, Block
  <2> HIDE DEF c
  <2>3. i \in DOMAIN (c \o ins)
    BY <2>1
  <2>4. CASE i \in DOMAIN c
    <3>1. (c \o ins)[i] = c[i]
      BY <2>2, <2>4, Joined DEF Join
    <3>2. QED
      BY <1>2, <2>1, <2>4, <3>1 DEF c
  <2>5. CASE i \notin DOMAIN c
    <3>1. Join(c, ins)
      BY <2>2, Joined
    <3>2. i - Len(c) \in DOMAIN ins /\ (c \o ins)[i] = ins[i - Len(c)]
      BY <2>3, <2>5, <3>1 DEF Join
    <3>3. QED
      BY <2>1, <3>2
  <2>6. QED
    BY <2>4, <2>5
<1>3. QED
  BY <1>1, <1>2

LEMMA EmitKeeps ==
    ASSUME BlocksAre(blocks, funs), NEW at \in DOMAIN blocks, NEW ins, Sequence(ins),
           NEW bs, bs = Emit(ins, at), \A i \in DOMAIN ins : Instruction(ins[i], blocks, funs)
    PROVE  BlocksAre(bs, funs)
<1>1. /\ Sequence(bs) /\ DOMAIN bs = DOMAIN blocks
      /\ \A b \in DOMAIN blocks : bs[b].fn = blocks[b].fn /\ Block(bs[b])
  BY EmitShape
<1>2. ASSUME NEW b \in DOMAIN bs, NEW i \in DOMAIN bs[b].code PROVE Instruction(bs[b].code[i], bs, funs)
  <2>1. Instruction(bs[b].code[i], blocks, funs)
    <3>1. CASE \E j \in DOMAIN blocks[b].code : bs[b].code[i] = blocks[b].code[j]
      BY <1>1, <3>1 DEF BlocksAre
    <3>2. CASE \E j \in DOMAIN ins : bs[b].code[i] = ins[j]
      BY <3>2
    <3>3. QED
      BY <1>1, <3>1, <3>2, Emitted
  <2>2. \A c : Instruction(c, blocks, funs) => Instruction(c, bs, funs)
    BY <1>1, InstructionStays
  <2>3. QED
    BY <2>1, <2>2
<1>3. QED
  BY <1>1, <1>2 DEF BlocksAre

LEMMA StraightKeeps ==
    ASSUME CodeInv, NEW at \in DOMAIN blocks, NEW ins, Sequence(ins),
           \A i \in DOMAIN ins : Instruction(ins[i], blocks, funs),
           blocks' = Emit(ins, at), insert' \in DOMAIN blocks, funs' = funs,
           TodoIs(todo', blocks), \A a \in DOMAIN arrays' : Sequence(arrays'[a].values),
           last' \in {"none", "value", "ret"}, phase' = phase
    PROVE  CodeInv'
<1>1. BlocksAre(blocks, funs)
  BY DEF CodeInv
<1>2. BlocksAre(blocks', funs)
  BY <1>1, EmitKeeps
<1>3. DOMAIN blocks' = DOMAIN blocks
  BY <1>1, EmitShape
<1>4. TodoIs(todo', blocks')
  BY <1>3, ToCompileStays
<1>5. QED
  BY <1>2, <1>3, <1>4 DEF CodeInv

(* A handler that emits nothing.                                           *)
LEMMA NothingKeeps ==
    ASSUME CodeInv, blocks' = blocks, insert' \in DOMAIN blocks, funs' = funs,
           TodoIs(todo', blocks), \A a \in DOMAIN arrays' : Sequence(arrays'[a].values),
           last' \in {"none", "value", "ret"},
           phase' \in {"compile", "rejected", "run", "exited", "undefined", "thrown"}
    PROVE  CodeInv'
BY DEF CodeInv

-----------------------------------------------------------------------------
(* What the handlers emit.                                                 *)
Good(ins) == Sequence(ins) /\ \A i \in DOMAIN ins : Instruction(ins[i], blocks, funs)

LEMMA GoodOne == \A c : Instruction(c, blocks, funs) => Good(<<c>>)
<1> SUFFICES ASSUME NEW c, Instruction(c, blocks, funs) PROVE Good(<<c>>)
  OBVIOUS
<1>1. Sequence(<<c>>)
  BY Single
<1>2. QED
  BY <1>1 DEF Good

LEMMA GoodNone == Good(<<>>)
BY Empty DEF Good

LEMMA GoodBoth ==
    ASSUME NEW s, NEW t, Good(s), Good(t)
    PROVE  Good(s \o t)
<1>1. Sequence(s) /\ Sequence(t)
  BY DEF Good
<1>2. Join(s, t)
  BY <1>1, Joined
<1>3. ASSUME NEW i \in DOMAIN (s \o t) PROVE Instruction((s \o t)[i], blocks, funs)
  <2>1. CASE i \in DOMAIN s
    <3>1. (s \o t)[i] = s[i]
      BY <1>2, <2>1 DEF Join
    <3>2. QED
      BY <2>1, <3>1 DEF Good
  <2>2. CASE i \notin DOMAIN s
    <3>1. i - Len(s) \in DOMAIN t /\ (s \o t)[i] = t[i - Len(s)]
      BY <1>2, <1>3, <2>2 DEF Join
    <3>2. QED
      BY <3>1 DEF Good
  <2>3. QED
    BY <2>1, <2>2
<1>4. QED
  BY <1>2, <1>3 DEF Good, Join

LEMMA GoodStore == \A v, p : Good(Store(v, p)) /\ Good(Extended(v, p))
<1> SUFFICES ASSUME NEW v, NEW p PROVE Good(Store(v, p)) /\ Good(Extended(v, p))
  OBVIOUS
<1>1. \A a : Instruction([op |-> "store", value |-> v, place |-> p, as |-> a], blocks, funs)
  BY DEF Instruction, Operations
<1>2. QED
  BY <1>1, GoodOne DEF Store, Extended

LEMMA GoodGlobal == \A v, type, p : Good(GlobalStore(v, type, p))
<1> SUFFICES ASSUME NEW v, NEW type, NEW p PROVE Good(GlobalStore(v, type, p))
  OBVIOUS
<1>1. GlobalStore(v, type, p) \in {Store(v, p), Extended(v, p), <<>>}
  BY Zenon DEF GlobalStore
<1>2. QED
  BY <1>1, GoodStore, GoodNone

LEMMA TopIs ==
    ASSUME CodeInv, todo # <<>>
    PROVE  ToCompile(Top, blocks) /\ TodoIs(Rest, blocks)
<1>1. Sequence(todo) /\ \A i \in DOMAIN todo : ToCompile(todo[i], blocks)
  BY DEF CodeInv, TodoIs
<1>2. /\ Sequence(Tail(todo)) /\ 1 \in DOMAIN todo
      /\ \A i \in DOMAIN Tail(todo) : i + 1 \in DOMAIN todo /\ Tail(todo)[i] = todo[i + 1]
  BY <1>1, Rested
<1>3. \A i \in DOMAIN Tail(todo) : ToCompile(Tail(todo)[i], blocks)
  BY <1>1, <1>2
<1>4. QED
  BY <1>1, <1>2, <1>3 DEF TodoIs, Top, Rest

LEMMA NodeIs ==
    ASSUME CodeInv, AtNode
    PROVE  Top.node \in Trees /\ TodoIs(Rest, blocks)
<1>1. todo # <<>> /\ Top.do = "node"
  BY DEF AtNode
<1>2. QED
  BY <1>1, TopIs DEF ToCompile

(* What is called has been generated.                                      *)
LEMMA GoodCalls ==
    ASSUME CodeInv, AtNode, Ready, NEW e \in Uses(Top.node)
    PROVE  Good(Calls(e, Top.table))
<1>1. CASE e.op # "call"
  BY <1>1, GoodNone DEF Calls
<1>2. CASE e.op = "call"
  <2> DEFINE as == [a \in DOMAIN e.args |-> Argument(e.args[a], Top.table)]
  <2>1. Known(e, Top.table)
    BY DEF Ready, Null
  <2>2. e.name \in DOMAIN funs
    BY <1>2, <2>1 DEF Known
  <2>3. Calls(e, Top.table) = <<[op |-> "call", fn |-> e.name, args |-> as]>>
    BY <1>2 DEF Calls
  <2> HIDE DEF as
  <2>4. Instruction([op |-> "call", fn |-> e.name, args |-> as], blocks, funs)
    BY <2>2 DEF Instruction, Operations
  <2>5. QED
    BY <2>3, <2>4, GoodOne
<1>3. QED
  BY <1>1, <1>2

(* A handler that appends to a block and goes on to the next statement.    *)
LEMMA StraightOn ==
    ASSUME CodeInv, AtNode, NEW at \in DOMAIN blocks, NEW ins, Good(ins), blocks' = Emit(ins, at),
           insert' \in DOMAIN blocks, funs' = funs, todo' = Rest,
           \A a \in DOMAIN arrays' : Sequence(arrays'[a].values),
           last' \in {"none", "value", "ret"}, phase' = phase
    PROVE  CodeInv'
BY NodeIs, StraightKeeps DEF Good

LEMMA BlocksThere == CodeInv => MainBlock \in DOMAIN blocks /\ insert \in DOMAIN blocks
                          /\ \A a \in DOMAIN arrays : Sequence(arrays[a].values)
BY DEF CodeInv, BlocksAre

-----------------------------------------------------------------------------
(* A step of each handler.                                                 *)
LEMMA ValueUsed ==
    AtNode /\ Top.node.op \in {"definition", "assignment", "print", "return", "put"}
        => Top.node.value \in Uses(Top.node)
BY DEF Uses

LEMMA CallUsed == AtNode /\ Top.node.op = "call" => Top.node \in Uses(Top.node)
BY DEF Uses

LEMMA GlobalDefinitionKeeps == CodeInv /\ GlobalDefinition => CodeInv'
<1> SUFFICES ASSUME CodeInv, GlobalDefinition PROVE CodeInv'
  OBVIOUS
<1> DEFINE n == Top.node
           ins == Calls(n.value, Top.table)
                    \o GlobalStore(Compiled(n.value, Top.table, n.type), n.type, <<"main", n.name>>)
<1>1. AtNode /\ Ready /\ n.op = "definition"
  BY DEF GlobalDefinition, Node
<1>2. Good(Calls(n.value, Top.table))
  BY <1>1, GoodCalls, ValueUsed
<1>3. Good(ins)
  BY <1>2, GoodGlobal, GoodBoth
<1>4. blocks' = Emit(ins, insert)
  BY DEF GlobalDefinition
<1> HIDE DEF ins
<1>5. insert' = MainBlock /\ todo' = Rest /\ last' = "value" /\ phase' = phase /\ funs' = funs /\ arrays' = arrays
  BY DEF GlobalDefinition, Done, AfterGlobal
<1>6. QED
  BY <1>1, <1>3, <1>4, <1>5, BlocksThere, StraightOn

LEMMA GlobalDeclarationKeeps == CodeInv /\ GlobalDeclaration => CodeInv'
<1> SUFFICES ASSUME CodeInv, GlobalDeclaration PROVE CodeInv'
  OBVIOUS
<1>1. AtNode /\ insert' = MainBlock /\ todo' = Rest /\ last' = "value" /\ phase' = phase
      /\ blocks' = blocks /\ funs' = funs /\ arrays' = arrays
  BY DEF GlobalDeclaration, Node, Done, AfterGlobal
<1>2. phase' \in {"compile", "rejected", "run", "exited", "undefined", "thrown"}
  BY <1>1 DEF CodeInv
<1>3. QED
  BY <1>1, <1>2, NodeIs, BlocksThere, NothingKeeps

LEMMA LocalVariableKeeps == CodeInv /\ LocalVariable => CodeInv'
<1> SUFFICES ASSUME CodeInv, LocalVariable PROVE CodeInv'
  OBVIOUS
<1> DEFINE n == Top.node
           v == IF n.op = "definition" THEN Compiled(n.value, Top.table, "int") ELSE Literal(map_type[n.type], 0)
           cs == IF n.op = "definition" THEN Calls(n.value, Top.table) ELSE <<>>
           ins == cs \o Store(v, <<Top.table.fn, n.name>>)
<1>1. AtNode /\ Ready
  BY DEF LocalVariable, Node
<1>2. Good(cs)
  <2>1. n.op = "definition" => Good(Calls(n.value, Top.table))
    BY <1>1, GoodCalls, ValueUsed
  <2>2. QED
    BY <2>1, GoodNone
<1>3. blocks' = Emit(ins, insert)
  BY DEF LocalVariable
<1> HIDE DEF cs, v
<1>4. Good(ins)
  BY <1>2, GoodStore, GoodBoth
<1> HIDE DEF ins
<1>5. insert' = insert /\ todo' = Rest /\ last' = "value" /\ phase' = phase /\ funs' = funs /\ arrays' = arrays
  BY DEF LocalVariable, Done
<1>6. QED
  BY <1>1, <1>3, <1>4, <1>5, BlocksThere, StraightOn

LEMMA AssignmentKeeps == CodeInv /\ Assignment => CodeInv'
<1> SUFFICES ASSUME CodeInv, Assignment PROVE CodeInv'
  OBVIOUS
<1> DEFINE n == Top.node
           at == IF is_global_sym(n.name, Top.table) THEN MainBlock ELSE insert
           v == IF n.assign = "=" THEN Compiled(n.value, Top.table, "int") ELSE Value("bad", "literal")
           ins == Calls(n.value, Top.table) \o Store(v, PlaceOf(n.name, Top.table))
<1>1. AtNode /\ Ready /\ n.op = "assignment"
  BY DEF Assignment, Node
<1>2. Good(Calls(n.value, Top.table))
  BY <1>1, GoodCalls, ValueUsed
<1>3. blocks' = Emit(ins, at) /\ insert' = at
  BY DEF Assignment
<1>4. at \in DOMAIN blocks
  BY BlocksThere
<1> HIDE DEF v, at
<1>5. Good(ins)
  BY <1>2, GoodStore, GoodBoth
<1> HIDE DEF ins
<1>6. todo' = Rest /\ last' = "value" /\ phase' = phase /\ funs' = funs /\ arrays' = arrays
  BY DEF Assignment, Done
<1>7. QED
  BY <1>1, <1>3, <1>4, <1>5, <1>6, BlocksThere, StraightOn

LEMMA ElementAssignmentKeeps == CodeInv /\ ElementAssignment => CodeInv'
<1> SUFFICES ASSUME CodeInv, ElementAssignment PROVE CodeInv'
  OBVIOUS
<1> DEFINE n == Top.node
           at == IF is_global_sym(n.name, Top.table) THEN MainBlock ELSE insert
           ins == Store(Compiled(n.value, Top.table, "int"), PlaceOf(n.name, Top.table))
<1>1. AtNode
  BY DEF ElementAssignment, Node
<1>2. blocks' = Emit(ins, at) /\ insert' = at
  BY DEF ElementAssignment
<1>3. at \in DOMAIN blocks
  BY BlocksThere
<1>4. Good(ins)
  BY GoodStore
<1> HIDE DEF ins, at
<1>5. todo' = Rest /\ last' = "value" /\ phase' = phase /\ funs' = funs /\ arrays' = arrays
  BY DEF ElementAssignment, Done
<1>6. QED
  BY <1>1, <1>2, <1>3, <1>4, <1>5, BlocksThere, StraightOn

LEMMA CallStatementKeeps == CodeInv /\ CallStatement => CodeInv'
<1> SUFFICES ASSUME CodeInv, CallStatement PROVE CodeInv'
  OBVIOUS
<1>1. AtNode /\ Ready /\ Top.node.op = "call"
  BY DEF CallStatement, Node
<1>2. Good(Calls(Top.node, Top.table))
  BY <1>1, GoodCalls, CallUsed
<1>3. blocks' = Emit(Calls(Top.node, Top.table), insert) /\ insert' = insert
      /\ todo' = Rest /\ last' = "value" /\ phase' = phase /\ funs' = funs /\ arrays' = arrays
  BY DEF CallStatement, Done
<1>4. QED
  BY <1>1, <1>2, <1>3, BlocksThere, StraightOn

LEMMA ReturnKeeps == CodeInv /\ Return => CodeInv'
<1> SUFFICES ASSUME CodeInv, Return PROVE CodeInv'
  OBVIOUS
<1> DEFINE n == Top.node
           v == Compiled(n.value, Top.table, "int")
           ins == Calls(n.value, Top.table) \o <<[op |-> "ret", value |-> v]>>
<1>1. AtNode /\ Ready /\ n.op = "return"
  BY DEF Return, Node
<1>2. Good(Calls(n.value, Top.table))
  BY <1>1, GoodCalls, ValueUsed
<1>3. blocks' = Emit(ins, insert)
  BY DEF Return
<1> HIDE DEF v
<1>4. Instruction([op |-> "ret", value |-> v], blocks, funs)
  BY DEF Instruction, Operations
<1>5. Good(ins)
  BY <1>2, <1>4, GoodOne, GoodBoth
<1> HIDE DEF ins
<1>6. insert' = insert /\ todo' = Rest /\ last' = "ret" /\ phase' = phase /\ funs' = funs /\ arrays' = arrays
  BY DEF Return
<1>7. QED
  BY <1>1, <1>3, <1>5, <1>6, BlocksThere, StraightOn

LEMMA ForLoopKeeps == CodeInv /\ ForLoop => CodeInv'
<1> SUFFICES ASSUME CodeInv, ForLoop PROVE CodeInv'
  OBVIOUS
<1>1. AtNode /\ insert' = insert /\ todo' = Rest /\ last' = "value" /\ phase' = phase
      /\ blocks' = blocks /\ funs' = funs /\ arrays' = arrays
  BY DEF ForLoop, Node, Done
<1>2. phase' \in {"compile", "rejected", "run", "exited", "undefined", "thrown"}
  BY <1>1 DEF CodeInv
<1>3. QED
  BY <1>1, <1>2, NodeIs, BlocksThere, NothingKeeps

LEMMA GoodList ==
    ASSUME NEW vs, Sequence(vs), NEW g, g = [i \in DOMAIN vs |-> g[i]],
           \A i \in DOMAIN vs : Instruction(g[i], blocks, funs)
    PROVE  Good(g)
<1>1. Len(vs) \in Nat /\ DOMAIN vs = 1..Len(vs)
  BY SequenceIs
<1>2. g = [i \in 1..Len(vs) |-> g[i]]
  BY <1>1
<1>3. Sequence(g)
  BY <1>1, <1>2, Listed
<1>4. DOMAIN g = DOMAIN vs
  OBVIOUS
<1>5. QED
  BY <1>3, <1>4 DEF Good

LEMMA EmitNothing ==
    ASSUME CodeInv
    PROVE  Emit(<<>>, insert) = blocks
<1>1. Sequence(blocks) /\ Block(blocks[insert]) /\ Sequence(blocks[insert].code) /\ insert \in DOMAIN blocks
  BY DEF CodeInv, BlocksAre, Block
<1>2. blocks[insert].code \o <<>> = blocks[insert].code
  BY <1>1, ConcatEmptySeq DEF Sequence
<1>3. [blocks[insert] EXCEPT !.code = blocks[insert].code] = blocks[insert]
  <2>1. PICK f, m, k : blocks[insert] = [fn |-> f, name |-> m, code |-> k]
    BY <1>1 DEF Block
  <2>2. QED
    BY <2>1
<1>4. Emit(<<>>, insert) = [blocks EXCEPT ![insert] = blocks[insert]]
  BY <1>2, <1>3 DEF Emit
<1>5. QED
  BY <1>1, <1>4 DEF Sequence

LEMMA ArrayDefinitionKeeps == CodeInv /\ ArrayDefinition => CodeInv'
<1> SUFFICES ASSUME CodeInv, ArrayDefinition PROVE CodeInv'
  OBVIOUS
<1> DEFINE n == Top.node
           ins == [i \in DOMAIN n.values |-> Store(Literal("i32", n.values[i]), <<"main", n.name>>)[1]]
<1>1. AtNode /\ n.op = "array"
  BY DEF ArrayDefinition, Node
<1>2. Sequence(n.values)
  BY <1>1, NodeIs, ProgramAssumption, SequenceOf
<1>3. Good(ins)
  <2>1. ASSUME NEW i \in DOMAIN n.values PROVE Instruction(ins[i], blocks, funs)
    <3> DEFINE v == Literal("i32", n.values[i])
               p == <<"main", n.name>>
    <3>1. ins[i] = Store(v, p)[1]
      OBVIOUS
    <3> HIDE DEF v, p
    <3>2. ins[i].op = "store"
      BY <3>1 DEF Store
    <3>3. QED
      BY <3>2 DEF Instruction, Operations
  <2>2. ins = [i \in DOMAIN n.values |-> ins[i]]
    OBVIOUS
  <2> HIDE DEF ins
  <2>3. QED
    BY <1>2, <2>1, <2>2, GoodList
<1>4. \E is : Good(is) /\ blocks' = Emit(is, insert)
  <2>1. CASE n.kind = "dynamic"
    BY <1>3, <2>1 DEF ArrayDefinition
  <2>2. CASE n.kind # "dynamic"
    <3>1. blocks' = blocks
      BY <2>2 DEF ArrayDefinition
    <3>2. Emit(<<>>, insert) = blocks
      BY EmitNothing
    <3>3. QED
      BY <3>1, <3>2, GoodNone
  <2>3. QED
    BY <2>1, <2>2
<1>5. \A a \in DOMAIN arrays' : Sequence(arrays'[a].values)
  <2> DEFINE p == <<"main", n.name>>
             x == [kind |-> n.kind, values |-> n.values]
  <2>1. arrays' = With(arrays, p, x) /\ x.values = n.values
    BY DEF ArrayDefinition
  <2> HIDE DEF p, x
  <2>2. \A a \in DOMAIN arrays' : arrays'[a] = x \/ (a \in DOMAIN arrays /\ arrays'[a] = arrays[a])
    BY <2>1 DEF With
  <2>3. QED
    BY <1>2, <2>1, <2>2, BlocksThere
<1>6. insert' = insert /\ todo' = Rest /\ last' = "value" /\ phase' = phase /\ funs' = funs
  BY DEF ArrayDefinition, Done
<1>7. QED
  BY <1>1, <1>4, <1>5, <1>6, BlocksThere, StraightOn

LEMMA PrintCallKeeps == CodeInv /\ PrintCall => CodeInv'
<1> SUFFICES ASSUME CodeInv, PrintCall PROVE CodeInv'
  OBVIOUS
<1> DEFINE vs == Printed(Top.node.value, Top.table)
           ins == [i \in DOMAIN vs |-> [op |-> "print", value |-> vs[i], shown |-> printf_format(Top.node.value, vs[i])]]
<1>1. AtNode /\ blocks' = Emit(ins, insert) /\ insert' = insert
      /\ todo' = Rest /\ last' = "value" /\ phase' = phase /\ funs' = funs /\ arrays' = arrays
  BY DEF PrintCall, Node, Done
<1>2. Sequence(vs)
  <2> DEFINE e == Top.node.value
             p == PlaceOf(e.name, Top.table)
             as == arrays[p].values
             ls == [i \in DOMAIN as |-> Literal("i32", as[i])]
             c == Compiled(e, Top.table, "int")
  <2>1. vs = IF e.op = "name" /\ p \in DOMAIN arrays THEN ls ELSE <<c>>
    BY DEF Printed
  <2> HIDE DEF c, p, e, vs
  <2>2. p \in DOMAIN arrays => Sequence(ls)
    <3>1. HAVE p \in DOMAIN arrays
    <3>2. Sequence(as)
      BY <3>1, BlocksThere
    <3>3. Len(as) \in Nat /\ DOMAIN as = 1..Len(as)
      BY <3>2, SequenceIs
    <3>4. ls = [i \in 1..Len(as) |-> ls[i]]
      BY <3>3
    <3> HIDE DEF ls, as
    <3>5. QED
      BY <3>3, <3>4, Listed
  <2>3. Sequence(<<c>>)
    BY Single
  <2>4. QED
    BY <2>1, <2>2, <2>3
<1> HIDE DEF vs
<1>3. Good(ins)
  <2>1. ASSUME NEW i \in DOMAIN vs PROVE Instruction(ins[i], blocks, funs)
    BY DEF Instruction, Operations
  <2>2. ins = [i \in DOMAIN vs |-> ins[i]]
    OBVIOUS
  <2> HIDE DEF ins
  <2>3. QED
    BY <1>2, <2>1, <2>2, GoodList
<1> HIDE DEF ins
<1>4. QED
  BY <1>1, <1>3, BlocksThere, StraightOn

LEMMA GivesUpKeeps == CodeInv /\ (Throws \/ Undefined) => CodeInv'
<1> SUFFICES ASSUME CodeInv, Throws \/ Undefined PROVE CodeInv'
  OBVIOUS
<1>1. /\ todo' = todo /\ blocks' = blocks /\ insert' = insert /\ arrays' = arrays /\ funs' = funs /\ last' = last
      /\ phase' \in {"thrown", "undefined"}
  BY DEF Throws, Undefined, code
<1>2. QED
  BY <1>1 DEF CodeInv

-----------------------------------------------------------------------------
(* Bodies: their statements are still to be compiled, then their end.      *)
LEMMA TodoBoth ==
    ASSUME NEW bs, NEW s, NEW t, TodoIs(s, bs), TodoIs(t, bs)
    PROVE  TodoIs(s \o t, bs)
<1>1. Sequence(s) /\ Sequence(t)
  BY DEF TodoIs
<1>2. Join(s, t)
  BY <1>1, Joined
<1>3. ASSUME NEW i \in DOMAIN (s \o t) PROVE ToCompile((s \o t)[i], bs)
  <2>1. CASE i \in DOMAIN s
    <3>1. (s \o t)[i] = s[i]
      BY <1>2, <2>1 DEF Join
    <3>2. QED
      BY <2>1, <3>1 DEF TodoIs
  <2>2. CASE i \notin DOMAIN s
    <3>1. i - Len(s) \in DOMAIN t /\ (s \o t)[i] = t[i - Len(s)]
      BY <1>2, <1>3, <2>2 DEF Join
    <3>2. QED
      BY <3>1 DEF TodoIs
  <2>3. QED
    BY <2>1, <2>2
<1>4. QED
  BY <1>2, <1>3 DEF TodoIs, Join

LEMMA TodoOne == \A bs, x : ToCompile(x, bs) => TodoIs(<<x>>, bs)
<1> SUFFICES ASSUME NEW bs, NEW x, ToCompile(x, bs) PROVE TodoIs(<<x>>, bs)
  OBVIOUS
<1>1. Sequence(<<x>>)
  BY Single
<1>2. QED
  BY <1>1 DEF TodoIs

LEMMA TodoBody ==
    ASSUME NEW nodes \in Seq(Trees), NEW table, NEW bs
    PROVE  TodoIs(NodesOf(nodes, table), bs)
<1> DEFINE ts == NodesOf(nodes, table)
<1>1. Len(nodes) \in Nat /\ DOMAIN nodes = 1..Len(nodes)
  OBVIOUS
<1>2. ts = [i \in 1..Len(nodes) |-> ts[i]]
  BY <1>1 DEF NodesOf
<1>3. \A i \in DOMAIN ts : ts[i].do = "node" /\ ts[i].node = nodes[i] /\ nodes[i] \in Trees
  BY <1>1, ElementOfSeq DEF NodesOf
<1>4. \A i \in DOMAIN ts : ToCompile(ts[i], bs)
  BY <1>3 DEF ToCompile
<1> HIDE DEF ts
<1>5. Sequence(ts)
  BY <1>1, <1>2, Listed
<1>6. QED
  BY <1>4, <1>5 DEF TodoIs, ts

LEMMA GoodBranch == \A to \in DOMAIN blocks : Good(Branch(to))
<1> SUFFICES ASSUME NEW to \in DOMAIN blocks PROVE Good(Branch(to))
  OBVIOUS
<1>1. Instruction([op |-> "br", to |-> to], blocks, funs)
  BY DEF Instruction, Operations
<1>2. QED
  BY <1>1, GoodOne, GoodNone DEF Branch

LEMMA ElseKeeps == CodeInv /\ Else => CodeInv'
<1> SUFFICES ASSUME CodeInv, Else PROVE CodeInv'
  OBVIOUS
<1> DEFINE b == Top.block
           end == [do |-> "merge", block |-> b + 1]
           body == NodesOf(Alternate(Top.node), Top.table)
<1>1. todo # <<>> /\ Top.do = "else"
  BY DEF Else
<1>2. /\ Top.node \in Trees /\ Top.node.op = "if" /\ b \in DOMAIN blocks /\ b + 1 \in DOMAIN blocks
      /\ TodoIs(Rest, blocks)
  BY <1>1, TopIs DEF ToCompile
<1>3. Alternate(Top.node) \in Seq(Trees)
  <2>1. <<>> \in Seq(Trees)
    OBVIOUS
  <2>2. QED
    BY <1>2, <2>1, ProgramAssumption DEF Alternate
<1>4. TodoIs(body, blocks)
  BY <1>3, TodoBody
<1>5. TodoIs(<<end>>, blocks)
  <2>1. ToCompile(end, blocks)
    BY <1>2 DEF ToCompile
  <2>2. QED
    BY <2>1, TodoOne
<1>6. /\ blocks' = Emit(Branch(b + 1), insert) /\ insert' = b
      /\ todo' = (body \o <<end>>) \o Rest /\ last' = "none"
      /\ phase' = phase /\ funs' = funs /\ arrays' = arrays
  BY DEF Else
<1> HIDE DEF body, end
<1>7. TodoIs(todo', blocks)
  BY <1>2, <1>4, <1>5, <1>6, TodoBoth
<1>8. Good(Branch(b + 1))
  BY <1>2, GoodBranch
<1>9. QED
  BY <1>2, <1>6, <1>7, <1>8, BlocksThere, StraightKeeps DEF Good

LEMMA MergeKeeps == CodeInv /\ Merge => CodeInv'
<1> SUFFICES ASSUME CodeInv, Merge PROVE CodeInv'
  OBVIOUS
<1>1. todo # <<>> /\ Top.do = "merge"
  BY DEF Merge
<1>2. Top.block \in DOMAIN blocks /\ TodoIs(Rest, blocks)
  BY <1>1, TopIs DEF ToCompile
<1>3. /\ blocks' = Emit(Branch(Top.block), insert) /\ insert' = Top.block
      /\ todo' = Rest /\ last' = "value" /\ phase' = phase /\ funs' = funs /\ arrays' = arrays
  BY DEF Merge, Done
<1>4. Good(Branch(Top.block))
  BY <1>2, GoodBranch
<1>5. QED
  BY <1>2, <1>3, <1>4, BlocksThere, StraightKeeps DEF Good

LEMMA FunctionEndKeeps == CodeInv /\ FunctionEnd => CodeInv'
<1> SUFFICES ASSUME CodeInv, FunctionEnd PROVE CodeInv'
  OBVIOUS
<1> DEFINE f == Top.node.name
           at == IF Open(f) = {} THEN insert ELSE CHOOSE b \in Open(f) : TRUE
           one == IF Open(f) = {} THEN <<>> ELSE <<[op |-> "unreachable"]>>
           two == IF Top.node.type = "void" THEN <<[op |-> "retvoid"]>> ELSE <<>>
<1>1. at \in DOMAIN blocks
  <2>1. Open(f) \subseteq DOMAIN blocks
    BY DEF Open
  <2>2. Open(f) # {} => (CHOOSE b \in Open(f) : TRUE) \in Open(f)
    OBVIOUS
  <2>3. QED
    BY <2>1, <2>2, BlocksThere
<1>2. Good(one) /\ Good(two)
  <2>1. Instruction([op |-> "unreachable"], blocks, funs) /\ Instruction([op |-> "retvoid"], blocks, funs)
    BY DEF Instruction, Operations
  <2>2. QED
    BY <2>1, GoodOne, GoodNone
<1>3. todo # <<>> /\ blocks' = Emit(one \o two, at) /\ insert' = MainBlock
      /\ todo' = Rest /\ last' = "value" /\ phase' = phase /\ funs' = funs /\ arrays' = arrays
  BY DEF FunctionEnd, Done
<1> HIDE DEF at, one, two
<1>4. Good(one \o two)
  BY <1>2, GoodBoth
<1>5. TodoIs(Rest, blocks)
  BY <1>3, TopIs
<1>6. QED
  BY <1>1, <1>3, <1>4, <1>5, BlocksThere, StraightKeeps DEF Good

LEMMA FinishKeeps == CodeInv /\ Finish => CodeInv'
<1> SUFFICES ASSUME CodeInv, Finish PROVE CodeInv'
  OBVIOUS
<1> DEFINE c == [op |-> "ret", value |-> Literal("i32", 0)]
<1>1. Instruction(c, blocks, funs)
  BY DEF Instruction, Operations
<1> HIDE DEF c
<1>2. Good(<<c>>)
  BY <1>1, GoodOne
<1>3. blocks' = Emit(<<c>>, insert) /\ insert' = insert /\ todo' = todo /\ funs' = funs
      /\ arrays' = arrays /\ last' = last /\ phase' \in {"run", "rejected"}
  BY DEF Finish, Finished, c
<1>4. BlocksAre(blocks, funs) /\ insert \in DOMAIN blocks /\ Sequence(<<c>>)
      /\ \A i \in DOMAIN <<c>> : Instruction(<<c>>[i], blocks, funs)
  BY <1>2 DEF CodeInv, Good
<1>5. BlocksAre(blocks', funs)
  BY <1>3, <1>4, EmitKeeps
<1>6. DOMAIN blocks' = DOMAIN blocks
  BY <1>3, <1>4, EmitShape
<1>7. TodoIs(todo', blocks')
  BY <1>3, <1>6, ToCompileStays DEF CodeInv
<1>8. QED
  BY <1>3, <1>5, <1>6, <1>7 DEF CodeInv

-----------------------------------------------------------------------------
(* New blocks, after what is appended to one that was there.               *)
Grown(ds, ins, at, more) ==
    /\ Sequence(ds) /\ Len(ds) = Len(blocks) + Len(more) /\ DOMAIN blocks \subseteq DOMAIN ds
    /\ \A b \in DOMAIN blocks : ds[b] = Emit(ins, at)[b] /\ ds[b].fn = blocks[b].fn
    /\ \A b \in DOMAIN ds : b \in DOMAIN blocks \/ (b - Len(blocks) \in DOMAIN more /\ ds[b] = more[b - Len(blocks)])
    /\ \A i \in DOMAIN more : i + Len(blocks) \in DOMAIN ds /\ ds[i + Len(blocks)] = more[i]

LEMMA GrowShape ==
    ASSUME BlocksAre(blocks, funs), NEW at \in DOMAIN blocks, NEW ins, Sequence(ins), NEW more, Sequence(more),
           NEW ds, ds = Emit(ins, at) \o more
    PROVE  Grown(ds, ins, at, more)
<1> DEFINE bs == Emit(ins, at)
<1> HIDE DEF bs
<1>1. /\ Sequence(bs) /\ Len(bs) = Len(blocks) /\ DOMAIN bs = DOMAIN blocks
      /\ \A b \in DOMAIN blocks : bs[b].fn = blocks[b].fn
  BY EmitShape DEF bs
<1>2. ds = bs \o more
  BY DEF bs
<1>3. /\ Sequence(bs \o more) /\ Len(bs \o more) = Len(bs) + Len(more)
      /\ \A i \in DOMAIN bs : (bs \o more)[i] = bs[i]
      /\ \A i \in DOMAIN (bs \o more) : i \in DOMAIN bs \/ (i - Len(bs) \in DOMAIN more /\ (bs \o more)[i] = more[i - Len(bs)])
      /\ \A i \in DOMAIN more : i + Len(bs) \in DOMAIN (bs \o more) /\ (bs \o more)[i + Len(bs)] = more[i]
  <2>1. Join(bs, more)
    BY <1>1, Joined
  <2>2. QED
    BY <2>1 DEF Join
<1>4. DOMAIN blocks \subseteq DOMAIN ds
  <2>1. DOMAIN ds = 1..Len(ds) /\ DOMAIN bs = 1..Len(bs) /\ Len(more) \in Nat /\ Len(bs) \in Nat
    BY <1>1, <1>2, <1>3, SequenceIs
  <2>2. QED
    BY <1>1, <1>2, <1>3, <2>1
<1>5. QED
  BY <1>1, <1>2, <1>3, <1>4 DEF bs, Grown

LEMMA GrowKeeps ==
    ASSUME BlocksAre(blocks, funs), NEW at \in DOMAIN blocks, NEW ins, Sequence(ins), NEW more, Sequence(more),
           NEW ds, ds = Emit(ins, at) \o more, NEW fs, DOMAIN funs \subseteq DOMAIN fs,
           \A i \in DOMAIN more : Block(more[i]) /\ more[i].code = <<>>,
           \A i \in DOMAIN ins : Instruction(ins[i], ds, fs)
    PROVE  BlocksAre(ds, fs)
<1> DEFINE bs == Emit(ins, at)
<1> HIDE DEF bs
<1>1. /\ Sequence(ds) /\ DOMAIN blocks \subseteq DOMAIN ds
      /\ \A b \in DOMAIN blocks : ds[b] = bs[b] /\ ds[b].fn = blocks[b].fn
      /\ \A b \in DOMAIN ds : b \in DOMAIN blocks \/ (b - Len(blocks) \in DOMAIN more /\ ds[b] = more[b - Len(blocks)])
  <2>1. Grown(ds, ins, at, more)
    BY GrowShape
  <2>2. QED
    BY <2>1 DEF Grown, bs
<1>2. \A b \in DOMAIN blocks : Block(bs[b])
  BY EmitShape DEF bs
<1>3. \A b \in DOMAIN ds : Block(ds[b])
  BY <1>1, <1>2
<1>4. ASSUME NEW b \in DOMAIN ds, NEW i \in DOMAIN ds[b].code PROVE Instruction(ds[b].code[i], ds, fs)
  <2>1. CASE b \in DOMAIN blocks
    <3>1. i \in DOMAIN bs[b].code
      BY <1>1, <2>1
    <3>2. CASE \E j \in DOMAIN blocks[b].code : bs[b].code[i] = blocks[b].code[j]
      <4>1. Instruction(bs[b].code[i], blocks, funs)
        BY <2>1, <3>2 DEF BlocksAre
      <4>2. \A c : Instruction(c, blocks, funs) => Instruction(c, ds, fs)
        BY <1>1, InstructionStays
      <4>3. Instruction(bs[b].code[i], ds, fs)
        BY <4>1, <4>2
      <4>4. QED
        BY <1>1, <2>1, <4>3
    <3>3. CASE \E j \in DOMAIN ins : bs[b].code[i] = ins[j]
      BY <1>1, <2>1, <3>3
    <3>4. QED
      BY <2>1, <3>1, <3>2, <3>3, Emitted DEF bs
  <2>2. CASE b \notin DOMAIN blocks
    <3>1. b - Len(blocks) \in DOMAIN more /\ ds[b] = more[b - Len(blocks)]
      BY <1>1, <2>2
    <3>2. ds[b].code = <<>>
      BY <3>1
    <3>3. DOMAIN ds[b].code = {}
      BY <3>2
    <3>4. QED
      BY <1>4, <3>3
  <2>3. QED
    BY <2>1, <2>2
<1>5. MainBlock \in DOMAIN ds /\ ds[MainBlock].fn = "main"
  BY <1>1 DEF BlocksAre
<1>6. QED
  BY <1>1, <1>3, <1>4, <1>5 DEF BlocksAre

LEMMA NewBlockIs ==
    \A f, name : Block(NewBlock(f, name)) /\ NewBlock(f, name).code = <<>> /\ NewBlock(f, name).fn = f
BY Empty DEF Block, NewBlock

LEMMA IfKeeps == CodeInv /\ If => CodeInv'
<1> SUFFICES ASSUME CodeInv, If PROVE CodeInv'
  OBVIOUS
<1> DEFINE n == Top.node
           f == blocks[insert].fn
           b == Len(blocks)
           c == [op |-> "condbr", on |-> Condition(n.cond, Top.table), then |-> b + 1, else |-> b + 2]
           more == <<NewBlock(f, "then"), NewBlock(f, "else"), NewBlock(f, "merge")>>
           end == [do |-> "else", node |-> n, table |-> Top.table, block |-> b + 2]
           body == NodesOf(n.body, Top.table)
<1>1. AtNode /\ n.op = "if"
  BY DEF If, Node
<1>2. n \in Trees /\ TodoIs(Rest, blocks) /\ n.body \in Seq(Trees)
  BY <1>1, NodeIs, ProgramAssumption
<1>3. BlocksAre(blocks, funs) /\ insert \in DOMAIN blocks /\ b \in Nat /\ Sequence(<<c>>)
  BY Single, SequenceIs DEF CodeInv, BlocksAre
<1>4. /\ blocks' = Emit(<<c>>, insert) \o more /\ insert' = b + 1
      /\ todo' = (body \o <<end>>) \o Rest /\ last' = "none"
      /\ phase' = phase /\ funs' = funs /\ arrays' = arrays
  BY DEF If
<1>5. /\ Sequence(more) /\ Len(more) = 3 /\ DOMAIN more = 1..3
      /\ \A i \in DOMAIN more : Block(more[i]) /\ more[i].code = <<>> /\ more[i].fn = f
  <2> DEFINE x == NewBlock(f, "then")  y == NewBlock(f, "else")  z == NewBlock(f, "merge")
  <2> HIDE DEF x, y, z
  <2>1. more = <<x, y, z>>
    BY DEF x, y, z
  <2>2. \A w \in {x, y, z} : Block(w) /\ w.code = <<>> /\ w.fn = f
    BY NewBlockIs DEF x, y, z
  <2>3. <<x, y, z>> \in Seq({x, y, z})
    OBVIOUS
  <2>4. Sequence(<<x, y, z>>)
    BY <2>3, SequenceOf
  <2>5. Len(<<x, y, z>>) = 3 /\ DOMAIN <<x, y, z>> = 1..3 /\ \A i \in 1..3 : <<x, y, z>>[i] \in {x, y, z}
    OBVIOUS
  <2> HIDE DEF more
  <2>6. QED
    BY <2>1, <2>2, <2>4, <2>5
<1> HIDE DEF more
<1>6. /\ Len(blocks') = b + 3 /\ DOMAIN blocks \subseteq DOMAIN blocks' /\ Sequence(blocks')
      /\ \A i \in DOMAIN more : i + b \in DOMAIN blocks' /\ blocks'[i + b] = more[i]
  <2>1. Grown(blocks', <<c>>, insert, more)
    BY <1>3, <1>4, <1>5, GrowShape
  <2>2. QED
    BY <1>5, <2>1 DEF Grown
<1>7. {b + 1, b + 2, b + 3} \subseteq DOMAIN blocks' /\ blocks'[b + 1].fn = f /\ blocks'[b + 2].fn = f
  <2>1. /\ 1 + b \in DOMAIN blocks' /\ blocks'[1 + b] = more[1]
        /\ 2 + b \in DOMAIN blocks' /\ blocks'[2 + b] = more[2] /\ 3 + b \in DOMAIN blocks'
    BY <1>5, <1>6
  <2>2. 1 + b = b + 1 /\ 2 + b = b + 2 /\ 3 + b = b + 3
    BY <1>3
  <2>3. more[1].fn = f /\ more[2].fn = f
    BY <1>5
  <2>4. QED
    BY <2>1, <2>2, <2>3
<1>8. Instruction(c, blocks', funs)
  <2>1. c.op = "condbr" /\ c.then = b + 1 /\ c.else = b + 2
    OBVIOUS
  <2> HIDE DEF c
  <2>2. QED
    BY <1>7, <2>1 DEF Instruction, Operations
<1> HIDE DEF c
<1>9. BlocksAre(blocks', funs)
  <2>1. \A i \in DOMAIN <<c>> : Instruction(<<c>>[i], blocks', funs)
    BY <1>8
  <2>2. QED
    BY <1>3, <1>4, <1>5, <2>1, GrowKeeps
<1>10. TodoIs(todo', blocks')
  <2>1. TodoIs(Rest, blocks') /\ TodoIs(body, blocks')
    BY <1>2, <1>6, ToCompileStays, TodoBody
  <2>2. ToCompile(end, blocks')
    BY <1>1, <1>2, <1>3, <1>7 DEF ToCompile
  <2> HIDE DEF body, end
  <2>3. TodoIs(<<end>>, blocks')
    BY <2>2, TodoOne
  <2>4. QED
    BY <1>4, <2>1, <2>3, TodoBoth
<1>11. QED
  BY <1>4, <1>6, <1>7, <1>9, <1>10 DEF CodeInv

LEMMA FunctionDefKeeps == CodeInv /\ FunctionDef => CodeInv'
<1> SUFFICES ASSUME CodeInv, FunctionDef PROVE CodeInv'
  OBVIOUS
<1> DEFINE n == Top.node
           b == Len(blocks) + 1
           new == NewBlock(n.name, "block")
           fun == [block |-> b, params |-> n.params, type |-> map_type[n.type]]
           table == [fn |-> n.name, locals |-> n.locals]
           end == [do |-> "end", node |-> n]
           body == NodesOf(n.body, table)
<1>1. AtNode /\ n.op = "def"
  BY DEF FunctionDef, Node
<1>2. n \in Trees /\ TodoIs(Rest, blocks) /\ n.body \in Seq(Trees)
  BY <1>1, NodeIs, ProgramAssumption
<1>3. BlocksAre(blocks, funs) /\ insert \in DOMAIN blocks /\ Len(blocks) \in Nat /\ Sequence(blocks)
  BY SequenceIs DEF CodeInv, BlocksAre
<1>4. /\ blocks' = Append(blocks, new) /\ insert' = b /\ funs' = With(funs, n.name, fun)
      /\ todo' = (body \o <<end>>) \o Rest /\ last' = last /\ phase' = phase /\ arrays' = arrays
  BY DEF FunctionDef
<1>5. Block(new) /\ new.code = <<>>
  BY NewBlockIs
<1> HIDE DEF new
<1>6. blocks' = Emit(<<>>, insert) \o <<new>>
  <2> DEFINE S == {blocks[i] : i \in DOMAIN blocks} \cup {new}
  <2>1. blocks \in Seq(S) /\ new \in S
    BY <1>3, SeqMonotonic DEF Sequence
  <2> HIDE DEF S
  <2>2. Append(blocks, new) = blocks \o <<new>>
    BY <2>1, AppendIsConcat
  <2>3. QED
    BY <1>4, <2>2, EmitNothing
<1>7. Sequence(<<new>>) /\ Len(<<new>>) = 1 /\ DOMAIN <<new>> = 1..1 /\ <<new>>[1] = new /\ Sequence(<<>>)
  BY Single, Empty
<1>8. /\ DOMAIN blocks \subseteq DOMAIN blocks' /\ b \in DOMAIN blocks'
  <2>1. Grown(blocks', <<>>, insert, <<new>>)
    BY <1>3, <1>6, <1>7, GrowShape
  <2>2. 1 + Len(blocks) \in DOMAIN blocks'
    BY <1>7, <2>1 DEF Grown
  <2>3. DOMAIN blocks \subseteq DOMAIN blocks'
    BY <2>1 DEF Grown
  <2>4. QED
    BY <1>3, <2>2, <2>3
<1>9. DOMAIN funs \subseteq DOMAIN funs' /\ \A f \in DOMAIN funs' : funs'[f].block \in DOMAIN blocks'
  <2>1. fun.block = b
    OBVIOUS
  <2> HIDE DEF fun
  <2>2. DOMAIN funs' = DOMAIN funs \cup {n.name}
        /\ \A f \in DOMAIN funs' : funs'[f] = fun \/ (f \in DOMAIN funs /\ funs'[f] = funs[f])
    BY <1>4 DEF With
  <2>3. QED
    BY <1>8, <2>1, <2>2 DEF CodeInv
<1>10. BlocksAre(blocks', funs')
  <2>1. \A i \in DOMAIN <<new>> : Block(<<new>>[i]) /\ <<new>>[i].code = <<>>
    BY <1>5, <1>7
  <2>2. \A i \in DOMAIN <<>> : Instruction(<<>>[i], blocks', funs')
    OBVIOUS
  <2>3. QED
    BY <1>3, <1>6, <1>7, <1>9, <2>1, <2>2, GrowKeeps
<1>11. TodoIs(todo', blocks')
  <2>1. TodoIs(Rest, blocks') /\ TodoIs(body, blocks')
    BY <1>2, <1>8, ToCompileStays, TodoBody
  <2>2. ToCompile(end, blocks')
    BY DEF ToCompile
  <2> HIDE DEF body, end
  <2>3. TodoIs(<<end>>, blocks')
    BY <2>2, TodoOne
  <2>4. QED
    BY <1>4, <2>1, <2>3, TodoBoth
<1>12. QED
  BY <1>4, <1>8, <1>9, <1>10, <1>11 DEF CodeInv

-----------------------------------------------------------------------------
(* Each step keeps CodeInv.                                                *)
RunStep == RunStore \/ RunPrint \/ RunCall \/ RunBranch \/ RunRet \/ RunUnreachable

LEMMA RunLeavesCode ==
    ASSUME CodeInv, RunStep
    PROVE  /\ phase = "run" /\ UNCHANGED code
           /\ phase' \in {"run", "exited", "undefined"}
BY DEF RunStep, RunStore, RunPrint, RunCall, RunBranch, RunRet, RunUnreachable, At, Running

LEMMA CodeSame ==
    ASSUME CodeInv, UNCHANGED code, phase' \in {phase, "run", "exited", "undefined"}
    PROVE  CodeInv'
BY DEF CodeInv, code

LEMMA InitCode == Init => CodeInv /\ RunInv
<1> SUFFICES ASSUME Init PROVE CodeInv /\ RunInv
  OBVIOUS
<1> DEFINE b == [fn |-> "main", name |-> "entry_point", code |-> <<>>]
<1>1. blocks = <<b>> /\ insert = MainBlock /\ program \in Seq(Trees) /\ todo = NodesOf(program, MainTable)
  BY ProgramAssumption DEF Init
<1>2. Block(b) /\ b.fn = "main" /\ DOMAIN b.code = {}
  BY Empty DEF Block
<1> HIDE DEF b
<1>3. Sequence(blocks) /\ DOMAIN blocks = {1} /\ blocks[1] = b
  BY <1>1, Single
<1>4. BlocksAre(blocks, funs) /\ insert \in DOMAIN blocks
  BY <1>1, <1>2, <1>3 DEF BlocksAre, MainBlock
<1>5. TodoIs(todo, blocks)
  BY <1>1, TodoBody
<1>6. DOMAIN funs = {} /\ DOMAIN arrays = {} /\ last = "none" /\ phase = "compile"
  BY DEF Init
<1>7. CodeInv
  BY <1>4, <1>5, <1>6 DEF CodeInv
<1>8. RunInv
  BY <1>6 DEF Init, RunInv
<1>9. QED
  BY <1>7, <1>8

LEMMA CodeInvKept == CodeInv /\ [Next]_vars => CodeInv'
<1> SUFFICES ASSUME CodeInv, [Next]_vars PROVE CodeInv'
  OBVIOUS
<1>1. CASE UNCHANGED vars
  BY <1>1, CodeSame DEF vars
<1>2. CASE RunStep
  BY <1>2, RunLeavesCode, CodeSame
<1>3. CASE Next /\ ~RunStep
  BY <1>3, GlobalDefinitionKeeps, GlobalDeclarationKeeps, LocalVariableKeeps, AssignmentKeeps,
     ArrayDefinitionKeeps, ElementAssignmentKeeps, PrintCallKeeps, CallStatementKeeps, GivesUpKeeps,
     ReturnKeeps, ForLoopKeeps, IfKeeps, ElseKeeps, MergeKeeps, FunctionDefKeeps, FunctionEndKeeps,
     FinishKeeps DEF Next, RunStep
<1>4. QED
  BY <1>1, <1>2, <1>3

-----------------------------------------------------------------------------
(* What runs.  While compiling nothing does; the module that is accepted   *)
(* begins with main.                                                       *)
Compile ==
    \/ GlobalDefinition \/ GlobalDeclaration \/ LocalVariable \/ Assignment
    \/ ArrayDefinition \/ ElementAssignment
    \/ PrintCall \/ CallStatement \/ Throws \/ Return \/ ForLoop \/ Undefined
    \/ If \/ Else \/ Merge \/ FunctionDef \/ FunctionEnd

LEMMA CompileRunsNothing ==
    ASSUME CodeInv, RunInv, Compile
    PROVE  RunInv'
<1>1. phase = "compile" /\ frames' = frames /\ phase' \in {"compile", "thrown", "undefined"}
  BY DEF Compile, GlobalDefinition, GlobalDeclaration, LocalVariable, Assignment, ArrayDefinition,
     ElementAssignment, PrintCall, CallStatement, Throws, Return, ForLoop, Undefined, If, Else, Merge,
     FunctionDef, FunctionEnd, Node, AtNode, Done, machine
<1>2. frames' = <<>>
  BY <1>1 DEF RunInv
<1>3. QED
  BY <1>1, <1>2 DEF RunInv

LEMMA FinishStarts ==
    ASSUME CodeInv, RunInv, Finish
    PROVE  RunInv'
<1>1. CASE phase' = "rejected"
  <2>1. frames' = <<>>
    BY <1>1 DEF Finish, RunInv
  <2>2. QED
    BY <1>1, <2>1 DEF RunInv
<1>2. CASE phase' # "rejected"
  <2> DEFINE c == [op |-> "ret", value |-> Literal("i32", 0)]
  <2>1. verifyModule(blocks') /\ frames' = <<[block |-> MainBlock, at |-> 1]>> /\ phase' = "run"
        /\ blocks' = Emit(<<c>>, insert)
    BY <1>2 DEF Finish, Accepted, Finished
  <2> HIDE DEF c
  <2>2. /\ DOMAIN blocks' = DOMAIN blocks /\ \A b \in DOMAIN blocks : blocks'[b].fn = blocks[b].fn /\ Block(blocks'[b])
    BY <2>1, Single, EmitShape DEF CodeInv
  <2>3. BlocksAre(blocks', funs)
    BY CodeInvKept DEF CodeInv, Next, Finish
  <2>4. ASSUME NEW b \in DOMAIN blocks' PROVE Checked(b)'
    <3> DEFINE k == blocks'[b].code
    <3>1. k # <<>> /\ \A i \in DOMAIN k : (k[i].op \in Terminators <=> i = Len(k)) /\ Fits(k[i], blocks'[b].fn)
      BY <2>1, <2>4 DEF verifyModule, Whole
    <3>2. ASSUME NEW i \in DOMAIN k
          PROVE  /\ k[i].op = "br" => blocks'[k[i].to].fn = blocks'[b].fn
                 /\ k[i].op = "condbr" => blocks'[k[i].then].fn = blocks'[b].fn
      <4>1. Instruction(k[i], blocks', funs)
        BY <2>3, <2>4 DEF BlocksAre
      <4>2. Fits(k[i], blocks'[b].fn)
        BY <3>1
      <4>3. k[i].op = "br" => k[i].to \in DOMAIN blocks' /\ blocks[k[i].to].fn = blocks'[b].fn
        BY <4>1, <4>2 DEF Instruction, Fits
      <4>4. k[i].op = "condbr" => k[i].then \in DOMAIN blocks' /\ blocks[k[i].then].fn = blocks'[b].fn
        BY <4>1, <4>2 DEF Instruction, Fits
      <4>5. QED
        BY <2>2, <4>3, <4>4
    <3>3. QED
      BY <3>1, <3>2 DEF Checked
  <2>5. 1 \in DOMAIN blocks' /\ blocks'[1].fn = "main" /\ 1 \in DOMAIN blocks'[1].code
    <3>1. 1 \in DOMAIN blocks' /\ blocks'[1].fn = "main" /\ Sequence(blocks'[1].code)
      BY <2>3 DEF BlocksAre, MainBlock, Block
    <3>2. blocks'[1].code # <<>>
      BY <2>4, <3>1 DEF Checked
    <3>3. QED
      BY <3>1, <3>2, Rested
  <2>6. QED
    <3> DEFINE f == [block |-> 1, at |-> 1]
    <3>1. f \in [block : Nat, at : Nat] /\ f.block = 1 /\ f.at = 1
      OBVIOUS
    <3>2. frames' = <<f>>
      BY <2>1 DEF MainBlock
    <3> HIDE DEF f
    <3>3. frames' \in Seq([block : Nat, at : Nat]) /\ frames' # <<>> /\ Len(frames') = 1
          /\ DOMAIN frames' = {1} /\ frames'[1] = f
      BY <3>1, <3>2
    <3>4. (\A i \in DOMAIN frames : Stands(frames[i]))'
      BY <2>5, <3>1, <3>3 DEF Stands
    <3>5. QED
      BY <2>1, <2>4, <2>5, <3>1, <3>3, <3>4 DEF RunInv
<1>3. QED
  BY <1>1, <1>2

-----------------------------------------------------------------------------
(* A step of what runs.                                                    *)
LEMMA NowIs ==
    ASSUME CodeInv, RunInv, phase = "run"
    PROVE  /\ frames # <<>> /\ Len(frames) \in Nat \ {0} /\ 1 \in DOMAIN frames
           /\ frames[1] \in [block : Nat, at : Nat] /\ Stands(frames[1])
           /\ Now = blocks[frames[1].block].code[frames[1].at]
           /\ Instruction(Now, blocks, funs)
           /\ Now.op \notin Terminators => frames[1].at + 1 \in DOMAIN blocks[frames[1].block].code
<1>1. frames # <<>> /\ frames \in Seq([block : Nat, at : Nat]) /\ \A i \in DOMAIN frames : Stands(frames[i])
  BY DEF RunInv
<1>2. Len(frames) \in Nat \ {0} /\ 1 \in DOMAIN frames /\ frames[1] \in [block : Nat, at : Nat]
  <2> DEFINE F == [block : Nat, at : Nat]
  <2>1. frames \in Seq(F)
    BY <1>1
  <2> HIDE DEF F
  <2>2. Len(frames) \in Nat \ {0} /\ 1 \in DOMAIN frames /\ frames[1] \in F
    BY <1>1, <2>1
  <2>3. QED
    BY <2>2 DEF F
<1>3. Stands(frames[1])
  BY <1>1, <1>2
<1> DEFINE b == frames[1].block
           k == blocks[b].code
           n == frames[1].at
<1>4. b \in DOMAIN blocks /\ Sequence(k) /\ n \in DOMAIN k /\ n \in Nat /\ Checked(b)
  BY <1>2, <1>3 DEF Stands, CodeInv, BlocksAre, Block, RunInv
<1>5. Len(k) \in Nat /\ DOMAIN k = 1..Len(k)
  BY <1>4, SequenceIs
<1>6. Now = k[n]
  <2> DEFINE S == {k[i] : i \in DOMAIN k}
  <2>1. k \in Seq(S)
    BY <1>4 DEF Sequence
  <2>2. n \in 1..Len(k) /\ Len(k) \in 1..Len(k)
    BY <1>4, <1>5
  <2>3. Now = SubSeq(k, n, Len(k))[1]
    BY DEF Now, Ahead
  <2> HIDE DEF S, k, n
  <2>4. SubSeq(k, n, Len(k))[1] = k[n]
    BY <1>5, <2>1, <2>2, SubSeqProperties
  <2>5. QED
    BY <2>3, <2>4
<1>7. Instruction(Now, blocks, funs)
  BY <1>4, <1>6 DEF CodeInv, BlocksAre
<1>8. Now.op \notin Terminators => n + 1 \in DOMAIN k
  BY <1>4, <1>5, <1>6 DEF Checked
<1>9. QED
  BY <1>1, <1>2, <1>3, <1>6, <1>7, <1>8

(* The innermost frame replaced by one that stands, of main when there is  *)
(* no other; or by two.                                                    *)
LEMMA FrameReplaced ==
    ASSUME CodeInv, RunInv, phase = "run", phase' = "run", UNCHANGED code,
           NEW f \in [block : Nat, at : Nat], Stands(f), blocks[f.block].fn = blocks[frames[1].block].fn,
           frames' = <<f>> \o Tail(frames)
    PROVE  RunInv'
<1> DEFINE F == [block : Nat, at : Nat]
<1>1. frames \in Seq(F) /\ frames # <<>> /\ \A i \in DOMAIN frames : Stands(frames[i])
  BY DEF RunInv
<1> HIDE DEF F
<1>2. /\ frames' \in Seq(F) /\ Len(frames') = Len(frames) /\ DOMAIN frames' = DOMAIN frames
      /\ frames'[1] = f /\ \A i \in DOMAIN frames : i # 1 => frames'[i] = frames[i]
  <2>1. f \in F
    BY DEF F
  <2>2. Tail(frames) \in Seq(F) /\ Len(Tail(frames)) = Len(frames) - 1
        /\ \A i \in 1..Len(Tail(frames)) : Tail(frames)[i] = frames[i + 1]
    BY <1>1, HeadTailProperties
  <2>3. QED
    BY <1>1, <2>1, <2>2
<1>3. blocks' = blocks
  BY DEF code
<1>4. (\A i \in DOMAIN frames : Stands(frames[i]))'
  BY <1>1, <1>2, <1>3 DEF Stands
<1>5. frames' # <<>> /\ Len(frames) \in DOMAIN frames
  BY <1>1, <1>2
<1>6. blocks'[frames'[Len(frames')].block].fn = "main"
  BY <1>2, <1>3, <1>5 DEF RunInv
<1>7. (\A b \in DOMAIN blocks : Checked(b))'
  BY <1>3 DEF RunInv, Checked
<1>8. QED
  BY <1>2, <1>4, <1>5, <1>6, <1>7 DEF RunInv, F

LEMMA OnwardIs ==
    ASSUME CodeInv, RunInv, phase = "run", Now.op \notin Terminators
    PROVE  \E f \in [block : Nat, at : Nat] :
              f.block = frames[1].block /\ Stands(f) /\ Onward = <<f>> \o Tail(frames)
<1> DEFINE f == [frames[1] EXCEPT !.at = @ + 1]
<1>1. frames[1] \in [block : Nat, at : Nat] /\ Stands(frames[1])
      /\ frames[1].at + 1 \in DOMAIN blocks[frames[1].block].code
  BY NowIs
<1>2. f \in [block : Nat, at : Nat] /\ f.block = frames[1].block /\ f.at = frames[1].at + 1
  BY <1>1
<1>3. Onward = <<f>> \o Tail(frames)
  BY DEF Onward
<1> HIDE DEF f
<1>4. Stands(f)
  BY <1>1, <1>2 DEF Stands
<1>5. QED
  BY <1>2, <1>3, <1>4

LEMMA OnwardKeeps ==
    ASSUME CodeInv, RunInv, RunStore \/ RunPrint
    PROVE  RunInv'
<1>1. /\ phase = "run" /\ phase' = "run" /\ UNCHANGED code
      /\ Now.op \notin Terminators /\ frames' = Onward
  BY DEF RunStore, RunPrint, At, Running, Terminators
<1>2. PICK f \in [block : Nat, at : Nat] :
              f.block = frames[1].block /\ Stands(f) /\ Onward = <<f>> \o Tail(frames)
  BY <1>1, OnwardIs
<1>3. QED
  BY <1>1, <1>2, FrameReplaced

(* The first instruction of a block that was checked.                      *)
LEMMA BlockStart ==
    ASSUME CodeInv, RunInv, phase = "run", NEW b \in DOMAIN blocks
    PROVE  LET f == [block |-> b, at |-> 1] IN f \in [block : Nat, at : Nat] /\ Stands(f)
<1>1. Sequence(blocks) /\ Sequence(blocks[b].code) /\ blocks[b].code # <<>>
  BY DEF CodeInv, BlocksAre, Block, RunInv, Checked
<1>2. b \in Nat /\ 1 \in DOMAIN blocks[b].code
  BY <1>1, SequenceIs, Rested
<1>3. QED
  BY <1>2 DEF Stands

LEMMA BranchKeeps ==
    ASSUME CodeInv, RunInv, RunBranch
    PROVE  RunInv'
<1>1. phase = "run" /\ phase' = "run" /\ UNCHANGED code
  BY DEF RunBranch, At, Running
<1>2. PICK b : Jump(b) /\ ((Now.op = "br" /\ b = Now.to) \/ (Now.op = "condbr" /\ b \in {Now.then, Now.else}))
  BY DEF RunBranch, At
<1> DEFINE c == frames[1].block
<1>3. c \in DOMAIN blocks /\ frames[1].at \in DOMAIN blocks[c].code
      /\ Now = blocks[c].code[frames[1].at] /\ Instruction(Now, blocks, funs)
  BY <1>1, NowIs DEF Stands
<1>4. Checked(c)
  BY <1>1, <1>3 DEF RunInv
<1>5. b \in DOMAIN blocks /\ blocks[b].fn = blocks[c].fn
  BY <1>2, <1>3, <1>4 DEF Instruction, Checked
<1> DEFINE f == [block |-> b, at |-> 1]
<1>6. f \in [block : Nat, at : Nat] /\ Stands(f)
  BY <1>1, <1>5, BlockStart
<1>7. f.block = b /\ frames' = <<f>> \o Tail(frames)
  BY <1>2 DEF Jump
<1> HIDE DEF f
<1>8. QED
  BY <1>1, <1>5, <1>6, <1>7, FrameReplaced

LEMMA CallKeeps ==
    ASSUME CodeInv, RunInv, RunCall
    PROVE  RunInv'
<1> DEFINE g == [block |-> funs[Now.fn].block, at |-> 1]
<1>1. phase = "run" /\ phase' = "run" /\ UNCHANGED code /\ Now.op = "call" /\ frames' = <<g>> \o Onward
  BY DEF RunCall, At, Running
<1>2. PICK f \in [block : Nat, at : Nat] :
              f.block = frames[1].block /\ Stands(f) /\ Onward = <<f>> \o Tail(frames)
  BY <1>1, OnwardIs DEF Terminators
<1>3. funs[Now.fn].block \in DOMAIN blocks
  BY <1>1, NowIs DEF Instruction, CodeInv
<1>4. g \in [block : Nat, at : Nat] /\ Stands(g)
  BY <1>1, <1>3, BlockStart
<1> HIDE DEF g
<1> DEFINE F == [block : Nat, at : Nat]
<1>5. frames \in Seq(F) /\ frames # <<>> /\ \A i \in DOMAIN frames : Stands(frames[i])
  BY <1>1 DEF RunInv
<1>6. g \in F /\ f \in F
  BY <1>4
<1> HIDE DEF F
<1>7. /\ frames' \in Seq(F) /\ Len(frames') = Len(frames) + 1 /\ frames'[1] = g /\ frames'[2] = f
      /\ \A i \in DOMAIN frames' : i \in {1, 2} \/ (i - 1 \in DOMAIN frames /\ frames'[i] = frames[i - 1])
      /\ frames'[Len(frames')] = IF Len(frames) = 1 THEN f ELSE frames[Len(frames)]
  <2>1. Tail(frames) \in Seq(F) /\ Len(Tail(frames)) = Len(frames) - 1
        /\ \A i \in 1..Len(Tail(frames)) : Tail(frames)[i] = frames[i + 1]
    BY <1>5, HeadTailProperties
  <2>2. frames' = <<g>> \o (<<f>> \o Tail(frames))
    BY <1>1, <1>2
  <2> DEFINE t == Tail(frames)
             fs == <<f>> \o t
  <2>3. fs \in Seq(F) /\ Len(fs) = Len(frames) /\ fs[1] = f /\ Len(frames) \in Nat \ {0}
        /\ \A i \in 2..Len(frames) : fs[i] = frames[i]
    BY <1>5, <1>6, <2>1
  <2> HIDE DEF fs
  <2>4. /\ <<g>> \o fs \in Seq(F) /\ Len(<<g>> \o fs) = Len(fs) + 1 /\ (<<g>> \o fs)[1] = g
        /\ \A i \in 2..Len(fs) + 1 : (<<g>> \o fs)[i] = fs[i - 1]
    BY <1>6, <2>3
  <2>5. frames' = <<g>> \o fs
    BY <2>2 DEF fs
  <2>6. DOMAIN frames' = 1..Len(frames) + 1 /\ DOMAIN frames = 1..Len(frames)
    BY <1>5, <2>3, <2>4, <2>5
  <2>7. frames' \in Seq(F) /\ Len(frames') = Len(frames) + 1 /\ frames'[1] = g /\ frames'[2] = f
    BY <2>3, <2>4, <2>5
  <2>8. \A i \in 3..Len(frames) + 1 : frames'[i] = frames[i - 1]
    BY <2>3, <2>4, <2>5
  <2>9. \A i \in DOMAIN frames' : i \in {1, 2} \/ (i - 1 \in DOMAIN frames /\ frames'[i] = frames[i - 1])
    BY <2>3, <2>6, <2>8
  <2>10. frames'[Len(frames')] = IF Len(frames) = 1 THEN f ELSE frames[Len(frames)]
    BY <2>3, <2>7, <2>8
  <2>11. QED
    BY <2>7, <2>9, <2>10
<1>8. blocks' = blocks
  BY <1>1 DEF code
<1>9. (\A i \in DOMAIN frames : Stands(frames[i]))'
  BY <1>2, <1>4, <1>5, <1>7, <1>8 DEF Stands
<1>10. frames' # <<>> /\ blocks'[frames'[Len(frames')].block].fn = "main"
  <2>1. blocks[frames[Len(frames)].block].fn = "main"
    BY <1>1 DEF RunInv
  <2>2. frames' # <<>>
    BY <1>5, <1>7
  <2>3. QED
    BY <1>2, <1>5, <1>7, <1>8, <2>1, <2>2
<1>11. (\A b \in DOMAIN blocks : Checked(b))'
  BY <1>1, <1>8 DEF RunInv, Checked
<1>12. QED
  BY <1>1, <1>7, <1>9, <1>10, <1>11 DEF RunInv, F

LEMMA RetKeeps ==
    ASSUME CodeInv, RunInv, RunRet
    PROVE  RunInv'
<1> DEFINE F == [block : Nat, at : Nat]
<1>1. phase = "run" /\ UNCHANGED code /\ frames' = Tail(frames)
      /\ phase' = IF Len(frames) = 1 THEN "exited" ELSE phase
  BY DEF RunRet, At
<1>2. frames \in Seq(F) /\ frames # <<>> /\ \A i \in DOMAIN frames : Stands(frames[i])
  BY <1>1 DEF RunInv
<1>3. frames' \in Seq(F) /\ Len(frames') = Len(frames) - 1
      /\ \A i \in 1..Len(frames') : frames'[i] = frames[i + 1]
  BY <1>1, <1>2, HeadTailProperties
<1> HIDE DEF F
<1>4. /\ \A i \in DOMAIN frames' : i + 1 \in DOMAIN frames /\ frames'[i] = frames[i + 1]
      /\ Len(frames) # 1 => frames' # <<>> /\ frames'[Len(frames')] = frames[Len(frames)]
  BY <1>2, <1>3
<1>5. blocks' = blocks
  BY <1>1 DEF code
<1>6. (\A i \in DOMAIN frames : Stands(frames[i]))'
  BY <1>2, <1>4, <1>5 DEF Stands
<1>7. (\A b \in DOMAIN blocks : Checked(b))'
  BY <1>1, <1>5 DEF RunInv, Checked
<1>8. Len(frames) # 1 => blocks'[frames'[Len(frames')].block].fn = "main"
  BY <1>1, <1>4, <1>5 DEF RunInv
<1>9. QED
  BY <1>1, <1>3, <1>4, <1>6, <1>7, <1>8 DEF RunInv, F

LEMMA UnreachableKeeps ==
    ASSUME CodeInv, RunInv, RunUnreachable
    PROVE  RunInv'
<1>1. phase' = "undefined" /\ frames' = frames /\ blocks' = blocks
  BY DEF RunUnreachable, code, machine
<1>2. (\A i \in DOMAIN frames : Stands(frames[i]))'
  BY <1>1 DEF RunInv, Stands
<1>3. QED
  BY <1>1, <1>2 DEF RunInv

LEMMA RunInvKept == CodeInv /\ RunInv /\ [Next]_vars => RunInv'
<1> SUFFICES ASSUME CodeInv, RunInv, [Next]_vars PROVE RunInv'
  OBVIOUS
<1>1. CASE UNCHANGED vars
  <2>1. phase' = phase /\ frames' = frames /\ blocks' = blocks
    BY <1>1 DEF vars, code, machine
  <2>2. (\A i \in DOMAIN frames : Stands(frames[i]))' /\ (phase = "run" => \A b \in DOMAIN blocks : Checked(b)')
    BY <2>1 DEF RunInv, Stands, Checked
  <2>3. QED
    BY <2>1, <2>2 DEF RunInv
<1>2. CASE Next
  BY <1>2, CompileRunsNothing, FinishStarts, OnwardKeeps, CallKeeps, BranchKeeps, RetKeeps, UnreachableKeeps
     DEF Next, Compile
<1>3. QED
  BY <1>1, <1>2

-----------------------------------------------------------------------------
LEMMA InvImpliesTypeOK == CodeInv /\ RunInv => CodegenTypeOK
BY DEF CodeInv, RunInv, BlocksAre, Instruction, Stands, CodegenTypeOK

(* The invariant the next two follow from: what the handlers of            *)
(* codegen.cc emit, and what LLVM's verifier, asked by create_object_file, *)
(* has seen of it.                                                         *)
THEOREM CodegenInvariance == CodegenSpec => [](CodeInv /\ RunInv)
<1>1. CodeInv /\ RunInv /\ [Next]_vars => (CodeInv /\ RunInv)'
  BY CodeInvKept, RunInvKept
<1>2. QED
  BY <1>1, InitCode, PTL DEF CodegenSpec

(* The builder stands in a block and branches only to blocks that are      *)
(* there; the module the verifier takes stays in the code it has, whatever *)
(* it calls and wherever it branches and returns, and its outermost frame  *)
(* in main: for every program, also the ones that are compiled wrong.      *)
THEOREM CodegenTypeCorrect == CodegenSpec => []CodegenTypeOK
BY CodegenInvariance, InvImpliesTypeOK, PTL

(* In an accepted program there is an instruction where it stands, and a   *)
(* function where it calls one.                                            *)
RunsOn == phase = "run" => Now.op \in Operations /\ (Now.op = "call" => Now.fn \in DOMAIN funs)

(* A program that create_object_file accepts never comes to a place where  *)
(* there is nothing to execute: the next instruction is one the visits of  *)
(* codegen.cc emitted, and a call is of a function they have compiled.     *)
THEOREM AcceptedProgramsRunOn == CodegenSpec => []RunsOn
<1>1. CodeInv /\ RunInv => RunsOn
  BY NowIs DEF RunsOn, Instruction
<1>2. QED
  BY <1>1, CodegenInvariance, PTL
==============================================================================
