---------------------------- MODULE MCConstEval ----------------------------
(***************************************************************************)
(* ConstEval with integers of 3 bits in words of 5.  The programs: every   *)
(* binary and unary operation on a set of operands, and every function of  *)
(* up to two statements of a pool, with callees of one to four locals, and  *)
(* functions with declared types or with assignments used for their values. *)
(***************************************************************************)
EXTENDS ConstEval, TLC

Node(op, n, m, a) == [op |-> op, n |-> n, m |-> m, a |-> a]
Lit(n) == Node("int", n, "none", <<>>)
Id(n) == Node("id", n, "none", <<>>)
Op(op, l, r) == Node(op, 0, "none", <<l, r>>)
CallOf(f, args) == Node("call", f, "none", args)
Auto == Node("auto", 0, "none", <<>>)
Signed(bits) == Node("type", bits, "none", <<>>)
Typed(n, type, e) == Node("init", n, "none", <<e, type>>)
Init_(n, e) == Typed(n, Auto, e)
Set(n, e) == Node("assign", n, "none", <<e>>)
Do(e) == Node("expr", 0, "none", <<e>>)
Give(e) == Node("return", 0, "none", <<e>>)
Block(ss) == Node("block", 0, "none", ss)

\* Names: parameters 1 and 2, locals 3 to 6, the constants 8 and 9.
MCConstants ==
    (8 :> [kind |-> "int128", val |-> 2^Word + 3, bits |-> 2 * Word, signed |-> TRUE])
    @@ (9 :> MakeInt(2, Narrow, TRUE))

Operands ==
    {Lit(0), Lit(1), Lit(3), Lit(9), Node("NEG_INT", 0, "none", <<Lit(4)>>),
     Node("hex", 2^Word - 1, "none", <<>>), Node("float", 3, "none", <<>>),
     Node("bool", 1, "none", <<>>), Id(9), Node("field", 8, "none", <<>>),
     Lit(2^Word), Id(7)}

Ints == {Lit(0), Lit(3), Node("NEG_INT", 0, "none", <<Lit(4)>>), Lit(15)}

Expressions ==
    {Op(op, l, r) : op \in BinaryOps, l \in Operands, r \in Operands}
    \cup {Node(op, 0, m, <<l, r>>) : op \in ArithmeticOps \cup DivisionOps, m \in Mode,
                                     l \in Ints, r \in Ints}
    \cup {Op("ADD_INT", Node("ADD_INT", 0, m, <<l, r>>), Lit(1)) :
            m \in Mode, l \in Ints, r \in Ints}
    \cup {Node("NEG_INT", 0, m, <<Node("cast", b, m2, <<e>>)>>) :
            m \in Mode, b \in {2, Narrow, Word}, m2 \in {"none", "wrapped"}, e \in Ints}
    \cup {Node(op, Narrow, "none", <<e>>) :
            op \in {"LOGIC_NOT", "NOT_INT", "fcast", "likely", "await"}, e \in Operands}

\* g, function 2, has from 1 to 4 locals.
Callees ==
    {<<Give(Op("MUL_INT", Id(1), Lit(2)))>>,
     <<Do(Init_(3, Lit(1))), Do(Init_(4, Id(3))), Give(Op("ADD_INT", Id(1), Id(4)))>>,
     <<Do(Init_(3, Lit(1))), Do(Init_(4, Lit(1))), Do(Init_(5, Lit(1))),
       Node("if", 0, "none", <<Op("CMP_EQ_INT", Id(1), Lit(0)),
                               Block(<<Node("throw", 7, "none", <<>>)>>)>>)>>,
     <<Node("switch", 0, "none", <<>>)>>}

G(e) == CallOf(2, <<e>>)

\* Statements of f, function 1: its parameter is 1, its locals 3 and 4.
Pool ==
    {Do(Set(3, Op("ADD_INT", Id(3), G(Id(1))))),
     Do(Set(1, Op("SUB_INT", Id(1), Lit(1)))),
     Do(Init_(4, G(Id(3)))),
     Do(G(Id(1))),
     Block(<<Do(Init_(3, Lit(2)))>>),
     Node("if", 0, "none", <<Id(1), Block(<<Do(Set(3, Lit(3)))>>)>>),
     Node("if", 0, "none",
          <<Op("LOGIC_AND", Id(1), G(Id(1))), Block(<<Give(Id(3))>>),
            Block(<<Do(Set(3, G(Id(3))))>>)>>),
     Node("while", 0, "none",
          <<Op("CMP_GT_INT", Id(1), Lit(0)),
            Block(<<Do(Set(1, Op("SUB_INT", Id(1), Lit(1)))),
                    Do(Set(3, Op("ADD_INT", Id(3), Lit(1))))>>)>>),
     Node("for", 0, "none",
          <<Init_(5, Lit(0)), Op("CMP_LT_INT", Id(5), Id(1)),
            Block(<<Do(Set(3, G(Id(5))))>>), Set(5, Op("ADD_INT", Id(5), Lit(1)))>>),
     Node("for", 0, "none",
          <<G(Lit(0)), Op("CMP_LT_INT", Id(3), Lit(2)),
            Block(<<Do(Set(3, Op("ADD_INT", Id(3), Lit(1))))>>), G(Lit(1))>>),
     Node("while", 0, "none", <<Node("bool", 1, "none", <<>>), Block(<<Do(G(Lit(1)))>>)>>),
     Node("if", 0, "none",
          <<Op("CMP_GT_INT", Id(1), Lit(0)),
            Block(<<Give(Op("ADD_INT", Lit(1),
                            CallOf(1, <<Op("SUB_INT", Id(1), Lit(1))>>)))>>)>>),
     Give(Op("ADD_INT", Lit(1), Op("ADD_INT", Lit(1), CallOf(1, <<Id(1)>>)))),
     Node("return", 0, "none", <<>>)}

\* Declared types, and assignments used for their values.
TypedBodies ==
    {<<Do(Typed(3, Signed(b), e)), Give(Op(op, Id(3), Id(1)))>> :
        b \in {Narrow, Word}, e \in {Lit(3), Lit(9), Node("cast", Word, "none", <<Lit(3)>>)},
        op \in {"ADD_INT", "MUL_INT", "SUB_INT"}}
    \cup {<<Do(Init_(3, Lit(1))), s>> :
            s \in {Do(Set(1, Set(3, Lit(3)))), Give(Set(3, Lit(3))),
                  Do(Set(1, Op("ADD_INT", Lit(1), Set(3, Lit(2)))))}}

Bodies ==
    {<<Do(Init_(3, Lit(1))), s, Give(Id(3))>> : s \in Pool}
    \cup {<<Do(Init_(3, Lit(1))), s, t, Give(Op("SUB_INT", Id(3), Id(1)))>> :
            s \in Pool, t \in Pool}

Main(e) == [functions |-> <<>>, constants |-> MCConstants, main |-> e]

Fn(params, type, returns, body) ==
    [params |-> params, types |-> [i \in DOMAIN params |-> type], result |-> returns, body |-> body]

MCSources ==
    {Main(e) : e \in Expressions}
    \cup {[functions |-> <<Fn(<<1>>, t, t, f)>>, constants |-> MCConstants, main |-> CallOf(1, <<Lit(x)>>)] :
            t \in {Auto, Signed(Narrow), Signed(Word)}, f \in TypedBodies, x \in {0, 3}}
    \cup {[functions |-> <<Fn(<<1>>, Auto, Auto, f), Fn(<<1>>, Auto, Auto, g)>>,
           constants |-> MCConstants, main |-> CallOf(1, <<Lit(x)>>)] :
            f \in Bodies, g \in Callees, x \in {0, 2}}
    \cup {[functions |-> <<Fn(<<1, 2>>, Auto, Auto, <<Give(Op("SUB_INT", Id(1), Id(2)))>>)>>,
           constants |-> MCConstants, main |-> CallOf(f, <<Lit(x), Lit(y)>>)] :
            f \in {1, 2}, x \in 0 .. 3, y \in 0 .. 3}

MCProgram == {Compiled(s) : s \in {x \in MCSources : Compiles(x)}}
=============================================================================
