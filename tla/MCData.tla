-------------------------------- MODULE MCData --------------------------------
(* Four parts of erl_interface that share no state and are checked in one    *)
(* run: messages of the ei library, messages of ETERMs, a program that uses  *)
(* ETERMs, and the registry of a C node with its backup.                     *)
EXTENDS EiTerms, EtTerms, EtProgram, EiRegistryBackup

-----------------------------------------------------------------------------
(* Terms at the limits of the codec's formats. *)

Num(neg, mag) == [neg |-> neg, mag |-> mag]

Item(t, v) == <<[t |-> t, v |-> v]>>

Ones(k) == [j \in 1..k |-> 255]

Top(k, b) == [j \in 1..k |-> IF j = k THEN b ELSE 0]

\* 0, 255, 256, 2^27 - 1, 2^27, 2^31 - 1 and the negative numbers to -2^31.
Longs == {Num(FALSE, <<>>), Num(FALSE, <<255>>), Num(FALSE, <<0, 1>>), Num(FALSE, <<255, 255, 255, 7>>),
          Num(FALSE, <<0, 0, 0, 8>>), Num(FALSE, <<255, 255, 255, 127>>), Num(TRUE, <<1>>),
          Num(TRUE, <<0, 1>>), Num(TRUE, <<0, 0, 0, 8>>), Num(TRUE, <<1, 0, 0, 8>>),
          Num(TRUE, <<0, 0, 0, 128>>)}

ULongs == {Num(FALSE, <<0, 0, 0, 128>>), Num(FALSE, Ones(4))}

LongLongs == {Num(FALSE, Top(5, 1)), Num(TRUE, Top(5, 1)), Num(TRUE, Ones(4)), Num(TRUE, <<1, 0, 0, 128>>),
              Num(FALSE, [Ones(8) EXCEPT ![8] = 127]), Num(TRUE, Top(8, 128))}

ULongLongs == {Num(FALSE, Top(8, 128)), Num(FALSE, Ones(8))}

ABig(k, neg) == [arity |-> k, is_neg |-> neg,
                 digits |-> [j \in 1..((k + 1) \div 2) |-> IF 2 * j > k THEN 200 ELSE 256 * j + 1]]

Name(k) == [j \in 1..k |-> 96 + j]

APid(n) == [node |-> Name(2), num |-> n, serial |-> n, creation |-> n]

Atom == Item("atom", Name(1))

Long == Item("long", Num(TRUE, <<1>>))

Nil0 == Item("list", 0)

Md5 == [j \in 1..16 |-> j]

NewFun(vars) ==
    [arity |-> 2, pid |-> APid(1), module |-> Name(1), index |-> Num(FALSE, <<3>>), md5 |-> Md5,
     old_index |-> Num(FALSE, <<0, 1>>), uniq |-> Num(TRUE, <<1>>), n_free_vars |-> Len(vars) \div 2,
     free_vars |-> vars]

OldFun(n, vars) ==
    [arity |-> -1, pid |-> APid(1), module |-> Name(1), index |-> Num(FALSE, <<3>>),
     uniq |-> Num(TRUE, Top(4, 8)), n_free_vars |-> n, free_vars |-> vars]

Refs == {[node |-> Name(1), len |-> n, n |-> [j \in 1..n |-> 2^(8 * j - 1)], creation |-> 7] : n \in {1, 3}}
     \cup {[node |-> Name(1), len |-> 4, n |-> <<1, 2, 3, 4>>, creation |-> 0]}

MCTerm ==
         {Item("long", v) : v \in Longs} \cup {Item("longlong", v) : v \in LongLongs}
    \cup {Item("ulong", v) : v \in ULongs \cup {Num(FALSE, <<255, 255, 255, 7>>)}}
    \cup {Item("ulonglong", v) : v \in ULongLongs \cup ULongs \cup {Num(FALSE, <<7>>)}}
    \cup {Item("big", ABig(k, n)) : k \in {4, 5, 8, 9}, n \in {0, 1}}
    \cup {Item("char", c) : c \in {0, -1}} \cup {Item("double", <<63, 240, 0, 0, 0, 0, 0, 1>>)}
    \cup {Item("atom", Name(k)) : k \in {0, 4, 5, 6}} \cup {Item("boolean", b) : b \in {0, 1, 2}}
    \cup {Item("string", Name(k)) : k \in 0..4} \cup {Item("binary", Name(k)) : k \in {0, 2}}
    \cup {Item("pid", APid(n)) : n \in {3, 40000}}
    \cup {Item("port", [node |-> Name(2), id |-> n, creation |-> n]) : n \in {2, 2^28 + 5}}
    \cup {Item("ref", r) : r \in Refs}
    \cup {Item("fun", f) : f \in {NewFun(<<>>), NewFun(<<97, 7>>), OldFun(0, <<>>), OldFun(2, <<97, 7, 106>>)}}
    \cup {Item("trace", [flags |-> Num(FALSE, <<1>>), label |-> Num(TRUE, <<2>>),
                         serial |-> Num(FALSE, Top(4, 8)), from |-> APid(9), prev |-> Num(FALSE, <<>>)])}
    \cup {Item("list", -1), Item("tuple", -1)}
    \cup {Item("tuple", 0), Item("tuple", 2) \o Atom \o Long, Item("tuple", 3) \o Long \o Nil0 \o Atom,
          Item("list", 2) \o Long \o Item("char", 9) \o Nil0,
          Item("list", 1) \o Item("list", 1) \o Long \o Atom \o Nil0,
          Item("tuple", 1) \o Item("list", 1) \o Item("tuple", 1) \o Atom \o Long,
          Item("list", 2) \o Long \o Atom \o Nil0}

MCFollower == {Atom, Nil0}

MCBig == {ABig(k, n) : k \in {4, 5, 8}, n \in {0, 1}}
    \cup {ei_small_to_big(s, ei_alloc_big(4, {"big", "digits"})).b : s \in {65536, 2^30}}

-----------------------------------------------------------------------------
(* ETERMs at the limits of the formats of erl_marshal.c. *)

N(neg, mag) == [neg |-> neg, mag |-> mag]

E(t, v) == [t |-> t, v |-> v]

Small(k) == E("int", N(FALSE, IF k = 0 THEN <<>> ELSE <<k>>))

L(v, tail) == [t |-> "list", v |-> v, tail |-> tail]

AnAtom(k) == E("atom", [j \in 1..k |-> 96 + j])

Pid(n, s) == erl_mk_pid(<<110>>, n, s, 1)

Fun(arity, closure) ==
    E("fun", [arity |-> arity, creator |-> Pid(1, 1), module |-> AnAtom(1), index |-> Small(3),
              uniq |-> E("int", N(TRUE, <<9, 1>>)), closure |-> closure])

FunNew(closure) ==
    E("fun", [arity |-> 2, md5 |-> [j \in 1..16 |-> j], new_index |-> N(FALSE, <<5>>), creator |-> Pid(1, 1),
              module |-> AnAtom(1), index |-> Small(3), uniq |-> E("int", N(TRUE, <<9, 1>>)),
              closure |-> closure])

MCEterm ==
         {E("int", n) : n \in {N(FALSE, <<>>), N(FALSE, <<255>>), N(FALSE, <<0, 1>>),
                               N(FALSE, <<255, 255, 255, 127>>), N(TRUE, <<1>>), N(TRUE, <<0, 0, 0, 128>>)}}
    \cup {E("uint", n) : n \in {N(FALSE, <<7>>), N(FALSE, <<0, 0, 0, 128>>)}}
    \cup {E("longlong", n) : n \in {N(FALSE, <<0, 0, 0, 0, 1>>), N(TRUE, <<0, 0, 0, 0, 0, 0, 0, 128>>), N(FALSE, <<0, 1>>)}}
    \cup {E("ulonglong", n) : n \in {N(FALSE, <<0, 0, 0, 0, 0, 0, 0, 128>>)}}
    \cup {E("float", d) : d \in {0, 7, -3}}
    \cup {AnAtom(k) : k \in 0..2} \cup {E("binary", <<97>>), E("binary", <<97, 0>>), ERL_EMPTY_LIST}
    \cup {Pid(3, 2), Pid(2, 3), erl_mk_port(<<110>>, 5, 1), erl_mk_port(<<111>>, 5, 1),
          erl_mk_reference(<<110>>, <<1, 2, 0>>, 1), erl_mk_reference(<<110>>, <<2>>, 1)}
    \cup {L(<<Small(97)>>, ERL_EMPTY_LIST), L(<<Small(97), Small(98)>>, ERL_EMPTY_LIST),
          L(<<Small(97), Small(98), Small(99), Small(100)>>, ERL_EMPTY_LIST),
          L(<<Small(97), AnAtom(1)>>, AnAtom(1)), L(<<Small(97), AnAtom(1)>>, AnAtom(2)),
           L(<<Pid(1, 1), L(<<Small(1)>>, Small(2))>>, ERL_EMPTY_LIST)}
    \cup {E("tuple", <<>>), E("tuple", <<Small(1), AnAtom(1)>>), E("tuple", <<E("float", 1), AnAtom(2)>>),
          E("tuple", <<Small(1), L(<<Small(97)>>, ERL_EMPTY_LIST), E("binary", <<>>)>>)}
    \cup {Fun(-1, <<>>), Fun(-1, <<Small(1), ERL_EMPTY_LIST>>)}

WithNewFun == MCEterm \cup {FunNew(<<>>), FunNew(<<AnAtom(1)>>)}

OneItem(t, v) == <<[t |-> t, v |-> v]>>

MCForeign ==
    {[e |-> E("big", N(FALSE, <<0, 0, 0, 8>>)), items |-> OneItem("long", N(FALSE, <<0, 0, 0, 8>>))],
     [e |-> E("big", N(TRUE, <<0, 0, 0, 128>>)), items |-> OneItem("longlong", N(TRUE, <<0, 0, 0, 128>>))],
     [e |-> E("big", N(FALSE, <<0, 0, 0, 0, 1>>)), items |-> OneItem("longlong", N(FALSE, <<0, 0, 0, 0, 1>>))],
     [e |-> E("float", 7), items |-> OneItem("double", FloatBytes(7))],
     [e |-> L(<<Small(97), Small(98)>>, ERL_EMPTY_LIST),
      items |-> OneItem("list", 2) \o OneItem("char", 97) \o OneItem("long", N(FALSE, <<98>>)) \o OneItem("list", 0)]}

-----------------------------------------------------------------------------
(* Shapes of ETERMs and formats of erl_format. *)

T(type, val, kids) == [type |-> type, val |-> val, kids |-> kids]

MCShape == {T("fun", <<>>, <<T("int", <<7>>, <<>>)>>),
            T("tuple", <<>>, <<T("atom", <<"a">>, <<>>), T("int", <<7>>, <<>>)>>),
            T("list", <<>>, <<T("int", <<7>>, <<>>), T("nil", <<>>, <<>>)>>)}

F(fmt, w, ap, blocks) == [fmt |-> fmt, w |-> w, ap |-> ap, blocks |-> blocks]

MCFormats == {F(<<"{", "X", ",", "X", "}">>, FALSE, <<>>, 3),
              F(<<"{", "Y", ",", "~", "i", "}">>, FALSE, <<<<8>>>>, 3),
              F(<<"[", "~", "w", "]">>, TRUE, <<>>, 2), F(<<" ", "~", "w">>, TRUE, <<>>, 0),
              F(<<"{", "7", ",", "%", "}">>, FALSE, <<>>, 1),
              F(<<"[", "]">>, FALSE, <<>>, 1), F(<<"'", "a", "'">>, FALSE, <<>>, 1),
              F(<<"\"", "a", "\"">>, FALSE, <<>>, 3), F(<<"$", "a">>, FALSE, <<>>, 1),
              F(<<"_">>, FALSE, <<>>, 1), F(<<"7", ".", "5">>, FALSE, <<>>, 1)}

-----------------------------------------------------------------------------
(* Keys of the registry. *)

CONSTANTS k1, k2, v1, b1, b2

\* The places of the heap are alike.
Places == Permutations({b1, b2})

\* With a table of one position the two keys collide, with three they do not.
MCHash == k1 :> 4 @@ k2 :> 6

-----------------------------------------------------------------------------
VARIABLE part   \* the part that runs

datavars == <<part, termvars, etvars, hpvars, bvars>>

Coding(A) == part = "ei" /\ A /\ UNCHANGED <<part, etvars, hpvars, bvars>>
Marshalling(A) == part = "eterms" /\ A /\ UNCHANGED <<part, termvars, hpvars, bvars>>
Program(A) == part = "program" /\ A /\ UNCHANGED <<part, termvars, etvars, bvars>>
Registry(A) == part = "registry" /\ A /\ UNCHANGED <<part, termvars, etvars, hpvars>>

\* The size of the table matters to the registry alone.
DataInit ==
    /\ part \in {"ei", "eterms", "program", "registry"}
    /\ TmInit /\ EtInit /\ HpInit /\ BInit /\ (part # "registry" => tab = ei_hash_newtab(1))
DataNext == Coding(TmNext) \/ Marshalling(EtNext) \/ Program(HpNext) \/ Registry(BNext)
DataSpec == DataInit /\ [][DataNext]_datavars

\* What is encoded is read again, as a value of the ei library and as an ETERM,
\* whatever the buffer, the decoder and the formats, and the functions that work on
\* encoded terms agree with each other (ei_x_encode.c, the ei_decode_ functions,
\* erl_marshal.c).
TermsSound == CodecSound /\ EtermsSound
=============================================================================
