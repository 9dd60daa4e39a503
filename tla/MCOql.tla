------------------------------- MODULE MCOql -------------------------------
(* Tables of two or three documents with a number and a word, the push-down *)
(* threshold at two documents, and the query shapes of the equivalence and  *)
(* push-down tests.                                                         *)
EXTENDS OqlStatements

n(i) == <<"num", i>>
s(i) == <<"str", i>>
fa == <<"field", "a">>
fb == <<"field", "b">>

cmp(f, rel, v) == [op |-> "cmp", field |-> f, rel |-> rel, rhs |-> v]
And(x, y) == [op |-> "and", l |-> x, r |-> y]

Store(adapted) ==
    [tenant |-> 0, adapted |-> adapted, columns |-> {"a", "b"}, threshold |-> 2,
     profile |-> [nonCovering |-> 3, tree1 |-> 2, tree2 |-> 4], maxScan |-> 3, maxRows |-> 3]
MCEnvs == {Store(TRUE), Store(FALSE)}

doc(a, b) == [a |-> a, b |-> b]
row(t, i, d) == [key |-> <<t, i>>, data |-> d, version |-> 1]

Docs == {doc(n(1), s(1)), doc(n(2), s(2)), doc(Null, s(2)), doc(n(2), s(1))}
SmallTables == {{row(1, 1, d)} : d \in Docs}
OneTenant == {{row(1, 1, x), row(1, 2, y), row(1, 3, z)} : x \in Docs, y \in Docs, z \in Docs}
TwoTenants == {{row(1, 1, x), row(1, 2, y), row(2, 1, y), row(2, 2, x)} : x \in Docs, y \in Docs}

Wheres == {Nothing, cmp("a", ">", n(1)), cmp("b", "=", s(1)), cmp("a", "!=", n(2)),
           And(cmp("a", ">=", n(1)), cmp("b", "!=", s(1))),
           And(cmp("a", ">", n(0)), cmp("a", "<", n(2))),
           [op |-> "or", l |-> cmp("a", "=", n(1)), r |-> [op |-> "null", field |-> "a", not |-> FALSE]],
           [op |-> "not", x |-> cmp("a", "=", n(2))],
           And(cmp("b", "=", s(2)), [op |-> "between", field |-> "a", lo |-> n(1), hi |-> n(2), not |-> FALSE]),
           [op |-> "in", field |-> "b", vals |-> <<s(1), s(3)>>, not |-> TRUE],
           [op |-> "like", field |-> "b", words |-> {s(1), s(2)}, plain |-> {s(1), s(2)}, not |-> FALSE],
           [op |-> "like", field |-> "b", words |-> {s(1), s(2)}, plain |-> {}, not |-> FALSE],
           And(cmp("a", "=", n(2)), [op |-> "fn", field |-> "b", name |-> "UPPER", rel |-> "=", rhs |-> s(1)]),
           cmp("a", "=", fb), [op |-> "other"]}

asc(e) == [by |-> e, desc |-> FALSE]
desc(e) == [by |-> e, desc |-> TRUE]
plain(star, cols, order, distinct) ==
    [star |-> star, cols |-> cols, group |-> << >>, having |-> Nothing, order |-> order, distinct |-> distinct]
groups(cols, group, having, order) ==
    [star |-> FALSE, cols |-> cols, group |-> group, having |-> having, order |-> order, distinct |-> FALSE]
atLeast(i) == [op |-> "cmp", on |-> <<"COUNT", "*">>, rel |-> ">=", rhs |-> n(i)]

Shapes == {plain(TRUE, << >>, << >>, FALSE), plain(TRUE, << >>, <<desc(fa)>>, FALSE),
           plain(FALSE, <<fa, fb>>, <<asc(fb), desc(fa)>>, FALSE), plain(FALSE, <<fb>>, << >>, TRUE),
           plain(FALSE, <<<<"FLOOR", "a">>>>, << >>, FALSE), plain(FALSE, <<<<"UPPER", "b">>>>, << >>, TRUE),
           plain(FALSE, <<<<"COUNT", "*">>, <<"SUM", "a">>>>, << >>, FALSE),
           groups(<<fb, <<"COUNT", "a">>>>, <<fb>>, Nothing, << >>),
           groups(<<fb, <<"COUNT", "*">>>>, <<fb>>, atLeast(2), <<asc(fb)>>),
           groups(<<fb, <<"SUM", "a">>>>, <<fb>>, Nothing, <<desc(<<"alias", 2>>)>>),
           groups(<<fb, <<"MAX", "a">>>>, <<fb>>, atLeast(2), <<desc(<<"MAX", "a">>)>>),
           groups(<<<<"UPPER", "b">>, <<"MIN", "a">>>>, <<<<"UPPER", "b">>>>, Nothing, << >>)}
Tops == {NoTop, [n |-> 1, exact |-> TRUE], [n |-> 0, exact |-> TRUE], [n |-> 1, exact |-> FALSE]}

query(w, x, t) == [star |-> x.star, cols |-> x.cols, where |-> w, group |-> x.group, having |-> x.having,
                   order |-> x.order, distinct |-> x.distinct, top |-> t]
MCQueries == {query(w, x, t) : w \in Wheres, x \in Shapes, t \in Tops}
MCStatements ==
    {[kind |-> "insert", values |-> <<doc(n(1), s(2)), doc(n(3), s(1))>>],
     [kind |-> "update", where |-> cmp("b", "=", s(1)), sets |-> <<[col |-> "a", val |-> n(2)], [col |-> "b", val |-> s(2)]>>],
     [kind |-> "update", where |-> cmp("b", "!=", s(1)), sets |-> <<[col |-> "a", val |-> n(3)]>>],
     [kind |-> "delete", where |-> cmp("b", "=", s(2))],
     [kind |-> "delete", where |-> cmp("b", "=", fb)],
     [kind |-> "delete", where |-> [op |-> "other"]],
     [kind |-> "delete", where |-> Nothing]}
MCRefused == {n(3)}
AllTables == SmallTables \cup OneTenant \cup TwoTenants
Scoped == {1, 2}
ZeroAndOne == {0, 1}
ZeroTables == {{row(0, 1, x), row(0, 2, y), row(1, 1, y), row(1, 2, x)} : x \in Docs, y \in Docs}
=============================================================================
