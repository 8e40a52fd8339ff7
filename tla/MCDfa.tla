------------------------------- MODULE MCDfa -------------------------------
(* Small schemas for module Dfa.  The letters are 1 and 3, a space is 2.   *)
EXTENDS Dfa

lit(c) == [op |-> "lit", c |-> c]
cat(l, r) == [op |-> "cat", l |-> l, r |-> r]
or(l, r) == [op |-> "or", l |-> l, r |-> r]
star(r) == [op |-> "star", r |-> r]
plus(r) == [op |-> "plus", r |-> r]
opt(r) == [op |-> "opt", r |-> r]
times(r, n) == [op |-> "times", r |-> r, n |-> n]
between(r, lo, hi) == [op |-> "between", r |-> r, lo |-> lo, hi |-> hi]
cap(r, n) == [op |-> "cap", r |-> r, name |-> n]
class(ranges) == [op |-> "class", ranges |-> ranges]
nclass(ranges) == [op |-> "nclass", ranges |-> ranges]
dot == [op |-> "dot"]
a == lit(1)
space == lit(2)
b == lit(3)

header(x) == [kind |-> "header", x |-> x]
variable(x) == [kind |-> "variable", x |-> x]

MCRuleSets ==
  { << variable(cat(plus(a), b)) >>,
    << header(cat(a, cap(b, "x"))), variable(cap(plus(a), "y")) >>,
    << variable(plus(cat(plus(a), cap(plus(b), "x")))) >>,
    << variable(cat(or(cap(a, "x"), cap(b, "y")), a)) >>,
    << header(cat(cap(cat(plus(a), cat(space, plus(b))), "timestamp"), opt(b))) >>,
    << variable(cat(a, cap(star(b), "x"))), variable(cat(b, cap(opt(a), "y"))) >>,
    << variable(plus(class(<< <<2, 2>>, <<1, 3>> >>))), variable(cat(times(a, 2), between(b, 1, 2))) >>,
    << variable(cat(nclass(<< <<1, 2>> >>), dot)), variable(star(a)) >>,
    << variable(cat(or(cap(a, "x"), a), b)) >>,
    << variable(cap(cat(cap(a, "x"), opt(cap(b, "y"))), "z")) >>,
    << variable(cat(opt(cap(a, "x")), opt(cap(b, "y")))) >>,
    << variable(cat(star(a), cat(cap(a, "x"), star(b)))) >>,
    << variable(plus(cat(a, cap(star(b), "x")))) >>,
    << variable(plus(cat(cap(a, "x"), cap(b, "y")))) >>,
    << variable(plus(cap(or(a, b), "x"))) >>,
    << variable(plus(cap(cat(a, opt(cap(b, "y"))), "z"))) >>,
    << variable(cat(cap(cat(b, cap(a, "x")), "y"), cat(b, cap(plus(a), "z")))) >>,
    << variable(between(cap(or(a, b), "x"), 1, 3)) >> }

\* ((a+)|b)
MCAlternation == { << variable(or(plus(a), b)) >> }
=============================================================================
