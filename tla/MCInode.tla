------------------------------ MODULE MCInode ------------------------------
EXTENDS Inode, TLC

Call(op, path, new) == [op |-> op, path |-> path, new |-> new]
x == <<"x">>
d == <<"d">>
dx == <<"d", "x">>
dd == <<"d", "d">>

MCCalls ==
  {Call("create", x, x), Call("create", dx, x), Call("mkdir", d, x), Call("unlink", x, x),
   Call("unlink", dx, x), Call("unlink", d, x), Call("link", x, dx), Call("link", dx, x),
   Call("open", dx, x), Call("open", <<"d", "..">>, x),
   Call("unlink", dd, x), Call("open", dd \o <<"..">>, x), Call("unlink", <<"d", "..">>, x)}

Symmetry == Permutations(Procs)
=============================================================================
