----------------------------- MODULE MCSerializer -----------------------------
(* Small object graphs for Serializer. *)
EXTENDS Serializer, TLC

\* 1: a node of a graph, 2: floats and arrays, 3: an array of objects in between
SmallClasses == <<
  <<"OBJ_PARM", "INT_PARM", "OBJ_PARM">>,
  <<"FLOAT_PARM", "INT_ARY_PARM", "CHAR_ARY_PARM", "INT_ARY_PARM", "OBJ_PARM">>,
  <<"INT_PARM", "OBJ_ARY_PARM", "OBJ_PARM", "INT_PARM">> >>

Object(cls, words) == [cls |-> cls, mem |-> words]
IntArray(values)   == Object(0, <<Len(values), 1, Len(values)>> \o values)
Graph(blocks, written) == [heap |-> blocks, roots |-> written]

\* any three nodes, one of them written, or two one after the other
Three == {1, 2, 3}
NodeGraphs ==
  {Graph([n \in Three |-> Object(1, <<l[n], n, r0[n]>>)], <<1>> \o more) :
     l \in [Three -> 0..3], r0 \in {[n \in Three |-> 0], <<2, 3, 1>>, <<1, 3, 3>>},
     more \in {<<>>, <<2>>, <<0, 1>>}}

\* objects with arrays of their own, shared, or none; -7 and 8 are at the limits
BoxGraphs ==
  {Graph(<<Object(2, <<5, 6, i1, c1, j1, 2>>), Object(2, <<-1, 0, i2, c2, 0, o2>>),
           IntArray(<<1, v>>), IntArray(<<>>), IntArray(text)>>, <<1, 2>>) :
     i1 \in {3, 4}, j1 \in {0, 3}, i2 \in {0, 3}, c1 \in {0, 5}, c2 \in {0, 5}, o2 \in {0, 1, 2},
     v \in {-8, 7, 8}, text \in {<<3, 2>>, <<3, 0, 2>>}}

\* an array of objects as an instance variable
TableGraphs ==
  {Graph(<<Object(3, <<1, t, o, 4>>), Object(1, <<0, 2, 0>>), IntArray(<<2, e>>)>>, <<1, 2>>) :
     t \in {0, 3}, o \in {0, 1, 2}, e \in {0, 2}}

SmallHeaps == NodeGraphs \cup BoxGraphs \cup TableGraphs
===============================================================================
