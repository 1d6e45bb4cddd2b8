----------------------------- MODULE MCExecutor ------------------------------
(***************************************************************************)
(* Instances of Executor: bytes of two bits, integrals of up to two bytes, *)
(* doubles of three with four exact bits, buffers of none or four bytes.   *)
(* 1.0 is 64 units of the smallest double, the largest single 64 and the   *)
(* largest double 240 of them; the floating ranges include one that is     *)
(* split for singles and one whose width is no double.                     *)
(***************************************************************************)
EXTENDS Executor

MCBuffers == {<<>>, <<1, 2, 3, 3>>}

MCFloating ==
  [op : {"floating"}, min : {-13}, max : {26}, n : {FloatBytes, DoubleBytes}]
    \cup [op : {"floating"}, min : {-60}, max : {15}, n : {FloatBytes, DoubleBytes}]
    \cup [op : {"floating"}, min : {-13}, max : {-14, -13}, n : {FloatBytes}]
    \cup [op : {"floating"}, min : {0}, max : {64}, n : {DoubleBytes}]

MCReads ==
  [op : {"integral"}, n : {0, 2, 3}, signed : {FALSE}]
    \cup [op : {"integral"}, n : {1, 2}, signed : {TRUE}]
    \cup [op : {"bigIntegral"}, n : {3}, signed : {FALSE}]
    \cup [op : {"bigIntegral"}, n : {1, 3}, signed : {TRUE}]
    \cup [op : {"inRange", "bigInRange"}, min : {-2}, max : {-3, -2, 2, 12, 20}]
    \cup MCFloating
    \cup [op : {"boolean", "number", "rest"}]
    \cup [op : {"pick", "booleans", "numbers"}, n : {0, 2}]
    \cup [op : {"bytes"}, n : {-1, 2}]
    \cup [op : {"picks"}, size : {0, 3}, n : {-1, 2, 4}]
    \cup [op : {"string"}, n : {-1, 2}, printable : {TRUE}]
    \cup [op : {"restString"}, printable : {FALSE}]
    \cup [op : {"integrals", "bigIntegrals"}, max : {-1, 2}, n : {2}, signed : BOOLEAN]
    \cup [op : {"strings"}, max : {2}, n : {0, 1}]

Num  == [kind |-> "Number"]
Bool == [kind |-> "Boolean"]
Str  == [kind |-> "String"]
List == [kind |-> "Array", element |-> Bool, sizeHint |-> -1]
Pair == [kind |-> "Array", element |-> Str, sizeHint |-> 2]
Obj  == [kind |-> "Object", fields |-> <<List, [kind |-> "Null"], Num>>]

C(type) == [Constant |-> type]
O(id)   == [Output |-> id]
Step(id, conv, args) == [id |-> id, conv |-> conv, args |-> args]

MCSeqs ==
  { <<>>,
    <<Step(7, "Constructor", <<C(Obj)>>), Step(2, "Free", <<C(Pair)>>),
      Step(5, "Method", <<O(7), C(Bool), O(2)>>)>>,
    <<Step(4, "Free", <<>>), Step(1, "Method", <<O(4), O(4), C(List)>>)>>,
    <<Step(3, "Method", <<C(Num), C(Str)>>)>> }

MCErrors == [class : {"AssertionError", "TypeError"}, message : {"known"}]
              \cup [class : {"Error"}, message : {"", "known", "novel"}]

=============================================================================
