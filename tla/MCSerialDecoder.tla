--------------------------- MODULE MCSerialDecoder ---------------------------
(* A firmware that logs at three of the levels and has a user string, so that
   one range is empty and the labels of others meet. *)
EXTENDS SerialDecoder

Str(file, size, args) == [file |-> file, size |-> size, args |-> args]
MCStrings ==
  [debug   |-> <<Str(1, 5, << >>), Str(1, 5, <<"number">>)>>,
   info    |-> << >>,
   warning |-> <<Str(2, 6, <<"string", "number">>)>>,
   error   |-> <<Str(1, 5, <<"interned">>)>>,
   user    |-> <<[size |-> 2]>>]

Log(level, nth, time, args) == [level |-> level, nth |-> nth, time |-> time, args |-> args]

\* arguments on both sides of the end of the strings, which is 23
MCCall == {Log("debug", 1, 5, << >>), Log("debug", 2, 1, <<99>>),
           Log("warning", 1, 0, <<6, 0, 4>>), Log("error", 1, 2, <<21>>)}
=============================================================================
