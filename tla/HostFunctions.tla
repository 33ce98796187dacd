--------------------------- MODULE HostFunctions ---------------------------
(***************************************************************************)
(* The functions that the host exports to guests: the names, indices and   *)
(* types that src/async/host.rs spreads over resolve_func, check_signature *)
(* and invoke_index, the answers of src/async/session.rs to the three that *)
(* trap, and what serverless-api declares.                                 *)
(***************************************************************************)
EXTENDS Naturals, Sequences

HostIndex == 0..7
LOG         == 0
SET_STATUS  == 1
SET_HEADER  == 2
SET_BODY    == 3
TCP_CONNECT == 4
TCP_READ    == 5
TCP_WRITE   == 6
DB_GET      == 7

\* resolve_func: the index of a name.
Resolve ==
  [log |-> LOG, response_set_status_line |-> SET_STATUS,
   response_set_header |-> SET_HEADER, response_set_body |-> SET_BODY,
   tcp_connect |-> TCP_CONNECT, tcp_read |-> TCP_READ, tcp_write |-> TCP_WRITE,
   db_get |-> DB_GET]

Sig(params, result) == [params |-> params, result |-> result]

\* Mutant: one size has 32 bits.
SignatureShort ==
  [i \in HostIndex |->
     CASE i \in {LOG, SET_BODY}    -> Sig(<<"I32", "I64">>, "none")
       [] i = TCP_CONNECT          -> Sig(<<"I32", "I32">>, "I32")
       [] i = SET_STATUS           -> Sig(<<"I32", "I32", "I64">>, "none")
       [] i = SET_HEADER           -> Sig(<<"I32", "I64", "I32", "I64">>, "none")
       [] i \in {TCP_READ, TCP_WRITE} -> Sig(<<"I32", "I32", "I64">>, "I64")
       [] i = DB_GET               -> Sig(<<"I32", "I64", "I32", "I64">>, "I64")]

\* check_signature: the type under which an index may be imported.
Signature ==
  [i \in HostIndex |->
     CASE i = LOG         -> Sig(<<"I32", "I64">>, "none")
       [] i = SET_STATUS  -> Sig(<<"I32", "I32", "I64">>, "none")
       [] i = SET_HEADER  -> Sig(<<"I32", "I64", "I32", "I64">>, "none")
       [] i = SET_BODY    -> Sig(<<"I32", "I64">>, "none")
       [] i = TCP_CONNECT -> Sig(<<"I32", "I64">>, "I32")
       [] i = TCP_READ    -> Sig(<<"I32", "I32", "I64">>, "I64")
       [] i = TCP_WRITE   -> Sig(<<"I32", "I32", "I64">>, "I64")
       [] i = DB_GET      -> Sig(<<"I32", "I64", "I32", "I64">>, "I64")]

\* invoke_index: the buffers that it takes from its arguments, each a pointer and a
\* size, and what comes before them.
Buffer     == <<"I32", "I64">>
IntBuffer  == <<"I32", "I32", "I64">>
TwoBuffers == <<"I32", "I64", "I32", "I64">>
Arguments ==
  [i \in HostIndex |->
     CASE i \in {LOG, SET_BODY, TCP_CONNECT}         -> Buffer
       [] i \in {SET_STATUS, TCP_READ, TCP_WRITE}    -> IntBuffer
       [] i \in {SET_HEADER, DB_GET}                 -> TwoBuffers]

\* The value that the guest goes on with: invoke_index's, or add_function_result's
\* once the trap is answered.
Answer ==
  [i \in HostIndex |->
     CASE i = TCP_CONNECT                       -> "I32"
       [] i \in {TCP_READ, TCP_WRITE, DB_GET}   -> "I64"
       [] OTHER                                 -> "none"]

\* All but tcp_read, whose bytes are written when they have arrived, unwrap what
\* they find in the memory.
Unwraps(i) == i # TCP_READ

\* serverless-api, mod sys: pointers have 32 bits.
Api ==
  [log |-> Sig(Buffer, "none"),
   response_set_status_line |-> Sig(IntBuffer, "none"),
   response_set_header |-> Sig(TwoBuffers, "none"),
   response_set_body |-> Sig(Buffer, "none"),
   tcp_connect |-> Sig(Buffer, "I32"),
   tcp_read |-> Sig(IntBuffer, "I64"),
   tcp_write |-> Sig(IntBuffer, "I64"),
   db_get |-> Sig(TwoBuffers, "I64")]

=============================================================================
