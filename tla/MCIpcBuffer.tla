----------------------------- MODULE MCIpcBuffer -----------------------------
(* IpcBuffer with a handful of requests, enough for the reader to fall three *)
(* requests behind and to read one request several times.                    *)
EXTENDS IpcBuffer

=============================================================================
