----------------------------- MODULE MCKernSock -----------------------------
(* Instances of KernSock for TLC.  One representative of each class of
   return probe: connect, accept4, write (is_socket_op), send, sendto (the
   UDP branch), and close. *)
EXTENDS KernSock

CONSTANTS t1, t2

MCSyscalls == {"connect", "accept4", "write", "send", "sendto", "close"}
MCThreads  == {t1, t2}
MCOneThread == {t1}

(* Only data syscalls: threads doing I/O on sockets that are already open. *)
MCDataSyscalls == {"write", "send", "sendto"}
=============================================================================
