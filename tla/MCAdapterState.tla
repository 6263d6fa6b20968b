-------------------------- MODULE MCAdapterState --------------------------
(* A function of each kind. *)
EXTENDS AdapterState

MCGuarded == {"clock_time_get", "environ_sizes_get", "fd_prestat_get", "fd_write", "random_get"}
MCMut == {"fd_close", "cabi_export_realloc"}
MCFd == {"fd_prestat_get", "fd_write", "fd_read", "fd_close"}
MCList == {"environ_sizes_get"}
MCBuffer == {"random_get", "fd_read"}
MCFunction == MCGuarded \cup MCMut \cup MCFd \cup MCList \cup MCBuffer
=============================================================================
