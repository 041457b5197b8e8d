------------------------------- MODULE Tuning -------------------------------
(***************************************************************************)
(* Tuning::compute of src/tune.rs: the limits of a process from what it    *)
(* finds out about the host. Memory is counted in KiB, as /proc/meminfo    *)
(* has it.                                                                 *)
(***************************************************************************)
EXTENDS Naturals

CONSTANT None

(* What probe() may find out; None stands for what it could not. *)
Probes ==
  [link_mtu : Nat \cup {None}, has_ipv6_gateway : BOOLEAN,
   total_memory : Nat \cup {None}, fd_limit : Nat \cup {None}]

clamp(n, lo, hi) == IF n < lo THEN lo ELSE IF n > hi THEN hi ELSE n
unwrap_or(option, default) == IF option = None THEN default ELSE option
saturating_sub(m, n) == IF m < n THEN 0 ELSE m - n
AtLeastOne(n) == IF n = 0 THEN 1 ELSE n

FD_RESERVE == 64
FDS_PER_CONN == 2
TCP_CONN_MIN == 128
UDP_PER_TCP == 4
DEFAULT_FD_LIMIT == 1024

mtu(probe) == clamp(unwrap_or(probe.link_mtu, 1500), 576, 65535)
relay_buf_size(probe) == clamp(mtu(probe) * 176, 128 * 1024, 4 * 1024 * 1024)
relay_copy_buf_size(probe) == clamp(mtu(probe) * 16, 32 * 1024, 256 * 1024)
memory(probe) == unwrap_or(probe.total_memory, 2 * 1024 * 1024)
stack_buf_size(probe) == clamp(memory(probe) \div 2048, 512, 4096)

(* A quarter of the memory, which is 256 bytes of each KiB. *)
mem_conns(probe) ==
  AtLeastOne((memory(probe) * 256) \div
             (2 * relay_buf_size(probe) + relay_copy_buf_size(probe)))

(* Mutant: a connection is taken to need one descriptor. *)
fd_conns_single(fds) == AtLeastOne(saturating_sub(fds, FD_RESERVE))

fd_conns(fds) == AtLeastOne(saturating_sub(fds, FD_RESERVE) \div FDS_PER_CONN)

max_tcp_connections(probe) ==
  LET m == mem_conns(probe)
      f == fd_conns(unwrap_or(probe.fd_limit, DEFAULT_FD_LIMIT))
  IN  clamp(IF m < f THEN m ELSE f, TCP_CONN_MIN, 65536)

max_udp_sessions(tcp) == clamp(tcp \div UDP_PER_TCP, 64, 16384)

compute(probe) ==
  [max_tcp |-> max_tcp_connections(probe),
   max_udp |-> max_udp_sessions(max_tcp_connections(probe)),
   stack_buf_size |-> stack_buf_size(probe),
   capture_ipv6 |-> probe.has_ipv6_gateway]

(* The soft limit is raised to the hard one if that succeeds; None: none. *)
raise_and_read_fd_limit(limit, succeeds) ==
  IF /\ limit.current # None /\ limit.maximum # None
     /\ limit.current < limit.maximum /\ succeeds
    THEN limit.maximum ELSE limit.current

-----------------------------------------------------------------------------
(* A TCP relay holds one descriptor (src/socks.rs, tcp_connect) and a UDP
   session two (session_task of src/udp.rs: its control connection and its
   socket). With all of them in use the reserve is still left, if the limit
   allows for the smallest number of connections at all.                   *)
FitsDescriptors(fds, tuning) ==
  fds >= FD_RESERVE + FDS_PER_CONN * TCP_CONN_MIN =>
    tuning.max_tcp + 2 * tuning.max_udp + FD_RESERVE <= fds

=============================================================================
