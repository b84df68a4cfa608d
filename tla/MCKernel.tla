------------------------------ MODULE MCKernel ------------------------------
(* Batches that share connections, trigger predictions of one event, and   *)
(* hold a rise of syscall latencies that no single event shows.            *)
EXTENDS Kernel

CONSTANTS c1, c2

Audit(c, t) == [kind |-> "network_audit", level |-> 0, at |-> t, conn |-> c]
Other(k) == [kind |-> k, level |-> 1, at |-> 1, conn |-> c1]
Syscall(l) == [kind |-> "syscall", level |-> l, at |-> 1, conn |-> c1]

MCBatches ==
  {<<>>,
   <<Audit(c1, 1), Audit(c2, 1)>>,
   <<Audit(c2, 2), Other("critical_exit")>>,
   <<Other("dns_timeout"), Audit(c1, 2)>>,
   <<Syscall(1), Syscall(2), Syscall(3)>>}
=============================================================================
