------------------------------ MODULE SockAddr ------------------------------
(***************************************************************************)
(* The socket addresses of uringloop/lib.py: what connect and sendto put   *)
(* into a struct sockaddr for the kernel to read, and what accept and      *)
(* recvfrom make of a struct the kernel has written.  A byte has Base      *)
(* values, and multi-byte fields two bytes.  The host is little-endian.    *)
(***************************************************************************)
EXTENDS Integers, Sequences, SequencesExt

CONSTANTS
    Base,       \* values of a byte
    SunPath,    \* bytes of sun_path
    Flows       \* flowinfo of the IPv6 addresses

-----------------------------------------------------------------------------
(* Bytes.                                                                  *)

Byte == 0 .. Base - 1
Word == 0 .. Base * Base - 1
HostBytes(v) == <<v % Base, v \div Base>>     \* an integer in the memory of the host
HostWord(b) == b[1] + Base * b[2]
NetWord(b) == Base * b[1] + b[2]              \* how the kernel reads a port or flowinfo
htons(v) == NetWord(HostBytes(v))
ntohs(v) == htons(v)
Zeros(n) == [i \in 1 .. n |-> 0]

\* Bytes up to the first NUL.
CString(b) == SelectInSeq(b, LAMBDA x : x = 0)
UpToNul(b) == IF CString(b) = 0 THEN b ELSE SubSeq(b, 1, CString(b) - 1)

\* Addresses as Python has them: a path is empty, the name of a file, or an abstract name,
\* which begins with the only NUL.
Names == UNION {[1 .. n -> Byte \ {0}] : n \in 1 .. SunPath}
Paths == {<<>>} \cup Names \cup {<<0>> \o n : n \in {m \in Names : Len(m) < SunPath}}
Addresses ==
    [family : {"inet"}, ip : Byte \X Byte, port : Word]
    \cup [family : {"inet6"}, ip : Byte \X Byte, port : Word, flow : Flows, scope : Byte]
    \cup [family : {"unix"}, path : Paths]

-----------------------------------------------------------------------------
(* lib.py: filling a struct.                                               *)

\* Mutant: the port in host byte order.
SetIpv4Host(a) == [port |-> HostBytes(a.port), addr |-> a.ip]

\* int.from_bytes(.., "little") into the s_addr of a little-endian host.
SetIpv4(a) == [port |-> HostBytes(htons(a.port)), addr |-> HostBytes(HostWord(a.ip))]

SetIpv6(a) == [port |-> HostBytes(htons(a.port)), addr |-> [i \in 1 .. Len(a.ip) |-> a.ip[i]],
               flow |-> HostBytes(a.flow), scope |-> a.scope]

\* memmove into a zeroed sun_path.
SetUnix(a) == [path |-> a.path \o Zeros(SunPath - Len(a.path))]

NewReadableSockaddr(a) ==
    CASE a.family = "inet"  -> SetIpv4(a)
      [] a.family = "inet6" -> SetIpv6(a)
      [] a.family = "unix"  -> SetUnix(a)

\* get_sockaddr_size, less the family: the bytes of the path the kernel is told to read.
GetSockaddrSize == SunPath

-----------------------------------------------------------------------------
(* lib.py: parsing a struct.                                               *)

ParseIpv4(m) == [family |-> "inet", ip |-> m.addr, port |-> ntohs(HostWord(m.port))]

ParseIpv6(m) == [family |-> "inet6", ip |-> m.addr, port |-> ntohs(HostWord(m.port)),
                 flow |-> HostWord(m.flow), scope |-> m.scope]

\* ffi.string
ParseUnix(m) == [family |-> "unix", path |-> UpToNul(m.path)]

ParseAddr(family, m) ==
    CASE family = "inet"  -> ParseIpv4(m)
      [] family = "inet6" -> ParseIpv6(m)
      [] family = "unix"  -> ParseUnix(m)

-----------------------------------------------------------------------------
(* The kernel: ports and flowinfo are in network byte order, a unix path   *)
(* ends at the first NUL, an abstract name with the length of the address. *)

KernelReads(family, m, len) ==
    CASE family = "inet"  -> [family |-> family, ip |-> m.addr, port |-> NetWord(m.port)]
      [] family = "inet6" -> [family |-> family, ip |-> m.addr, port |-> NetWord(m.port),
                              flow |-> NetWord(m.flow), scope |-> m.scope]
      [] family = "unix"  -> [family |-> family,
                              path |-> IF m.path[1] = 0 THEN SubSeq(m.path, 1, len)
                                       ELSE UpToNul(SubSeq(m.path, 1, len))]

\* The struct whose kernel reading is a.
KernelWrites(a) ==
    CASE a.family = "inet"  -> [port |-> Reverse(HostBytes(a.port)), addr |-> a.ip]
      [] a.family = "inet6" -> [port |-> Reverse(HostBytes(a.port)), addr |-> a.ip,
                                flow |-> Reverse(HostBytes(a.flow)), scope |-> a.scope]
      [] a.family = "unix"  -> [path |-> a.path \o Zeros(SunPath - Len(a.path))]

=============================================================================
