-------------------------- MODULE MCCameraDiscovery --------------------------
(* Two bits in a byte, eight in a word; one camera of any kind, with every      *)
(* contiguous netmask and some with gaps, and addresses whose bytes are all     *)
(* different, all but one 0, or all the highest, and another of a few kinds.    *)
EXTENDS CameraDiscovery

kind_(i, p, a, addr, netmask) ==
  [ip |-> i, persistent |-> p, autoconfig |-> a, dwAddr |-> addr, dwMask |-> netmask]

\* The driver's word for a netmask of k bits: the first byte is its lowest.
Netmask(k) == LET bytes == ip_u32_little_endian_to_bytes(cidr_to_u32(k))
              IN ip_bytes_to_u32(bytes)

Few ==
  {kind_(FALSE, FALSE, FALSE, 0, 0), kind_(TRUE, TRUE, TRUE, 0, 0),
   kind_(TRUE, TRUE, FALSE, 64, Netmask(2))}

Many ==
  Few \cup {kind_(TRUE, FALSE, FALSE, 0, 0), kind_(TRUE, FALSE, TRUE, 0, 0),
             kind_(TRUE, TRUE, FALSE, 0, 0)}
      \cup {kind_(TRUE, TRUE, TRUE, 228, Netmask(k)) : k \in 0 .. W}
      \cup {kind_(TRUE, TRUE, TRUE, 255, m) : m \in {136, 17, 60}}

MCKinds == LET first == CHOOSE c \in Cameras : TRUE
           IN [c \in Cameras |-> IF c = first THEN Many ELSE Few]
==============================================================================
