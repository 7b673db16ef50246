CONSTANTS
  k1 = k1
  r1 = r1
  c1 = c1
  c2 = c2
  Key = {k1}
  NoKey = NoKey
  Row = {r1}
  NoRow = NoRow
  Protocol = {"vless", "vmess", "trojan", "shadowsocks", "hysteria", "http"}
  Network = {"tcp", "kcp", "ws", "xhttp"}
  ForceTls = {"same", "tls", "none"}
  Call = {c1, c2}
SPECIFICATION Spec
CONSTRAINT MCQuiet
INVARIANTS TypeOK SavedStreamFits LinksConnect SubscriptionAgrees
PROPERTY KeylessFromReplacedForm
