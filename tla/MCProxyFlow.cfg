SPECIFICATION LiveSpec
CONSTANTS
  HttpReplies <- Http
  Socks5Replies <- Socks5
  Payloads <- Said
INVARIANT RemoteInv
INVARIANT ProxyUnderstood
PROPERTY ProxyPromise
