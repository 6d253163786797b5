--------------------------- MODULE MCRawMetadata ---------------------------
EXTENDS RawMetadata

MCMasks ==
  {Permission, {}, {"create"}, {"issue", "upgrade"}, {"follow-on"}, {"cache", "publish"}}
MCField == {<<"field", "f">>}
=============================================================================
