----------------------------- MODULE TlRequests -----------------------------
(***************************************************************************)
(* What the server reads of a request: the struct that holds the           *)
(* arguments of a function, and the operator that fills it.                *)
(***************************************************************************)
EXTENDS TlStream

Request(fields, layout) == [fields |-> fields, layout |-> layout]

\* The structs of the functions from TLAccountChangePhone to TLAccountUpdateNotifySettings.
ArgsFromAccountChangePhone ==
  [AccountChangePhone |->
     [phoneNumber |-> QString, phoneCodeHash |-> QString, phoneCode |-> QString],
   AccountCheckUsername |-> [username |-> QString],
   AccountConfirmPhone |-> [phoneCodeHash |-> QString, phoneCode |-> QString],
   AccountDeleteAccount |-> [reason |-> QString],
   AccountGetAccountTTL |-> NoFields,
   AccountGetAuthorizations |-> NoFields,
   AccountGetNotifySettings |-> [peer |-> Tl("InputNotifyPeer")],
   AccountGetPassword |-> NoFields,
   AccountGetPasswordSettings |-> [currentPasswordHash |-> QByteArray],
   AccountGetPrivacy |-> [key |-> Tl("InputPrivacyKey")],
   AccountGetTmpPassword |-> [passwordHash |-> QByteArray, period |-> quint32],
   AccountGetWallPapers |-> NoFields,
   AccountRegisterDevice |-> [tokenType |-> quint32, token |-> QString],
   AccountReportPeer |-> [peer |-> Tl("InputPeer"), reason |-> Tl("ReportReason")],
   AccountResetAuthorization |-> [hash |-> quint64],
   AccountResetNotifySettings |-> NoFields,
   AccountSendChangePhoneCode |->
     [flags |-> quint32, phoneNumber |-> QString, currentNumber |-> bool],
   AccountSendConfirmPhoneCode |->
     [flags |-> quint32, hash |-> QString, currentNumber |-> bool],
   AccountSetAccountTTL |-> [ttl |-> Tl("AccountDaysTTL")],
   AccountSetPrivacy |->
     [key |-> Tl("InputPrivacyKey"), rules |-> Vector(Tl("InputPrivacyRule"))],
   AccountUnregisterDevice |-> [tokenType |-> quint32, token |-> QString],
   AccountUpdateDeviceLocked |-> [period |-> quint32],
   AccountUpdateNotifySettings |->
     [peer |-> Tl("InputNotifyPeer"), settings |-> Tl("InputPeerNotifySettings")]]

\* The structs of the functions from TLAccountUpdatePasswordSettings to TLAuthSignUp.
ArgsFromAccountUpdatePasswordSettings ==
  [AccountUpdatePasswordSettings |->
     [currentPasswordHash |-> QByteArray, newSettings |-> Tl("AccountPasswordInputSettings")],
   AccountUpdateProfile |->
     [flags |-> quint32, firstName |-> QString, lastName |-> QString, about |-> QString],
   AccountUpdateStatus |-> [offline |-> bool],
   AccountUpdateUsername |-> [username |-> QString],
   AuthBindTempAuthKey |->
     [permAuthKeyId |-> quint64, nonce |-> quint64, expiresAt |-> quint32,
         encryptedMessage |-> QByteArray],
   AuthCancelCode |-> [phoneNumber |-> QString, phoneCodeHash |-> QString],
   AuthCheckPassword |-> [passwordHash |-> QByteArray],
   AuthCheckPhone |-> [phoneNumber |-> QString],
   AuthDropTempAuthKeys |-> [exceptAuthKeys |-> Vector(quint64)],
   AuthExportAuthorization |-> [dcId |-> quint32],
   AuthImportAuthorization |-> [id |-> quint32, bytes |-> QByteArray],
   AuthImportBotAuthorization |->
     [flags |-> quint32, apiId |-> quint32, apiHash |-> QString, botAuthToken |-> QString],
   AuthLogOut |-> NoFields,
   AuthRecoverPassword |-> [code |-> QString],
   AuthRequestPasswordRecovery |-> NoFields,
   AuthResendCode |-> [phoneNumber |-> QString, phoneCodeHash |-> QString],
   AuthResetAuthorizations |-> NoFields,
   AuthSendCode |->
     [flags |-> quint32, phoneNumber |-> QString, currentNumber |-> bool, apiId |-> quint32,
         apiHash |-> QString],
   AuthSendInvites |-> [phoneNumbers |-> Vector(QString), message |-> QString],
   AuthSignIn |-> [phoneNumber |-> QString, phoneCodeHash |-> QString, phoneCode |-> QString],
   AuthSignUp |->
     [phoneNumber |-> QString, phoneCodeHash |-> QString, phoneCode |-> QString,
         firstName |-> QString, lastName |-> QString]]

\* The structs of the functions from TLBotsAnswerWebhookJSONQuery to TLChannelsGetParticipant.
ArgsFromBotsAnswerWebhookJSONQuery ==
  [BotsAnswerWebhookJSONQuery |-> [queryId |-> quint64, data |-> Tl("DataJSON")],
   BotsSendCustomRequest |-> [customMethod |-> QString, params |-> Tl("DataJSON")],
   ChannelsCheckUsername |-> [channel |-> Tl("InputChannel"), username |-> QString],
   ChannelsCreateChannel |-> [flags |-> quint32, title |-> QString, about |-> QString],
   ChannelsDeleteChannel |-> [channel |-> Tl("InputChannel")],
   ChannelsDeleteHistory |-> [channel |-> Tl("InputChannel"), maxId |-> quint32],
   ChannelsDeleteMessages |-> [channel |-> Tl("InputChannel"), id |-> Vector(quint32)],
   ChannelsDeleteUserHistory |-> [channel |-> Tl("InputChannel"), userId |-> Tl("InputUser")],
   ChannelsEditAbout |-> [channel |-> Tl("InputChannel"), about |-> QString],
   ChannelsEditAdmin |->
     [channel |-> Tl("InputChannel"), userId |-> Tl("InputUser"),
         adminRights |-> Tl("ChannelAdminRights")],
   ChannelsEditBanned |->
     [channel |-> Tl("InputChannel"), userId |-> Tl("InputUser"),
         bannedRights |-> Tl("ChannelBannedRights")],
   ChannelsEditPhoto |-> [channel |-> Tl("InputChannel"), photo |-> Tl("InputChatPhoto")],
   ChannelsEditTitle |-> [channel |-> Tl("InputChannel"), title |-> QString],
   ChannelsExportInvite |-> [channel |-> Tl("InputChannel")],
   ChannelsExportMessageLink |-> [channel |-> Tl("InputChannel"), id |-> quint32],
   ChannelsGetAdminLog |->
     [flags |-> quint32, channel |-> Tl("InputChannel"), q |-> QString,
         eventsFilter |-> Tl("ChannelAdminLogEventsFilter"), admins |-> Vector(Tl("InputUser")),
         maxId |-> quint64, minId |-> quint64, limit |-> quint32],
   ChannelsGetAdminedPublicChannels |-> NoFields,
   ChannelsGetChannels |-> [id |-> Vector(Tl("InputChannel"))],
   ChannelsGetFullChannel |-> [channel |-> Tl("InputChannel")],
   ChannelsGetMessages |-> [channel |-> Tl("InputChannel"), id |-> Vector(quint32)],
   ChannelsGetParticipant |-> [channel |-> Tl("InputChannel"), userId |-> Tl("InputUser")]]

\* The structs of the functions from TLChannelsGetParticipants to TLContactsImportCard.
ArgsFromChannelsGetParticipants ==
  [ChannelsGetParticipants |->
     [channel |-> Tl("InputChannel"), filter |-> Tl("ChannelParticipantsFilter"),
         offset |-> quint32, limit |-> quint32, hash |-> quint32],
   ChannelsInviteToChannel |->
     [channel |-> Tl("InputChannel"), users |-> Vector(Tl("InputUser"))],
   ChannelsJoinChannel |-> [channel |-> Tl("InputChannel")],
   ChannelsLeaveChannel |-> [channel |-> Tl("InputChannel")],
   ChannelsReadHistory |-> [channel |-> Tl("InputChannel"), maxId |-> quint32],
   ChannelsReadMessageContents |-> [channel |-> Tl("InputChannel"), id |-> Vector(quint32)],
   ChannelsReportSpam |->
     [channel |-> Tl("InputChannel"), userId |-> Tl("InputUser"), id |-> Vector(quint32)],
   ChannelsSetStickers |->
     [channel |-> Tl("InputChannel"), stickerset |-> Tl("InputStickerSet")],
   ChannelsToggleInvites |-> [channel |-> Tl("InputChannel"), enabled |-> bool],
   ChannelsTogglePreHistoryHidden |-> [channel |-> Tl("InputChannel"), enabled |-> bool],
   ChannelsToggleSignatures |-> [channel |-> Tl("InputChannel"), enabled |-> bool],
   ChannelsUpdatePinnedMessage |->
     [flags |-> quint32, channel |-> Tl("InputChannel"), id |-> quint32],
   ChannelsUpdateUsername |-> [channel |-> Tl("InputChannel"), username |-> QString],
   ContactsBlock |-> [id |-> Tl("InputUser")],
   ContactsDeleteContact |-> [id |-> Tl("InputUser")],
   ContactsDeleteContacts |-> [id |-> Vector(Tl("InputUser"))],
   ContactsExportCard |-> NoFields,
   ContactsGetBlocked |-> [offset |-> quint32, limit |-> quint32],
   ContactsGetContacts |-> [hash |-> quint32],
   ContactsGetStatuses |-> NoFields,
   ContactsGetTopPeers |->
     [flags |-> quint32, offset |-> quint32, limit |-> quint32, hash |-> quint32],
   ContactsImportCard |-> [exportCard |-> Vector(quint32)]]

\* The structs of the functions from TLContactsImportContacts to TLMessagesClearRecentStickers.
ArgsFromContactsImportContacts ==
  [ContactsImportContacts |-> [contacts |-> Vector(Tl("InputContact"))],
   ContactsResetSaved |-> NoFields,
   ContactsResetTopPeerRating |->
     [category |-> Tl("TopPeerCategory"), peer |-> Tl("InputPeer")],
   ContactsResolveUsername |-> [username |-> QString],
   ContactsSearch |-> [q |-> QString, limit |-> quint32],
   ContactsUnblock |-> [id |-> Tl("InputUser")],
   HelpGetAppChangelog |-> [prevAppVersion |-> QString],
   HelpGetAppUpdate |-> NoFields,
   HelpGetCdnConfig |-> NoFields,
   HelpGetConfig |-> NoFields,
   HelpGetInviteText |-> NoFields,
   HelpGetNearestDc |-> NoFields,
   HelpGetRecentMeUrls |-> [referer |-> QString],
   HelpGetSupport |-> NoFields,
   HelpGetTermsOfService |-> NoFields,
   HelpSaveAppLog |-> [events |-> Vector(Tl("InputAppEvent"))],
   HelpSetBotUpdatesStatus |-> [pendingUpdatesCount |-> quint32, message |-> QString],
   LangpackGetDifference |-> [fromVersion |-> quint32],
   LangpackGetLangPack |-> [langCode |-> QString],
   LangpackGetLanguages |-> NoFields,
   LangpackGetStrings |-> [langCode |-> QString, keys |-> Vector(QString)],
   MessagesAcceptEncryption |->
     [peer |-> Tl("InputEncryptedChat"), gB |-> QByteArray, keyFingerprint |-> quint64],
   MessagesAddChatUser |->
     [chatId |-> quint32, userId |-> Tl("InputUser"), fwdLimit |-> quint32],
   MessagesCheckChatInvite |-> [hash |-> QString],
   MessagesClearRecentStickers |-> [flags |-> quint32]]

\* The structs of the functions from TLMessagesCreateChat to TLMessagesGetBotCallbackAnswer.
ArgsFromMessagesCreateChat ==
  [MessagesCreateChat |-> [users |-> Vector(Tl("InputUser")), title |-> QString],
   MessagesDeleteChatUser |-> [chatId |-> quint32, userId |-> Tl("InputUser")],
   MessagesDeleteHistory |-> [flags |-> quint32, peer |-> Tl("InputPeer"), maxId |-> quint32],
   MessagesDeleteMessages |-> [flags |-> quint32, id |-> Vector(quint32)],
   MessagesDiscardEncryption |-> [chatId |-> quint32],
   MessagesEditChatAdmin |->
     [chatId |-> quint32, userId |-> Tl("InputUser"), isAdmin |-> bool],
   MessagesEditChatPhoto |-> [chatId |-> quint32, photo |-> Tl("InputChatPhoto")],
   MessagesEditChatTitle |-> [chatId |-> quint32, title |-> QString],
   MessagesEditInlineBotMessage |->
     [flags |-> quint32, id |-> Tl("InputBotInlineMessageID"), message |-> QString,
         replyMarkup |-> Tl("ReplyMarkup"), entities |-> Vector(Tl("MessageEntity")),
         geoPoint |-> Tl("InputGeoPoint")],
   MessagesEditMessage |->
     [flags |-> quint32, peer |-> Tl("InputPeer"), id |-> quint32, message |-> QString,
         replyMarkup |-> Tl("ReplyMarkup"), entities |-> Vector(Tl("MessageEntity")),
         geoPoint |-> Tl("InputGeoPoint")],
   MessagesExportChatInvite |-> [chatId |-> quint32],
   MessagesFaveSticker |-> [id |-> Tl("InputDocument"), unfave |-> bool],
   MessagesForwardMessage |->
     [peer |-> Tl("InputPeer"), id |-> quint32, randomId |-> quint64],
   MessagesForwardMessages |->
     [flags |-> quint32, fromPeer |-> Tl("InputPeer"), id |-> Vector(quint32),
         randomId |-> Vector(quint64), toPeer |-> Tl("InputPeer")],
   MessagesGetAllChats |-> [exceptIds |-> Vector(quint32)],
   MessagesGetAllDrafts |-> NoFields,
   MessagesGetAllStickers |-> [hash |-> quint32],
   MessagesGetArchivedStickers |->
     [flags |-> quint32, offsetId |-> quint64, limit |-> quint32],
   MessagesGetAttachedStickers |-> [media |-> Tl("InputStickeredMedia")],
   MessagesGetBotCallbackAnswer |->
     [flags |-> quint32, peer |-> Tl("InputPeer"), msgId |-> quint32, data |-> QByteArray]]

\* The structs of the functions from TLMessagesGetChats to TLMessagesGetRecentLocations.
ArgsFromMessagesGetChats ==
  [MessagesGetChats |-> [id |-> Vector(quint32)],
   MessagesGetCommonChats |->
     [userId |-> Tl("InputUser"), maxId |-> quint32, limit |-> quint32],
   MessagesGetDhConfig |-> [version |-> quint32, randomLength |-> quint32],
   MessagesGetDialogs |->
     [flags |-> quint32, offsetDate |-> quint32, offsetId |-> quint32,
         offsetPeer |-> Tl("InputPeer"), limit |-> quint32],
   MessagesGetDocumentByHash |->
     [sha256 |-> QByteArray, size |-> quint32, mimeType |-> QString],
   MessagesGetFavedStickers |-> [hash |-> quint32],
   MessagesGetFeaturedStickers |-> [hash |-> quint32],
   MessagesGetFullChat |-> [chatId |-> quint32],
   MessagesGetGameHighScores |->
     [peer |-> Tl("InputPeer"), id |-> quint32, userId |-> Tl("InputUser")],
   MessagesGetHistory |->
     [peer |-> Tl("InputPeer"), offsetId |-> quint32, offsetDate |-> quint32,
         addOffset |-> quint32, limit |-> quint32, maxId |-> quint32, minId |-> quint32,
         hash |-> quint32],
   MessagesGetInlineBotResults |->
     [flags |-> quint32, bot |-> Tl("InputUser"), peer |-> Tl("InputPeer"),
         geoPoint |-> Tl("InputGeoPoint"), query |-> QString, offset |-> QString],
   MessagesGetInlineGameHighScores |->
     [id |-> Tl("InputBotInlineMessageID"), userId |-> Tl("InputUser")],
   MessagesGetMaskStickers |-> [hash |-> quint32],
   MessagesGetMessageEditData |-> [peer |-> Tl("InputPeer"), id |-> quint32],
   MessagesGetMessages |-> [id |-> Vector(quint32)],
   MessagesGetMessagesViews |->
     [peer |-> Tl("InputPeer"), id |-> Vector(quint32), increment |-> bool],
   MessagesGetPeerDialogs |-> [peers |-> Vector(Tl("InputPeer"))],
   MessagesGetPeerSettings |-> [peer |-> Tl("InputPeer")],
   MessagesGetPinnedDialogs |-> NoFields,
   MessagesGetRecentLocations |-> [peer |-> Tl("InputPeer"), limit |-> quint32]]

\* The structs of the functions from TLMessagesGetRecentStickers to TLMessagesRequestEncryption.
ArgsFromMessagesGetRecentStickers ==
  [MessagesGetRecentStickers |-> [flags |-> quint32, hash |-> quint32],
   MessagesGetSavedGifs |-> [hash |-> quint32],
   MessagesGetStickerSet |-> [stickerset |-> Tl("InputStickerSet")],
   MessagesGetUnreadMentions |->
     [peer |-> Tl("InputPeer"), offsetId |-> quint32, addOffset |-> quint32, limit |-> quint32,
         maxId |-> quint32, minId |-> quint32],
   MessagesGetWebPage |-> [url |-> QString, hash |-> quint32],
   MessagesGetWebPagePreview |-> [message |-> QString],
   MessagesHideReportSpam |-> [peer |-> Tl("InputPeer")],
   MessagesImportChatInvite |-> [hash |-> QString],
   MessagesInstallStickerSet |-> [stickerset |-> Tl("InputStickerSet"), archived |-> bool],
   MessagesMigrateChat |-> [chatId |-> quint32],
   MessagesReadEncryptedHistory |-> [peer |-> Tl("InputEncryptedChat"), maxDate |-> quint32],
   MessagesReadFeaturedStickers |-> [id |-> Vector(quint64)],
   MessagesReadHistory |-> [peer |-> Tl("InputPeer"), maxId |-> quint32],
   MessagesReadMentions |-> [peer |-> Tl("InputPeer")],
   MessagesReadMessageContents |-> [id |-> Vector(quint32)],
   MessagesReceivedMessages |-> [maxId |-> quint32],
   MessagesReceivedQueue |-> [maxQts |-> quint32],
   MessagesReorderPinnedDialogs |-> [flags |-> quint32, order |-> Vector(Tl("InputPeer"))],
   MessagesReorderStickerSets |-> [flags |-> quint32, order |-> Vector(quint64)],
   MessagesReportEncryptedSpam |-> [peer |-> Tl("InputEncryptedChat")],
   MessagesReportSpam |-> [peer |-> Tl("InputPeer")],
   MessagesRequestEncryption |->
     [userId |-> Tl("InputUser"), randomId |-> quint32, gA |-> QByteArray]]

\* The structs of the functions from TLMessagesSaveDraft to TLMessagesSetBotPrecheckoutResults.
ArgsFromMessagesSaveDraft ==
  [MessagesSaveDraft |->
     [flags |-> quint32, replyToMsgId |-> quint32, peer |-> Tl("InputPeer"), message |-> QString,
         entities |-> Vector(Tl("MessageEntity"))],
   MessagesSaveGif |-> [id |-> Tl("InputDocument"), unsave |-> bool],
   MessagesSaveRecentSticker |->
     [flags |-> quint32, id |-> Tl("InputDocument"), unsave |-> bool],
   MessagesSearch |->
     [flags |-> quint32, peer |-> Tl("InputPeer"), q |-> QString, fromId |-> Tl("InputUser"),
         filter |-> Tl("MessagesFilter"), minDate |-> quint32, maxDate |-> quint32,
         offsetId |-> quint32, addOffset |-> quint32, limit |-> quint32, maxId |-> quint32,
         minId |-> quint32],
   MessagesSearchGifs |-> [q |-> QString, offset |-> quint32],
   MessagesSearchGlobal |->
     [q |-> QString, offsetDate |-> quint32, offsetPeer |-> Tl("InputPeer"),
         offsetId |-> quint32, limit |-> quint32],
   MessagesSendEncrypted |->
     [peer |-> Tl("InputEncryptedChat"), randomId |-> quint64, data |-> QByteArray],
   MessagesSendEncryptedFile |->
     [peer |-> Tl("InputEncryptedChat"), randomId |-> quint64, data |-> QByteArray,
         file |-> Tl("InputEncryptedFile")],
   MessagesSendEncryptedService |->
     [peer |-> Tl("InputEncryptedChat"), randomId |-> quint64, data |-> QByteArray],
   MessagesSendInlineBotResult |->
     [flags |-> quint32, peer |-> Tl("InputPeer"), replyToMsgId |-> quint32,
         randomId |-> quint64, queryId |-> quint64, id |-> QString],
   MessagesSendMedia |->
     [flags |-> quint32, peer |-> Tl("InputPeer"), replyToMsgId |-> quint32,
         media |-> Tl("InputMedia"), randomId |-> quint64, replyMarkup |-> Tl("ReplyMarkup")],
   MessagesSendMessage |->
     [flags |-> quint32, peer |-> Tl("InputPeer"), replyToMsgId |-> quint32, message |-> QString,
         randomId |-> quint64, replyMarkup |-> Tl("ReplyMarkup"),
         entities |-> Vector(Tl("MessageEntity"))],
   MessagesSendScreenshotNotification |->
     [peer |-> Tl("InputPeer"), replyToMsgId |-> quint32, randomId |-> quint64],
   MessagesSetBotCallbackAnswer |->
     [flags |-> quint32, queryId |-> quint64, message |-> QString, url |-> QString,
         cacheTime |-> quint32],
   MessagesSetBotPrecheckoutResults |->
     [flags |-> quint32, queryId |-> quint64, error |-> QString]]

\* The structs of the functions from TLMessagesSetBotShippingResults to TLPhoneConfirmCall.
ArgsFromMessagesSetBotShippingResults ==
  [MessagesSetBotShippingResults |->
     [flags |-> quint32, queryId |-> quint64, error |-> QString,
         shippingOptions |-> Vector(Tl("ShippingOption"))],
   MessagesSetEncryptedTyping |-> [peer |-> Tl("InputEncryptedChat"), typing |-> bool],
   MessagesSetGameScore |->
     [flags |-> quint32, peer |-> Tl("InputPeer"), id |-> quint32, userId |-> Tl("InputUser"),
         score |-> quint32],
   MessagesSetInlineBotResults |->
     [flags |-> quint32, queryId |-> quint64, results |-> Vector(Tl("InputBotInlineResult")),
         cacheTime |-> quint32, nextOffset |-> QString, switchPm |-> Tl("InlineBotSwitchPM")],
   MessagesSetInlineGameScore |->
     [flags |-> quint32, id |-> Tl("InputBotInlineMessageID"), userId |-> Tl("InputUser"),
         score |-> quint32],
   MessagesSetTyping |-> [peer |-> Tl("InputPeer"), action |-> Tl("SendMessageAction")],
   MessagesStartBot |->
     [bot |-> Tl("InputUser"), peer |-> Tl("InputPeer"), randomId |-> quint64,
         startParam |-> QString],
   MessagesToggleChatAdmins |-> [chatId |-> quint32, enabled |-> bool],
   MessagesToggleDialogPin |-> [flags |-> quint32, peer |-> Tl("InputPeer")],
   MessagesUninstallStickerSet |-> [stickerset |-> Tl("InputStickerSet")],
   MessagesUploadMedia |-> [peer |-> Tl("InputPeer"), media |-> Tl("InputMedia")],
   PaymentsClearSavedInfo |-> [flags |-> quint32],
   PaymentsGetPaymentForm |-> [msgId |-> quint32],
   PaymentsGetPaymentReceipt |-> [msgId |-> quint32],
   PaymentsGetSavedInfo |-> NoFields,
   PaymentsSendPaymentForm |->
     [flags |-> quint32, msgId |-> quint32, requestedInfoId |-> QString,
         shippingOptionId |-> QString, credentials |-> Tl("InputPaymentCredentials")],
   PaymentsValidateRequestedInfo |->
     [flags |-> quint32, msgId |-> quint32, info |-> Tl("PaymentRequestedInfo")],
   PhoneAcceptCall |->
     [peer |-> Tl("InputPhoneCall"), gB |-> QByteArray, protocol |-> Tl("PhoneCallProtocol")],
   PhoneConfirmCall |->
     [peer |-> Tl("InputPhoneCall"), gA |-> QByteArray, keyFingerprint |-> quint64,
         protocol |-> Tl("PhoneCallProtocol")]]

\* The structs of the functions from TLPhoneDiscardCall to TLUploadGetFile.
ArgsFromPhoneDiscardCall ==
  [PhoneDiscardCall |->
     [peer |-> Tl("InputPhoneCall"), duration |-> quint32,
         reason |-> Tl("PhoneCallDiscardReason"), connectionId |-> quint64],
   PhoneGetCallConfig |-> NoFields,
   PhoneReceivedCall |-> [peer |-> Tl("InputPhoneCall")],
   PhoneRequestCall |->
     [userId |-> Tl("InputUser"), randomId |-> quint32, gAHash |-> QByteArray,
         protocol |-> Tl("PhoneCallProtocol")],
   PhoneSaveCallDebug |-> [peer |-> Tl("InputPhoneCall"), debug |-> Tl("DataJSON")],
   PhoneSetCallRating |->
     [peer |-> Tl("InputPhoneCall"), rating |-> quint32, comment |-> QString],
   PhotosDeletePhotos |-> [id |-> Vector(Tl("InputPhoto"))],
   PhotosGetUserPhotos |->
     [userId |-> Tl("InputUser"), offset |-> quint32, maxId |-> quint64, limit |-> quint32],
   PhotosUpdateProfilePhoto |-> [id |-> Tl("InputPhoto")],
   PhotosUploadProfilePhoto |-> [file |-> Tl("InputFile")],
   StickersAddStickerToSet |->
     [stickerset |-> Tl("InputStickerSet"), sticker |-> Tl("InputStickerSetItem")],
   StickersChangeStickerPosition |-> [sticker |-> Tl("InputDocument"), position |-> quint32],
   StickersCreateStickerSet |->
     [flags |-> quint32, userId |-> Tl("InputUser"), title |-> QString, shortName |-> QString,
         stickers |-> Vector(Tl("InputStickerSetItem"))],
   StickersRemoveStickerFromSet |-> [sticker |-> Tl("InputDocument")],
   UpdatesGetChannelDifference |->
     [flags |-> quint32, channel |-> Tl("InputChannel"), filter |-> Tl("ChannelMessagesFilter"),
         pts |-> quint32, limit |-> quint32],
   UpdatesGetDifference |->
     [flags |-> quint32, pts |-> quint32, ptsTotalLimit |-> quint32, date |-> quint32,
         qts |-> quint32],
   UpdatesGetState |-> NoFields,
   UploadGetCdnFile |-> [fileToken |-> QByteArray, offset |-> quint32, limit |-> quint32],
   UploadGetCdnFileHashes |-> [fileToken |-> QByteArray, offset |-> quint32],
   UploadGetFile |->
     [location |-> Tl("InputFileLocation"), offset |-> quint32, limit |-> quint32]]

\* The structs of the functions from TLUploadGetWebFile to TLUsersGetUsers.
ArgsFromUploadGetWebFile ==
  [UploadGetWebFile |->
     [location |-> Tl("InputWebFileLocation"), offset |-> quint32, limit |-> quint32],
   UploadReuploadCdnFile |-> [fileToken |-> QByteArray, requestToken |-> QByteArray],
   UploadSaveBigFilePart |->
     [fileId |-> quint64, filePart |-> quint32, fileTotalParts |-> quint32, bytes |-> QByteArray],
   UploadSaveFilePart |-> [fileId |-> quint64, filePart |-> quint32, bytes |-> QByteArray],
   UsersGetFullUser |-> [id |-> Tl("InputUser")],
   UsersGetUsers |-> [id |-> Vector(Tl("InputUser"))]]

\* The arguments by function.
Args ==
  ArgsFromAccountChangePhone @@ ArgsFromAccountUpdatePasswordSettings
    @@ ArgsFromBotsAnswerWebhookJSONQuery @@ ArgsFromChannelsGetParticipants
    @@ ArgsFromContactsImportContacts @@ ArgsFromMessagesCreateChat @@ ArgsFromMessagesGetChats
    @@ ArgsFromMessagesGetRecentStickers @@ ArgsFromMessagesSaveDraft
    @@ ArgsFromMessagesSetBotShippingResults @@ ArgsFromPhoneDiscardCall
    @@ ArgsFromUploadGetWebFile

\* The operators from TLAccountChangePhone to TLAccountSetAccountTTL.
ParseFromAccountChangePhone ==
  [AccountChangePhone |-> Fields(<<"phoneNumber", "phoneCodeHash", "phoneCode">>),
   AccountCheckUsername |-> Fields(<<"username">>),
   AccountConfirmPhone |-> Fields(<<"phoneCodeHash", "phoneCode">>),
   AccountDeleteAccount |-> Fields(<<"reason">>),
   AccountGetAccountTTL |-> Nothing,
   AccountGetAuthorizations |-> Nothing,
   AccountGetNotifySettings |-> Fields(<<"peer">>),
   AccountGetPassword |-> Nothing,
   AccountGetPasswordSettings |-> Fields(<<"currentPasswordHash">>),
   AccountGetPrivacy |-> Fields(<<"key">>),
   AccountGetTmpPassword |-> Fields(<<"passwordHash", "period">>),
   AccountGetWallPapers |-> Nothing,
   AccountRegisterDevice |-> Fields(<<"tokenType", "token">>),
   AccountReportPeer |-> Fields(<<"peer", "reason">>),
   AccountResetAuthorization |-> Fields(<<"hash">>),
   AccountResetNotifySettings |-> Nothing,
   AccountSendChangePhoneCode |->
     Fields(<<"flags", "phoneNumber">>) \o When(0, "currentNumber"),
   AccountSendConfirmPhoneCode |-> Fields(<<"flags", "hash">>) \o When(0, "currentNumber"),
   AccountSetAccountTTL |-> Fields(<<"ttl">>)]

\* The operators from TLAccountSetPrivacy to TLAuthRecoverPassword.
ParseFromAccountSetPrivacy ==
  [AccountSetPrivacy |-> Fields(<<"key", "rules">>),
   AccountUnregisterDevice |-> Fields(<<"tokenType", "token">>),
   AccountUpdateDeviceLocked |-> Fields(<<"period">>),
   AccountUpdateNotifySettings |-> Fields(<<"peer", "settings">>),
   AccountUpdatePasswordSettings |-> Fields(<<"currentPasswordHash", "newSettings">>),
   AccountUpdateProfile |->
     Fields(<<"flags">>) \o When(0, "firstName") \o When(1, "lastName") \o When(2, "about"),
   AccountUpdateStatus |-> Fields(<<"offline">>),
   AccountUpdateUsername |-> Fields(<<"username">>),
   AuthBindTempAuthKey |->
     Fields(<<"permAuthKeyId", "nonce", "expiresAt", "encryptedMessage">>),
   AuthCancelCode |-> Fields(<<"phoneNumber", "phoneCodeHash">>),
   AuthCheckPassword |-> Fields(<<"passwordHash">>),
   AuthCheckPhone |-> Fields(<<"phoneNumber">>),
   AuthDropTempAuthKeys |-> Fields(<<"exceptAuthKeys">>),
   AuthExportAuthorization |-> Fields(<<"dcId">>),
   AuthImportAuthorization |-> Fields(<<"id", "bytes">>),
   AuthImportBotAuthorization |-> Fields(<<"flags", "apiId", "apiHash", "botAuthToken">>),
   AuthLogOut |-> Nothing,
   AuthRecoverPassword |-> Fields(<<"code">>)]

\* The operators from TLAuthRequestPasswordRecovery to TLChannelsEditAdmin.
ParseFromAuthRequestPasswordRecovery ==
  [AuthRequestPasswordRecovery |-> Nothing,
   AuthResendCode |-> Fields(<<"phoneNumber", "phoneCodeHash">>),
   AuthResetAuthorizations |-> Nothing,
   AuthSendCode |->
     Fields(<<"flags", "phoneNumber">>) \o When(0, "currentNumber")
        \o Fields(<<"apiId", "apiHash">>),
   AuthSendInvites |-> Fields(<<"phoneNumbers", "message">>),
   AuthSignIn |-> Fields(<<"phoneNumber", "phoneCodeHash", "phoneCode">>),
   AuthSignUp |->
     Fields(<<"phoneNumber", "phoneCodeHash", "phoneCode", "firstName", "lastName">>),
   BotsAnswerWebhookJSONQuery |-> Fields(<<"queryId", "data">>),
   BotsSendCustomRequest |-> Fields(<<"customMethod", "params">>),
   ChannelsCheckUsername |-> Fields(<<"channel", "username">>),
   ChannelsCreateChannel |-> Fields(<<"flags", "title", "about">>),
   ChannelsDeleteChannel |-> Fields(<<"channel">>),
   ChannelsDeleteHistory |-> Fields(<<"channel", "maxId">>),
   ChannelsDeleteMessages |-> Fields(<<"channel", "id">>),
   ChannelsDeleteUserHistory |-> Fields(<<"channel", "userId">>),
   ChannelsEditAbout |-> Fields(<<"channel", "about">>),
   ChannelsEditAdmin |-> Fields(<<"channel", "userId", "adminRights">>)]

\* The operators from TLChannelsEditBanned to TLChannelsReadMessageContents.
ParseFromChannelsEditBanned ==
  [ChannelsEditBanned |-> Fields(<<"channel", "userId", "bannedRights">>),
   ChannelsEditPhoto |-> Fields(<<"channel", "photo">>),
   ChannelsEditTitle |-> Fields(<<"channel", "title">>),
   ChannelsExportInvite |-> Fields(<<"channel">>),
   ChannelsExportMessageLink |-> Fields(<<"channel", "id">>),
   ChannelsGetAdminLog |->
     Fields(<<"flags", "channel", "q">>) \o When(0, "eventsFilter") \o When(1, "admins")
        \o Fields(<<"maxId", "minId", "limit">>),
   ChannelsGetAdminedPublicChannels |-> Nothing,
   ChannelsGetChannels |-> Fields(<<"id">>),
   ChannelsGetFullChannel |-> Fields(<<"channel">>),
   ChannelsGetMessages |-> Fields(<<"channel", "id">>),
   ChannelsGetParticipant |-> Fields(<<"channel", "userId">>),
   ChannelsGetParticipants |-> Fields(<<"channel", "filter", "offset", "limit", "hash">>),
   ChannelsInviteToChannel |-> Fields(<<"channel", "users">>),
   ChannelsJoinChannel |-> Fields(<<"channel">>),
   ChannelsLeaveChannel |-> Fields(<<"channel">>),
   ChannelsReadHistory |-> Fields(<<"channel", "maxId">>),
   ChannelsReadMessageContents |-> Fields(<<"channel", "id">>)]

\* The operators from TLChannelsReportSpam to TLContactsResetSaved.
ParseFromChannelsReportSpam ==
  [ChannelsReportSpam |-> Fields(<<"channel", "userId", "id">>),
   ChannelsSetStickers |-> Fields(<<"channel", "stickerset">>),
   ChannelsToggleInvites |-> Fields(<<"channel", "enabled">>),
   ChannelsTogglePreHistoryHidden |-> Fields(<<"channel", "enabled">>),
   ChannelsToggleSignatures |-> Fields(<<"channel", "enabled">>),
   ChannelsUpdatePinnedMessage |-> Fields(<<"flags", "channel", "id">>),
   ChannelsUpdateUsername |-> Fields(<<"channel", "username">>),
   ContactsBlock |-> Fields(<<"id">>),
   ContactsDeleteContact |-> Fields(<<"id">>),
   ContactsDeleteContacts |-> Fields(<<"id">>),
   ContactsExportCard |-> Nothing,
   ContactsGetBlocked |-> Fields(<<"offset", "limit">>),
   ContactsGetContacts |-> Fields(<<"hash">>),
   ContactsGetStatuses |-> Nothing,
   ContactsGetTopPeers |-> Fields(<<"flags", "offset", "limit", "hash">>),
   ContactsImportCard |-> Fields(<<"exportCard">>),
   ContactsImportContacts |-> Fields(<<"contacts">>),
   ContactsResetSaved |-> Nothing]

\* The operators from TLContactsResetTopPeerRating to TLMessagesAcceptEncryption.
ParseFromContactsResetTopPeerRating ==
  [ContactsResetTopPeerRating |-> Fields(<<"category", "peer">>),
   ContactsResolveUsername |-> Fields(<<"username">>),
   ContactsSearch |-> Fields(<<"q", "limit">>),
   ContactsUnblock |-> Fields(<<"id">>),
   HelpGetAppChangelog |-> Fields(<<"prevAppVersion">>),
   HelpGetAppUpdate |-> Nothing,
   HelpGetCdnConfig |-> Nothing,
   HelpGetConfig |-> Nothing,
   HelpGetInviteText |-> Nothing,
   HelpGetNearestDc |-> Nothing,
   HelpGetRecentMeUrls |-> Fields(<<"referer">>),
   HelpGetSupport |-> Nothing,
   HelpGetTermsOfService |-> Nothing,
   HelpSaveAppLog |-> Fields(<<"events">>),
   HelpSetBotUpdatesStatus |-> Fields(<<"pendingUpdatesCount", "message">>),
   LangpackGetDifference |-> Fields(<<"fromVersion">>),
   LangpackGetLangPack |-> Fields(<<"langCode">>),
   LangpackGetLanguages |-> Nothing,
   LangpackGetStrings |-> Fields(<<"langCode", "keys">>),
   MessagesAcceptEncryption |-> Fields(<<"peer", "gB", "keyFingerprint">>)]

\* The operators from TLMessagesAddChatUser to TLMessagesFaveSticker.
ParseFromMessagesAddChatUser ==
  [MessagesAddChatUser |-> Fields(<<"chatId", "userId", "fwdLimit">>),
   MessagesCheckChatInvite |-> Fields(<<"hash">>),
   MessagesClearRecentStickers |-> Fields(<<"flags">>),
   MessagesCreateChat |-> Fields(<<"users", "title">>),
   MessagesDeleteChatUser |-> Fields(<<"chatId", "userId">>),
   MessagesDeleteHistory |-> Fields(<<"flags", "peer", "maxId">>),
   MessagesDeleteMessages |-> Fields(<<"flags", "id">>),
   MessagesDiscardEncryption |-> Fields(<<"chatId">>),
   MessagesEditChatAdmin |-> Fields(<<"chatId", "userId", "isAdmin">>),
   MessagesEditChatPhoto |-> Fields(<<"chatId", "photo">>),
   MessagesEditChatTitle |-> Fields(<<"chatId", "title">>),
   MessagesEditInlineBotMessage |->
     Fields(<<"flags", "id">>) \o When(11, "message") \o When(2, "replyMarkup")
        \o When(3, "entities") \o When(13, "geoPoint"),
   MessagesEditMessage |->
     Fields(<<"flags", "peer", "id">>) \o When(11, "message") \o When(2, "replyMarkup")
        \o When(3, "entities") \o When(13, "geoPoint"),
   MessagesExportChatInvite |-> Fields(<<"chatId">>),
   MessagesFaveSticker |-> Fields(<<"id", "unfave">>)]

\* The operators from TLMessagesForwardMessage to TLMessagesGetGameHighScores.
ParseFromMessagesForwardMessage ==
  [MessagesForwardMessage |-> Fields(<<"peer", "id", "randomId">>),
   MessagesForwardMessages |-> Fields(<<"flags", "fromPeer", "id", "randomId", "toPeer">>),
   MessagesGetAllChats |-> Fields(<<"exceptIds">>),
   MessagesGetAllDrafts |-> Nothing,
   MessagesGetAllStickers |-> Fields(<<"hash">>),
   MessagesGetArchivedStickers |-> Fields(<<"flags", "offsetId", "limit">>),
   MessagesGetAttachedStickers |-> Fields(<<"media">>),
   MessagesGetBotCallbackAnswer |-> Fields(<<"flags", "peer", "msgId">>) \o When(0, "data"),
   MessagesGetChats |-> Fields(<<"id">>),
   MessagesGetCommonChats |-> Fields(<<"userId", "maxId", "limit">>),
   MessagesGetDhConfig |-> Fields(<<"version", "randomLength">>),
   MessagesGetDialogs |->
     Fields(<<"flags", "offsetDate", "offsetId", "offsetPeer", "limit">>),
   MessagesGetDocumentByHash |-> Fields(<<"sha256", "size", "mimeType">>),
   MessagesGetFavedStickers |-> Fields(<<"hash">>),
   MessagesGetFeaturedStickers |-> Fields(<<"hash">>),
   MessagesGetFullChat |-> Fields(<<"chatId">>),
   MessagesGetGameHighScores |-> Fields(<<"peer", "id", "userId">>)]

\* A variant that reads two arguments of the same type in the other order.
ParseMessagesGetHistorySwapped ==
  Fields(<<"peer", "offsetDate", "offsetId", "addOffset", "limit", "maxId", "minId", "hash">>)

ParseMessagesGetHistory ==
  Fields(<<"peer", "offsetId", "offsetDate", "addOffset", "limit", "maxId", "minId", "hash">>)

\* The operators from TLMessagesGetInlineBotResults to TLMessagesImportChatInvite.
ParseFromMessagesGetInlineBotResults ==
  [MessagesGetInlineBotResults |->
     Fields(<<"flags", "bot", "peer">>) \o When(0, "geoPoint") \o Fields(<<"query", "offset">>),
   MessagesGetInlineGameHighScores |-> Fields(<<"id", "userId">>),
   MessagesGetMaskStickers |-> Fields(<<"hash">>),
   MessagesGetMessageEditData |-> Fields(<<"peer", "id">>),
   MessagesGetMessages |-> Fields(<<"id">>),
   MessagesGetMessagesViews |-> Fields(<<"peer", "id", "increment">>),
   MessagesGetPeerDialogs |-> Fields(<<"peers">>),
   MessagesGetPeerSettings |-> Fields(<<"peer">>),
   MessagesGetPinnedDialogs |-> Nothing,
   MessagesGetRecentLocations |-> Fields(<<"peer", "limit">>),
   MessagesGetRecentStickers |-> Fields(<<"flags", "hash">>),
   MessagesGetSavedGifs |-> Fields(<<"hash">>),
   MessagesGetStickerSet |-> Fields(<<"stickerset">>),
   MessagesGetUnreadMentions |->
     Fields(<<"peer", "offsetId", "addOffset", "limit", "maxId", "minId">>),
   MessagesGetWebPage |-> Fields(<<"url", "hash">>),
   MessagesGetWebPagePreview |-> Fields(<<"message">>),
   MessagesHideReportSpam |-> Fields(<<"peer">>),
   MessagesImportChatInvite |-> Fields(<<"hash">>)]

\* The operators from TLMessagesInstallStickerSet to TLMessagesSaveRecentSticker.
ParseFromMessagesInstallStickerSet ==
  [MessagesInstallStickerSet |-> Fields(<<"stickerset", "archived">>),
   MessagesMigrateChat |-> Fields(<<"chatId">>),
   MessagesReadEncryptedHistory |-> Fields(<<"peer", "maxDate">>),
   MessagesReadFeaturedStickers |-> Fields(<<"id">>),
   MessagesReadHistory |-> Fields(<<"peer", "maxId">>),
   MessagesReadMentions |-> Fields(<<"peer">>),
   MessagesReadMessageContents |-> Fields(<<"id">>),
   MessagesReceivedMessages |-> Fields(<<"maxId">>),
   MessagesReceivedQueue |-> Fields(<<"maxQts">>),
   MessagesReorderPinnedDialogs |-> Fields(<<"flags", "order">>),
   MessagesReorderStickerSets |-> Fields(<<"flags", "order">>),
   MessagesReportEncryptedSpam |-> Fields(<<"peer">>),
   MessagesReportSpam |-> Fields(<<"peer">>),
   MessagesRequestEncryption |-> Fields(<<"userId", "randomId", "gA">>),
   MessagesSaveDraft |->
     Fields(<<"flags">>) \o When(0, "replyToMsgId") \o Fields(<<"peer", "message">>)
        \o When(3, "entities"),
   MessagesSaveGif |-> Fields(<<"id", "unsave">>),
   MessagesSaveRecentSticker |-> Fields(<<"flags", "id", "unsave">>)]

\* The operators from TLMessagesSearch to TLMessagesSetBotCallbackAnswer.
ParseFromMessagesSearch ==
  [MessagesSearch |->
     Fields(<<"flags", "peer", "q">>) \o When(0, "fromId")
        \o Fields(<<"filter", "minDate", "maxDate", "offsetId", "addOffset", "limit", "maxId",
            "minId">>),
   MessagesSearchGifs |-> Fields(<<"q", "offset">>),
   MessagesSearchGlobal |-> Fields(<<"q", "offsetDate", "offsetPeer", "offsetId", "limit">>),
   MessagesSendEncrypted |-> Fields(<<"peer", "randomId", "data">>),
   MessagesSendEncryptedFile |-> Fields(<<"peer", "randomId", "data", "file">>),
   MessagesSendEncryptedService |-> Fields(<<"peer", "randomId", "data">>),
   MessagesSendInlineBotResult |->
     Fields(<<"flags", "peer">>) \o When(0, "replyToMsgId")
        \o Fields(<<"randomId", "queryId", "id">>),
   MessagesSendMedia |->
     Fields(<<"flags", "peer">>) \o When(0, "replyToMsgId") \o Fields(<<"media", "randomId">>)
        \o When(2, "replyMarkup"),
   MessagesSendMessage |->
     Fields(<<"flags", "peer">>) \o When(0, "replyToMsgId") \o Fields(<<"message", "randomId">>)
        \o When(2, "replyMarkup") \o When(3, "entities"),
   MessagesSendScreenshotNotification |-> Fields(<<"peer", "replyToMsgId", "randomId">>),
   MessagesSetBotCallbackAnswer |->
     Fields(<<"flags", "queryId">>) \o When(0, "message") \o When(2, "url")
        \o Fields(<<"cacheTime">>)]

\* The operators from TLMessagesSetBotPrecheckoutResults to TLPaymentsGetPaymentReceipt.
ParseFromMessagesSetBotPrecheckoutResults ==
  [MessagesSetBotPrecheckoutResults |-> Fields(<<"flags", "queryId">>) \o When(0, "error"),
   MessagesSetBotShippingResults |->
     Fields(<<"flags", "queryId">>) \o When(0, "error") \o When(1, "shippingOptions"),
   MessagesSetEncryptedTyping |-> Fields(<<"peer", "typing">>),
   MessagesSetGameScore |-> Fields(<<"flags", "peer", "id", "userId", "score">>),
   MessagesSetInlineBotResults |->
     Fields(<<"flags", "queryId", "results", "cacheTime">>) \o When(2, "nextOffset")
        \o When(3, "switchPm"),
   MessagesSetInlineGameScore |-> Fields(<<"flags", "id", "userId", "score">>),
   MessagesSetTyping |-> Fields(<<"peer", "action">>),
   MessagesStartBot |-> Fields(<<"bot", "peer", "randomId", "startParam">>),
   MessagesToggleChatAdmins |-> Fields(<<"chatId", "enabled">>),
   MessagesToggleDialogPin |-> Fields(<<"flags", "peer">>),
   MessagesUninstallStickerSet |-> Fields(<<"stickerset">>),
   MessagesUploadMedia |-> Fields(<<"peer", "media">>),
   PaymentsClearSavedInfo |-> Fields(<<"flags">>),
   PaymentsGetPaymentForm |-> Fields(<<"msgId">>),
   PaymentsGetPaymentReceipt |-> Fields(<<"msgId">>)]

\* The operators from TLPaymentsGetSavedInfo to TLStickersChangeStickerPosition.
ParseFromPaymentsGetSavedInfo ==
  [PaymentsGetSavedInfo |-> Nothing,
   PaymentsSendPaymentForm |->
     Fields(<<"flags", "msgId">>) \o When(0, "requestedInfoId") \o When(1, "shippingOptionId")
        \o Fields(<<"credentials">>),
   PaymentsValidateRequestedInfo |-> Fields(<<"flags", "msgId", "info">>),
   PhoneAcceptCall |-> Fields(<<"peer", "gB", "protocol">>),
   PhoneConfirmCall |-> Fields(<<"peer", "gA", "keyFingerprint", "protocol">>),
   PhoneDiscardCall |-> Fields(<<"peer", "duration", "reason", "connectionId">>),
   PhoneGetCallConfig |-> Nothing,
   PhoneReceivedCall |-> Fields(<<"peer">>),
   PhoneRequestCall |-> Fields(<<"userId", "randomId", "gAHash", "protocol">>),
   PhoneSaveCallDebug |-> Fields(<<"peer", "debug">>),
   PhoneSetCallRating |-> Fields(<<"peer", "rating", "comment">>),
   PhotosDeletePhotos |-> Fields(<<"id">>),
   PhotosGetUserPhotos |-> Fields(<<"userId", "offset", "maxId", "limit">>),
   PhotosUpdateProfilePhoto |-> Fields(<<"id">>),
   PhotosUploadProfilePhoto |-> Fields(<<"file">>),
   StickersAddStickerToSet |-> Fields(<<"stickerset", "sticker">>),
   StickersChangeStickerPosition |-> Fields(<<"sticker", "position">>)]

\* The operators from TLStickersCreateStickerSet to TLUsersGetUsers.
ParseFromStickersCreateStickerSet ==
  [StickersCreateStickerSet |->
     Fields(<<"flags", "userId", "title", "shortName", "stickers">>),
   StickersRemoveStickerFromSet |-> Fields(<<"sticker">>),
   UpdatesGetChannelDifference |-> Fields(<<"flags", "channel", "filter", "pts", "limit">>),
   UpdatesGetDifference |->
     Fields(<<"flags", "pts">>) \o When(0, "ptsTotalLimit") \o Fields(<<"date", "qts">>),
   UpdatesGetState |-> Nothing,
   UploadGetCdnFile |-> Fields(<<"fileToken", "offset", "limit">>),
   UploadGetCdnFileHashes |-> Fields(<<"fileToken", "offset">>),
   UploadGetFile |-> Fields(<<"location", "offset", "limit">>),
   UploadGetWebFile |-> Fields(<<"location", "offset", "limit">>),
   UploadReuploadCdnFile |-> Fields(<<"fileToken", "requestToken">>),
   UploadSaveBigFilePart |-> Fields(<<"fileId", "filePart", "fileTotalParts", "bytes">>),
   UploadSaveFilePart |-> Fields(<<"fileId", "filePart", "bytes">>),
   UsersGetFullUser |-> Fields(<<"id">>),
   UsersGetUsers |-> Fields(<<"id">>)]

\* The operators by function.
Parse ==
  ParseFromAccountChangePhone @@ ParseFromAccountSetPrivacy
    @@ ParseFromAuthRequestPasswordRecovery @@ ParseFromChannelsEditBanned
    @@ ParseFromChannelsReportSpam @@ ParseFromContactsResetTopPeerRating
    @@ ParseFromMessagesAddChatUser @@ ParseFromMessagesForwardMessage
    @@ [MessagesGetHistory |-> ParseMessagesGetHistory] @@ ParseFromMessagesGetInlineBotResults
    @@ ParseFromMessagesInstallStickerSet @@ ParseFromMessagesSearch
    @@ ParseFromMessagesSetBotPrecheckoutResults @@ ParseFromPaymentsGetSavedInfo
    @@ ParseFromStickersCreateStickerSet

\* What the server reads of a request, by function.
Requests == [f \in DOMAIN Args |-> Request(Args[f], Parse[f])]
=============================================================================
